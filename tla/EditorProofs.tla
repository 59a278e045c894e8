----------------------------- MODULE EditorProofs -----------------------------
(***************************************************************************)
(* Theorems about Editor: what its parts promise, each under the discipline *)
(* its own module names, for any number of marks, documents, pages, fields, *)
(* points and matches.  Each part comes with its inductive invariant, which *)
(* begins true and is kept by every step the part takes; the last section   *)
(* draws them together.                                                     *)
(***************************************************************************)
EXTENDS Editor, FiniteSetTheorems, SequenceTheorems, NaturalsInduction,
        WellFoundedInduction, TLAPS

\* The assumptions of the parts.
LEMMA BarAssumption == Bar!Assumptions
  BY PartsAssumption
LEMMA EditAssumption == Edit!Assumptions
  BY PartsAssumption
LEMMA FormsAssumption == Forms!Assumptions
  BY PartsAssumption
LEMMA GestAssumption == Gesture!Assumptions
  BY PartsAssumption
LEMMA ProtAssumption == Protect!Assumptions
  BY PartsAssumption

-----------------------------------------------------------------------------
(* Stacks.                                                                  *)

LEMMA Pops ==
  ASSUME NEW S, NEW q \in Seq(S), q # <<>>
  PROVE  /\ q[Len(q)] \in S /\ SubSeq(q, 1, Len(q) - 1) \in Seq(S)
         /\ Len(SubSeq(q, 1, Len(q) - 1)) = Len(q) - 1
  <1>1. Len(q) \in Nat \ {0}
    OBVIOUS
  <1>2. q[Len(q)] \in S
    <2>1. Len(q) \in 1..Len(q)
      BY <1>1
    <2> QED
      BY ONLY q \in Seq(S), <2>1, ElementOfSeq
  <1>3. \A i \in 1..(Len(q) - 1) : q[i] \in S
    BY <1>1
  <1>4. SubSeq(q, 1, Len(q) - 1) \in Seq(S)
        /\ Len(SubSeq(q, 1, Len(q) - 1))
           = IF 1 <= Len(q) - 1 THEN Len(q) - 1 - 1 + 1 ELSE 0
    BY ONLY <1>1, <1>3, SubSeqProperties
  <1>5. Len(SubSeq(q, 1, Len(q) - 1)) = Len(q) - 1
    <2>1. PICK n \in Nat \ {0} : n = Len(q)
      BY <1>1
    <2>2. (IF 1 <= n - 1 THEN n - 1 - 1 + 1 ELSE 0) = n - 1
      BY ONLY n \in Nat \ {0}
    <2> QED
      BY ONLY <1>4, <2>1, <2>2
  <1> QED
    BY <1>2, <1>4, <1>5

LEMMA Pushes ==
  ASSUME NEW S, NEW q \in Seq(S), NEW e \in S
  PROVE  Append(q, e) \in Seq(S) /\ Len(Append(q, e)) = Len(q) + 1
  OBVIOUS

LEMMA Shortens ==
  ASSUME NEW S, NEW q \in Seq(S), q # <<>>
  PROVE  Tail(q) \in Seq(S) /\ Len(Tail(q)) = Len(q) - 1
  OBVIOUS

-----------------------------------------------------------------------------
(* The marks: in the stores, and in every state of them that can be undone, *)
(* each mark has one fate.                                                  *)

\* The states of the local stores in which only marks of B occur and each has one fate.
MarkStates(B) == {s \in [drafts : Anno!Stores, removed : SUBSET B] :
                    \A m \in Marks : s.drafts[m] # "none" => m \in B /\ m \notin s.removed}
LocalStores(B) == {l \in [drafts : Anno!Stores, removed : SUBSET B,
                          past : Seq(MarkStates(B)), future : Seq(MarkStates(B))] :
                     Anno!Snapshot(l) \in MarkStates(B)}
MarkFiles(B)  == {f \in Anno!Stores : \A m \in Marks : f[m] # "none" => m \in B}

AnnoTypes == /\ born \subseteq Marks /\ editing \in Marks \cup {None} /\ annoTyped \in Anno!Values
             /\ saving \subseteq Marks /\ versions \in Seq(MarkFiles(born)) /\ versions # <<>>
             /\ saved \in MarkFiles(born)
             /\ annoJob.put \in MarkFiles(born) /\ annoJob.del \subseteq Marks
             /\ DOMAIN annoJob = {"st", "put", "del", "base", "by", "made"}
             /\ loads \subseteq 1..Anno!Newest /\ annoSeen \in 1..Anno!Newest
             /\ annoJob.st = "succeeded" => annoJob.made \in 1..Anno!Newest

AnnoInv == AnnoTypes /\ local \in LocalStores(born)

-----------------------------------------------------------------------------
(* The operations on the stores, one by one.                                *)

LEMMA LocalFields ==
  ASSUME NEW B, NEW l \in LocalStores(B)
  PROVE  /\ l.drafts \in Anno!Stores /\ l.removed \in SUBSET B
         /\ l.past \in Seq(MarkStates(B)) /\ l.future \in Seq(MarkStates(B))
         /\ DOMAIN l = {"drafts", "removed", "past", "future"}
         /\ \A m \in Marks : l.drafts[m] # "none" => m \in B /\ m \notin l.removed
         /\ Anno!Snapshot(l) \in MarkStates(B)
  <1>1. l \in [drafts : Anno!Stores, removed : SUBSET B,
               past : Seq(MarkStates(B)), future : Seq(MarkStates(B))]
                  /\ Anno!Snapshot(l) \in MarkStates(B)
    BY DEF LocalStores
  <1>2. \A m \in Marks : Anno!Snapshot(l).drafts[m] # "none"
                            => m \in B /\ m \notin Anno!Snapshot(l).removed
    BY <1>1 DEF MarkStates
  <1> QED
    BY <1>1, <1>2 DEF Anno!Snapshot

\* Stores in which every mark has one fate, in place of those there are.
LEMMA StoresReplaced ==
  ASSUME NEW B, NEW l \in LocalStores(B), NEW d \in Anno!Stores, NEW x \in SUBSET B,
         \A m \in Marks : d[m] # "none" => m \in B /\ m \notin x
  PROVE  [l EXCEPT !.drafts = d, !.removed = x] \in LocalStores(B)
  <1> DEFINE k == [l EXCEPT !.drafts = d, !.removed = x]
  <1>1. /\ k.drafts = d /\ k.removed = x
        /\ k \in [drafts : Anno!Stores, removed : SUBSET B,
                  past : Seq(MarkStates(B)), future : Seq(MarkStates(B))]
    BY DEF LocalStores
  <1>2. Anno!Snapshot(k) \in MarkStates(B)
    BY <1>1 DEF Anno!Snapshot, MarkStates
  <1> QED
    BY <1>1, <1>2 DEF LocalStores

\* A state more in the history, or less.
LEMMA HistoryReplaced ==
  ASSUME NEW B, NEW l \in LocalStores(B),
         NEW p \in Seq(MarkStates(B)), NEW f \in Seq(MarkStates(B))
  PROVE  [l EXCEPT !.past = p, !.future = f] \in LocalStores(B)
  <1> DEFINE k == [l EXCEPT !.past = p, !.future = f]
  <1>1. /\ k.drafts = l.drafts /\ k.removed = l.removed
        /\ k \in [drafts : Anno!Stores, removed : SUBSET B,
                  past : Seq(MarkStates(B)), future : Seq(MarkStates(B))]
    BY DEF LocalStores
  <1>2. Anno!Snapshot(k) = Anno!Snapshot(l)
    BY <1>1 DEF Anno!Snapshot
  <1> QED
    BY <1>1, <1>2 DEF LocalStores

LEMMA MarksRemembered ==
  ASSUME NEW B, NEW l \in LocalStores(B)
  PROVE  /\ Anno!Remember(l) \in LocalStores(B)
         /\ Anno!Remember(l).drafts = l.drafts /\ Anno!Remember(l).removed = l.removed
  <1> DEFINE longer == Append(l.past, Anno!Snapshot(l))
             p == IF Len(longer) > Limit THEN Tail(longer) ELSE longer
  <1>1. longer \in Seq(MarkStates(B)) /\ longer # <<>>
    BY LocalFields
  <1>2. p \in Seq(MarkStates(B)) /\ <<>> \in Seq(MarkStates(B))
    BY <1>1
  <1>3. Anno!Remember(l) = [l EXCEPT !.past = p, !.future = <<>>]
    BY DEF Anno!Remember
  <1> HIDE DEF p
  <1>4. [l EXCEPT !.past = p, !.future = <<>>] \in LocalStores(B)
    BY <1>2, HistoryReplaced
  <1>5. Anno!Remember(l).drafts = l.drafts /\ Anno!Remember(l).removed = l.removed
    BY <1>3, LocalFields
  <1> QED
    BY <1>3, <1>4, <1>5

\* A mark that can be seen is known, and not removed.
LEMMA MarkSeen ==
  ASSUME NEW B, saved \in MarkFiles(B), NEW l \in LocalStores(B), NEW m \in Marks,
         Anno!All(l, m) # "none"
  PROVE  m \in B /\ m \notin l.removed
  BY LocalFields DEF Anno!All, MarkFiles

LEMMA MarkSeenType ==
  ASSUME NEW B, saved \in MarkFiles(B), NEW l \in LocalStores(B), NEW m \in Marks
  PROVE  Anno!All(l, m) \in Anno!Values
  BY LocalFields DEF Anno!All, MarkFiles, Anno!Stores, Anno!Values

LEMMA MarkAdded ==
  ASSUME NEW B, NEW l \in LocalStores(B), NEW m \in Marks, m \in B, m \notin l.removed,
         NEW v \in Anno!Values
  PROVE  Anno!Add(l, m, v) \in LocalStores(B)
  <1> DEFINE k == Anno!Remember(l)
             d == [k.drafts EXCEPT ![m] = v]
  <1>1. k \in LocalStores(B) /\ k.drafts = l.drafts /\ k.removed = l.removed
    BY MarksRemembered
  <1> HIDE DEF k
  <1>2. d \in Anno!Stores /\ \A n \in Marks : d[n] # "none" => n \in B /\ n \notin k.removed
    BY <1>1, LocalFields DEF Anno!Stores
  <1>3. k.removed \in SUBSET B
    BY <1>1, LocalFields
  <1>4. [k EXCEPT !.drafts = d, !.removed = k.removed] \in LocalStores(B)
    BY <1>1, <1>2, <1>3, StoresReplaced
  <1>5. [k EXCEPT !.drafts[m] = v] = [k EXCEPT !.drafts = d, !.removed = k.removed]
    BY <1>1, LocalFields
  <1> QED
    BY <1>4, <1>5 DEF Anno!Add, k

LEMMA MarkUpdated ==
  ASSUME NEW B, saved \in MarkFiles(B), NEW l \in LocalStores(B), NEW m \in Marks,
         NEW v \in Anno!Values
  PROVE  Anno!Update(l, m, v) \in LocalStores(B)
  <1>1. CASE Anno!All(l, m) \in {"none", v}
    BY <1>1 DEF Anno!Update
  <1>2. CASE Anno!All(l, m) \notin {"none", v}
    <2>1. Anno!Update(l, m, v) = Anno!Add(l, m, v)
      BY <1>2 DEF Anno!Update, Anno!Add
    <2> QED
      BY <1>2, <2>1, MarkSeen, MarkAdded
  <1> QED
    BY <1>1, <1>2

LEMMA MarkGone ==
  ASSUME NEW B, NEW l \in LocalStores(B), NEW m \in Marks, m \in B
  PROVE  Anno!Remove(l, m) \in LocalStores(B)
  <1> DEFINE k == Anno!Remember(l)
             d == [k.drafts EXCEPT ![m] = "none"]
             x == k.removed \union {m}
  <1>1. k \in LocalStores(B)
    BY MarksRemembered
  <1> HIDE DEF k
  <1>2. /\ d \in Anno!Stores /\ x \in SUBSET B
        /\ \A n \in Marks : d[n] # "none" => n \in B /\ n \notin x
    BY <1>1, LocalFields DEF Anno!Stores, Anno!Values
  <1>3. [k EXCEPT !.drafts = d, !.removed = x] \in LocalStores(B)
    BY <1>1, <1>2, StoresReplaced
  <1>4. [k EXCEPT !.removed = @ \union {m}, !.drafts[m] = "none"]
           = [k EXCEPT !.drafts = d, !.removed = x]
    BY <1>1, LocalFields
  <1> QED
    BY <1>3, <1>4 DEF Anno!Remove, k

LEMMA MarksGone ==
  ASSUME NEW B, saved \in MarkFiles(B), NEW l \in LocalStores(B)
  PROVE  Anno!RemoveAll(l) \in LocalStores(B)
  <1> DEFINE k == Anno!Remember(l)
             x == k.removed \union {m \in Marks : Anno!All(l, m) # "none"}
  <1>1. k \in LocalStores(B)
    BY MarksRemembered
  <1> HIDE DEF k
  <1>2. {m \in Marks : Anno!All(l, m) # "none"} \subseteq B
    BY MarkSeen
  <1>3. x \in SUBSET B /\ Anno!NoMark \in Anno!Stores /\ \A m \in Marks : Anno!NoMark[m] = "none"
    BY <1>1, <1>2, LocalFields DEF Anno!NoMark, Anno!Stores, Anno!Values
  <1>4. [k EXCEPT !.drafts = Anno!NoMark, !.removed = x] \in LocalStores(B)
    BY <1>1, <1>3, StoresReplaced
  <1>5. [k EXCEPT !.removed = @ \union {m \in Marks : Anno!All(l, m) # "none"},
             !.drafts = Anno!NoMark]
           = [k EXCEPT !.drafts = Anno!NoMark, !.removed = x]
    BY <1>1, LocalFields
  <1> QED
    BY <1>4, <1>5 DEF Anno!RemoveAll, k

LEMMA MarksPopped ==
  ASSUME NEW S, NEW q \in Seq(S), q # <<>>
  PROVE  q[Len(q)] \in S /\ SubSeq(q, 1, Len(q) - 1) \in Seq(S)
  <1>1. Len(q) \in Nat \ {0}
    OBVIOUS
  <1> QED
    BY <1>1

\* A state that comes back is one of those there were.
LEMMA MarksBack ==
  ASSUME NEW B, NEW l \in LocalStores(B), NEW s \in MarkStates(B),
         NEW p \in Seq(MarkStates(B)), NEW f \in Seq(MarkStates(B))
  PROVE  [Anno!Restored(l, s) EXCEPT !.past = p, !.future = f] \in LocalStores(B)
  <1>1. /\ s.drafts \in Anno!Stores /\ s.removed \in SUBSET B
        /\ \A m \in Marks : s.drafts[m] # "none" => m \in B /\ m \notin s.removed
    BY DEF MarkStates
  <1>2. Anno!Restored(l, s) \in LocalStores(B)
    BY <1>1, StoresReplaced DEF Anno!Restored
  <1> QED
    BY <1>2, HistoryReplaced

LEMMA MarksUndone == ASSUME NEW B, NEW l \in LocalStores(B)
  PROVE Anno!Undone(l) \in LocalStores(B)
  <1>1. CASE l.past = <<>>
    BY <1>1 DEF Anno!Undone
  <1>2. CASE l.past # <<>>
    <2> DEFINE s == l.past[Len(l.past)]
               p == SubSeq(l.past, 1, Len(l.past) - 1)
               f == Append(l.future, Anno!Snapshot(l))
    <2>1. s \in MarkStates(B) /\ p \in Seq(MarkStates(B)) /\ f \in Seq(MarkStates(B))
      BY <1>2, LocalFields, MarksPopped
    <2>2. Anno!Restored(l, s).future = l.future
      BY LocalFields DEF Anno!Restored
    <2>3. Anno!Undone(l) = [Anno!Restored(l, s) EXCEPT !.past = p, !.future = f]
      BY <1>2, <2>2, LocalFields DEF Anno!Undone, Anno!Restored
    <2> HIDE DEF s, p, f
    <2>4. [Anno!Restored(l, s) EXCEPT !.past = p, !.future = f] \in LocalStores(B)
      BY <2>1, MarksBack
    <2> QED
      BY <2>3, <2>4
  <1> QED
    BY <1>1, <1>2

LEMMA MarksRedone == ASSUME NEW B, NEW l \in LocalStores(B)
  PROVE Anno!Redone(l) \in LocalStores(B)
  <1>1. CASE l.future = <<>>
    BY <1>1 DEF Anno!Redone
  <1>2. CASE l.future # <<>>
    <2> DEFINE s == l.future[Len(l.future)]
               p == Append(l.past, Anno!Snapshot(l))
               f == SubSeq(l.future, 1, Len(l.future) - 1)
    <2>1. s \in MarkStates(B) /\ p \in Seq(MarkStates(B)) /\ f \in Seq(MarkStates(B))
      BY <1>2, LocalFields, MarksPopped
    <2>2. Anno!Restored(l, s).past = l.past
      BY LocalFields DEF Anno!Restored
    <2>3. Anno!Redone(l) = [Anno!Restored(l, s) EXCEPT !.past = p, !.future = f]
      BY <1>2, <2>2, LocalFields DEF Anno!Redone, Anno!Restored
    <2> HIDE DEF s, p, f
    <2>4. [Anno!Restored(l, s) EXCEPT !.past = p, !.future = f] \in LocalStores(B)
      BY <2>1, MarksBack
    <2> QED
      BY <2>3, <2>4
  <1> QED
    BY <1>1, <1>2

\* Closing the editor changes a mark or takes it away.
LEMMA TypingClosed ==
  ASSUME AnnoTypes, NEW l \in LocalStores(born)
  PROVE  Anno!Committed(l) \in LocalStores(born)
  <1>1. CASE editing = None
    BY <1>1 DEF Anno!Committed
  <1>2. CASE editing # None
    <2> DEFINE kept == Anno!Update(l, editing, annoTyped)
    <2>1. editing \in Marks /\ annoTyped \in Anno!Values /\ saved \in MarkFiles(born)
      BY <1>2 DEF AnnoTypes
    <2>2. kept \in LocalStores(born)
      BY <2>1, MarkUpdated
    <2> HIDE DEF kept
    <2>3. CASE Anno!All(kept, editing) = "blank"
      <3>1. editing \in born
        BY <2>1, <2>2, <2>3, MarkSeen
      <3>2. Anno!Committed(l) = Anno!Remove(kept, editing)
        BY <1>2, <2>3 DEF Anno!Committed, kept
      <3> QED
        BY <2>1, <2>2, <3>1, <3>2, MarkGone
    <2>4. CASE Anno!All(kept, editing) # "blank"
      BY <1>2, <2>2, <2>4 DEF Anno!Committed, kept
    <2> QED
      BY <2>3, <2>4
  <1> QED
    BY <1>1, <1>2

\* What a reload confirms leaves both stores.
LEMMA BatchConfirmed ==
  ASSUME NEW B, NEW l \in LocalStores(B), NEW ids \in SUBSET Marks
  PROVE  [l EXCEPT !.drafts = [m \in Marks |-> IF m \in ids THEN "none" ELSE @[m]],
                   !.removed = @ \ ids] \in LocalStores(B)
  <1> DEFINE d == [m \in Marks |-> IF m \in ids THEN "none" ELSE l.drafts[m]]
             x == l.removed \ ids
  <1>1. /\ d \in Anno!Stores /\ x \in SUBSET B
        /\ \A m \in Marks : d[m] # "none" => m \in B /\ m \notin x
    BY LocalFields DEF Anno!Stores, Anno!Values
  <1>2. [l EXCEPT !.drafts = [m \in Marks |-> IF m \in ids THEN "none" ELSE @[m]],
                  !.removed = @ \ ids] = [l EXCEPT !.drafts = d, !.removed = x]
    BY LocalFields
  <1> HIDE DEF d, x
  <1> QED
    BY <1>1, <1>2, StoresReplaced

LEMMA LongerKind == ASSUME NEW S, NEW T, S \subseteq T PROVE Seq(S) \subseteq Seq(T)
  <1> SUFFICES ASSUME NEW q \in Seq(S) PROVE q \in Seq(T)
    OBVIOUS
  <1>1. q = [i \in 1..Len(q) |-> q[i]] /\ Len(q) \in Nat /\ \A i \in 1..Len(q) : q[i] \in T
    OBVIOUS
  <1> QED
    BY <1>1

\* More marks are known later on.
LEMMA MarksWidened ==
  ASSUME NEW B, NEW C, B \subseteq C
  PROVE  LocalStores(B) \subseteq LocalStores(C) /\ MarkFiles(B) \subseteq MarkFiles(C)
  <1>1. MarkStates(B) \subseteq MarkStates(C)
    BY DEF MarkStates
  <1>2. Seq(MarkStates(B)) \subseteq Seq(MarkStates(C))
    BY <1>1, LongerKind
  <1>3. ASSUME NEW l \in LocalStores(B) PROVE l \in LocalStores(C)
    BY <1>1, <1>2, <1>3 DEF LocalStores
  <1> QED
    BY <1>3 DEF MarkFiles

-----------------------------------------------------------------------------
(* The steps.                                                               *)

\* The gestures change the local stores and the editor.
LEMMA AnnoGestureStep ==
  ASSUME AnnoInv, local' \in LocalStores(born), editing' \in Marks \cup {None},
         annoTyped' \in Anno!Values,
         UNCHANGED <<versions, annoSeen, saved, saving, born, loads, annoJob>>
  PROVE  AnnoInv'
  BY DEF AnnoInv, AnnoTypes, Anno!Newest

\* Those that draw also give an id out.
LEMMA AnnoDrawStep ==
  ASSUME AnnoInv, NEW m \in Marks, born' = born \union {m}, local' \in LocalStores(born'),
         editing' \in Marks \cup {None}, annoTyped' \in Anno!Values,
         UNCHANGED <<versions, annoSeen, saved, saving, loads, annoJob>>
  PROVE  AnnoInv'
  <1>1. MarkFiles(born) \subseteq MarkFiles(born')
    BY MarksWidened
  <1>2. Seq(MarkFiles(born)) \subseteq Seq(MarkFiles(born'))
    BY <1>1, LongerKind
  <1>3. versions \in Seq(MarkFiles(born'))
    BY <1>2 DEF AnnoInv, AnnoTypes
  <1> QED
    BY <1>1, <1>3 DEF AnnoInv, AnnoTypes, Anno!Newest

\* The rest leaves the local stores alone, or drops from them what a reload has confirmed.
LEMMA AnnoJobStep ==
  ASSUME AnnoInv, local' = local, UNCHANGED <<versions, saved, born, editing, annoTyped>>,
         saving' \in SUBSET Marks, loads' \subseteq 1..Anno!Newest, annoSeen' \in 1..Anno!Newest,
         annoJob'.put \in MarkFiles(born), annoJob'.del \subseteq Marks,
         DOMAIN annoJob' = {"st", "put", "del", "base", "by", "made"},
         annoJob'.st = "succeeded" => annoJob'.made \in 1..Anno!Newest
  PROVE  AnnoInv'
  BY DEF AnnoInv, AnnoTypes, Anno!Newest

\* A batch is made of what the stores hold.
LEMMA BatchMade ==
  ASSUME AnnoInv, NEW by, Anno!Dispatch(local, by)
  PROVE  /\ saving' \in SUBSET Marks /\ annoJob'.put \in MarkFiles(born)
         /\ annoJob'.del \subseteq Marks
         /\ DOMAIN annoJob' = {"st", "put", "del", "base", "by", "made"} /\ annoJob'.st = "sent"
  <1>1. /\ local.drafts \in Anno!Stores /\ local.removed \in SUBSET born /\ born \subseteq Marks
        /\ \A m \in Marks : local.drafts[m] # "none" => m \in born
    BY LocalFields DEF AnnoInv, AnnoTypes
  <1>2. /\ Anno!Batch(local).put \in MarkFiles(born) /\ Anno!Batch(local).del \subseteq Marks
        /\ Anno!BatchIds(Anno!Batch(local)) \subseteq Marks
    BY <1>1 DEF Anno!Batch, Anno!BatchIds, MarkFiles
  <1> QED
    BY <1>2 DEF Anno!Dispatch

LEMMA AnnoStep == ASSUME Anno!Assumptions, AnnoInv, Anno!Next PROVE AnnoInv'
  <1>0. /\ AnnoTypes /\ local \in LocalStores(born) /\ Anno!Committed(local) \in LocalStores(born)
        /\ saved \in MarkFiles(born) /\ Anno!Newest \in Nat \ {0}
        /\ {"none", "blank", "ink", "moved", "text"} = Anno!Values
    BY TypingClosed DEF AnnoInv, AnnoTypes, Anno!Newest, Anno!Values
  <1>00. versions[Anno!Newest] \in MarkFiles(born)
    BY MarksPopped DEF AnnoInv, AnnoTypes, Anno!Newest
  <1>1. CASE Anno!EndEditing
    BY <1>0, <1>1, AnnoGestureStep DEF Anno!EndEditing
  <1>2. CASE Anno!Undo
    <2>1. local' \in LocalStores(born)
      BY <1>0, <1>2, MarksUndone DEF Anno!Undo
    <2> QED
      BY <1>0, <1>2, <2>1, AnnoGestureStep DEF Anno!Undo
  <1>3. CASE Anno!Redo
    <2>1. local' \in LocalStores(born)
      BY <1>0, <1>3, MarksRedone DEF Anno!Redo
    <2> QED
      BY <1>0, <1>3, <2>1, AnnoGestureStep DEF Anno!Redo
  <1>4. CASE Anno!ClearAll
    <2>1. local' \in LocalStores(born)
      BY <1>0, <1>4, MarksGone DEF Anno!ClearAll
    <2> QED
      BY <1>0, <1>4, <2>1, AnnoGestureStep DEF Anno!ClearAll, AnnoTypes
  <1>5. ASSUME NEW m \in Marks, NEW v \in {"blank", "ink"}, Anno!Draw(m, v) PROVE AnnoInv'
    <2>1. m \notin born /\ born' = born \union {m}
          /\ local' = Anno!Add(Anno!Committed(local), m, v)
      BY <1>5 DEF Anno!Draw
    <2>2. Anno!Committed(local) \in LocalStores(born') /\ m \notin Anno!Committed(local).removed
      BY <1>0, <2>1, MarksWidened, LocalFields
    <2>3. local' \in LocalStores(born')
      BY <1>0, <2>1, <2>2, MarkAdded
    <2> QED
      BY <1>0, <1>5, <2>1, <2>3, AnnoDrawStep DEF Anno!Draw
  <1>6. ASSUME NEW m \in Marks, NEW copy \in Marks, Anno!Duplicate(m, copy) PROVE AnnoInv'
    <2>1. /\ copy \notin born /\ born' = born \union {copy}
          /\ local' = Anno!Add(local, copy, Anno!All(local, m))
          /\ Anno!All(local, m) \in Anno!Values
      BY <1>0, <1>6, MarkSeenType DEF Anno!Duplicate
    <2>2. local \in LocalStores(born') /\ copy \notin local.removed
      BY <1>0, <2>1, MarksWidened, LocalFields
    <2>3. local' \in LocalStores(born')
      BY <2>1, <2>2, MarkAdded
    <2> QED
      BY <1>0, <1>6, <2>1, <2>3, AnnoDrawStep DEF Anno!Duplicate, AnnoTypes
  <1>7. ASSUME NEW m \in Marks, Anno!EditText(m) PROVE AnnoInv'
    <2>1. Anno!All(Anno!Committed(local), m) \in Anno!Values
      BY <1>0, MarkSeenType
    <2> QED
      BY <1>0, <1>7, <2>1, AnnoGestureStep DEF Anno!EditText
  <1>8. ASSUME NEW m \in Marks, Anno!Move(m) PROVE AnnoInv'
    <2>1. local' \in LocalStores(born)
      BY <1>0, <1>8, MarkUpdated DEF Anno!Move
    <2> QED
      BY <1>0, <1>8, <2>1, AnnoGestureStep DEF Anno!Move, AnnoTypes
  <1>9. ASSUME NEW m \in Marks, Anno!Delete(m) PROVE AnnoInv'
    <2>1. m \in born /\ local' = Anno!Remove(local, m)
      BY <1>0, <1>9, MarkSeen DEF Anno!Delete
    <2>2. local' \in LocalStores(born)
      BY <1>0, <2>1, MarkGone
    <2> QED
      BY <1>0, <1>9, <2>2, AnnoGestureStep DEF Anno!Delete, AnnoTypes
  <1>10. ASSUME NEW v \in {"blank", "text"}, Anno!Type(v) PROVE AnnoInv'
    BY <1>0, <1>10, AnnoGestureStep DEF Anno!Type, AnnoTypes
  <1>11. CASE Anno!SwitchAway
    <2>1. annoJob' = [annoJob EXCEPT !.by = IF @ = "panel" THEN "nobody" ELSE @]
      BY <1>11 DEF Anno!SwitchAway
    <2> QED
      BY <1>0, <1>11, <2>1 DEF Anno!SwitchAway, AnnoInv, AnnoTypes, Anno!Newest
  <1>12. CASE Anno!Save
    <2>1. UNCHANGED <<versions, annoSeen, saved, local, editing, annoTyped, born, loads>>
      BY <1>12 DEF Anno!Save
    <2>2. /\ saving' \in SUBSET Marks /\ annoJob'.put \in MarkFiles(born)
          /\ annoJob'.del \subseteq Marks
          /\ DOMAIN annoJob' = {"st", "put", "del", "base", "by", "made"} /\ annoJob'.st = "sent"
      BY <1>12, BatchMade DEF Anno!Save
    <2> QED
      BY <1>0, <2>1, <2>2, AnnoJobStep DEF AnnoTypes
  <1>13. CASE Anno!Leave
    <2>1. UNCHANGED <<versions, annoSeen, saved, local, editing, annoTyped, born, loads>>
      BY <1>13 DEF Anno!Leave
    <2>2. /\ saving' \in SUBSET Marks /\ annoJob'.put \in MarkFiles(born)
          /\ annoJob'.del \subseteq Marks
          /\ DOMAIN annoJob' = {"st", "put", "del", "base", "by", "made"} /\ annoJob'.st = "sent"
      BY <1>13, BatchMade DEF Anno!Leave
    <2> QED
      BY <1>0, <2>1, <2>2, AnnoJobStep DEF AnnoTypes
  <1>14. CASE Anno!JobWorks
    <2> DEFINE f == [m \in Marks |-> IF annoJob.put[m] # "none" THEN annoJob.put[m]
                        ELSE IF m \in annoJob.del THEN "none" ELSE versions[Anno!Newest][m]]
    <2>2. f \in MarkFiles(born)
      BY <1>0, <1>00 DEF AnnoTypes, MarkFiles, Anno!Stores, Anno!Values
    <2> HIDE DEF f
    <2>3. versions' = Append(versions, f)
      BY <1>14 DEF Anno!JobWorks, f
    <2>4. versions' \in Seq(MarkFiles(born)) /\ versions' # <<>> /\ Anno!Newest' = Anno!Newest + 1
      BY <1>0, <2>2, <2>3 DEF AnnoTypes, Anno!Newest
    <2>5. /\ annoJob'.made = Anno!Newest + 1 /\ annoJob'.put = annoJob.put
          /\ annoJob'.del = annoJob.del
          /\ DOMAIN annoJob' = DOMAIN annoJob
          /\ UNCHANGED <<annoSeen, saved, local, saving, editing, annoTyped, born, loads>>
      BY <1>0, <1>14 DEF Anno!JobWorks, AnnoTypes
    <2>6. 1..Anno!Newest \subseteq 1..Anno!Newest' /\ Anno!Newest + 1 \in 1..Anno!Newest'
      BY <1>0, <2>4
    <2> QED
      BY <1>0, <2>4, <2>5, <2>6 DEF AnnoInv, AnnoTypes
  <1>15. ASSUME NEW s \in {"conflict", "failed"}, annoJob' = [annoJob EXCEPT !.st = s],
                UNCHANGED <<versions, annoSeen, saved, local, saving, editing, annoTyped, born,
                            loads>>
         PROVE  AnnoInv'
    BY <1>0, <1>15 DEF AnnoInv, AnnoTypes, Anno!Newest
  <1>16. ASSUME annoJob' = Anno!NoJob, loads' \subseteq 1..Anno!Newest,
                annoSeen' \in 1..Anno!Newest,
                saving' \in SUBSET Marks,
                UNCHANGED <<versions, saved, local, editing, annoTyped, born>>
         PROVE  AnnoInv'
    <2>1. Anno!NoJob.put \in MarkFiles(born)
      BY DEF Anno!NoJob, Anno!NoMark, MarkFiles, Anno!Stores, Anno!Values
    <2> QED
      BY <1>0, <1>16, <2>1, AnnoJobStep DEF Anno!NoJob
  <1>17. CASE Anno!SaveSucceeded
    <2>1. annoSeen' = annoJob.made /\ annoJob.made \in 1..Anno!Newest
          /\ loads \subseteq 1..Anno!Newest
      BY <1>0, <1>17 DEF Anno!SaveSucceeded, AnnoTypes
    <2>2. loads' \subseteq 1..Anno!Newest
      BY <1>17, <2>1 DEF Anno!SaveSucceeded, Anno!Ask
    <2> QED
      BY <1>0, <1>16, <1>17, <2>1, <2>2 DEF Anno!SaveSucceeded, AnnoTypes
  <1>18. CASE Anno!SaveConflicted
    <2>1. annoSeen' = Anno!Newest /\ Anno!Newest \in 1..Anno!Newest
          /\ loads \subseteq 1..Anno!Newest
      BY <1>0, <1>18 DEF Anno!SaveConflicted, AnnoTypes
    <2>2. loads' \subseteq 1..Anno!Newest
      BY <1>18, <2>1 DEF Anno!SaveConflicted, Anno!Ask
    <2> QED
      BY <1>0, <1>16, <1>18, <2>1, <2>2 DEF Anno!SaveConflicted
  <1>19. CASE Anno!SaveFailed \/ Anno!Unheard
    BY <1>0, <1>16, <1>19 DEF Anno!SaveFailed, Anno!Unheard, AnnoTypes
  <1>20. ASSUME NEW v \in 1..MarkVersions, Anno!LoadAnswer(v) PROVE AnnoInv'
    <2>1. /\ v \in 1..Anno!Newest /\ saved' = versions[v] /\ versions[v] \in MarkFiles(born)
          /\ saving \in SUBSET Marks
      BY <1>0, <1>20 DEF Anno!LoadAnswer, AnnoTypes, Anno!Newest
    <2>2. local' \in LocalStores(born)
      BY <1>0, <1>20, <2>1, BatchConfirmed DEF Anno!LoadAnswer
    <2> QED
      BY <1>0, <1>20, <2>1, <2>2 DEF Anno!LoadAnswer, AnnoInv, AnnoTypes, Anno!Newest
  <1>21. ASSUME NEW v \in 1..MarkVersions, Anno!LoadFails(v) PROVE AnnoInv'
    BY <1>0, <1>21 DEF Anno!LoadFails, AnnoInv, AnnoTypes, Anno!Newest
  <1>22. ASSUME NEW v \in 1..MarkVersions, Anno!Open(v) PROVE AnnoInv'
    BY <1>0, <1>22 DEF Anno!Open, AnnoInv, AnnoTypes, Anno!Newest
  <1>23. ASSUME NEW here \in BOOLEAN, Anno!OtherVersion(here) PROVE AnnoInv'
    <2>1. versions' = Append(versions, versions[Anno!Newest])
          /\ versions[Anno!Newest] \in MarkFiles(born)
      BY <1>00, <1>23 DEF Anno!OtherVersion
    <2>2. versions' \in Seq(MarkFiles(born)) /\ versions' # <<>> /\ Anno!Newest' = Anno!Newest + 1
      BY <1>0, <2>1 DEF AnnoTypes, Anno!Newest
    <2>3. 1..Anno!Newest \subseteq 1..Anno!Newest' /\ Anno!Newest + 1 \in 1..Anno!Newest'
      BY <1>0, <2>2
    <2>4. loads' \subseteq loads \cup {Anno!Newest + 1}
          /\ annoSeen' \in {annoSeen, Anno!Newest + 1}
      BY <1>23 DEF Anno!OtherVersion, Anno!Ask
    <2>5. UNCHANGED <<saved, local, saving, editing, annoTyped, born, annoJob>>
      BY <1>23 DEF Anno!OtherVersion
    <2> QED
      BY <1>0, <2>2, <2>3, <2>4, <2>5 DEF AnnoInv, AnnoTypes
  <1>24. CASE Anno!JobConflicts \/ Anno!JobFails
    BY <1>15, <1>24 DEF Anno!JobConflicts, Anno!JobFails
  <1> QED
    BY <1>1, <1>2, <1>3, <1>4, <1>5, <1>6, <1>7, <1>8, <1>9, <1>10, <1>11, <1>12, <1>13,
       <1>14, <1>17, <1>18, <1>19, <1>20, <1>21, <1>22, <1>23, <1>24 DEF Anno!Next

-----------------------------------------------------------------------------
(* How it begins, and what it means.                                        *)

LEMMA AnnoInit == Anno!Assumptions /\ Anno!Init => AnnoInv
  <1> SUFFICES ASSUME Anno!Assumptions, Anno!Init PROVE AnnoInv
    OBVIOUS
  <1>1. Anno!NoMark \in MarkFiles({}) /\ Anno!NoMark \in Anno!Stores /\ born = {}
    BY DEF Anno!Init, Anno!NoMark, MarkFiles, Anno!Stores, Anno!Values
  <1>2. local \in LocalStores({})
    <2>1. Anno!Snapshot(local) \in MarkStates({})
      BY <1>1 DEF Anno!Init, Anno!Snapshot, MarkStates, Anno!NoMark
    <2> QED
      BY <1>1, <2>1 DEF Anno!Init, LocalStores
  <1>3. versions \in Seq(MarkFiles({})) /\ versions # <<>> /\ Anno!Newest = 1
    BY <1>1 DEF Anno!Init, Anno!Newest
  <1> QED
    BY <1>1, <1>2, <1>3 DEF Anno!Init, AnnoInv, AnnoTypes, Anno!NoJob, Anno!Values

LEMMA AnnoOneFate == AnnoInv => Anno!OneFatePerMark
  <1> SUFFICES ASSUME AnnoInv, NEW m \in local.removed PROVE local.drafts[m] = "none"
    BY DEF Anno!OneFatePerMark
  <1> QED
    BY LocalFields DEF AnnoInv, AnnoTypes

-----------------------------------------------------------------------------
(* The person who waits.                                                    *)

\* Version v of the file has what is in the stores and was being saved.
HasStored(v) == \A m \in saving : /\ local.drafts[m] # "none" => versions[v][m] = local.drafts[m]
                                  /\ m \in local.removed => versions[v][m] = "none"

\* The batch that is out has what is in the stores and was being saved.
HasSent == \A m \in saving :
              /\ local.drafts[m] # "none" => annoJob.put[m] = local.drafts[m]
              /\ m \in local.removed => annoJob.put[m] = "none" /\ m \in annoJob.del

\* From the dispatch to the end of the reload the batch has what the stores hold of it, then
\* the version it has made, then the version that is being loaded; a person who has gone
\* finds it in the newest version.  A save or a reload that failed says nothing.
AnnoWaits ==
  /\ annoJob.st \in {"idle", "sent", "succeeded", "conflict", "failed"}
  /\ annoJob.st # "idle" => loads = {} /\ (open <=> annoJob.by = "panel")
  /\ annoJob.st \in {"conflict", "failed"} => annoJob.by = "panel"
  /\ annoJob.st = "sent" => HasSent
  /\ annoJob.st = "succeeded" => annoJob.made \in 1..Anno!Newest /\ HasStored(annoJob.made)
  /\ annoJob.st \in {"idle", "succeeded"} /\ ~open => HasStored(Anno!Newest)
  /\ \A v \in loads : HasStored(v)

LEMMA PatientIsNext == Anno!PatientNext => Anno!Next
  BY DEF Anno!PatientNext, Anno!Next, Anno!Gesture

\* What the stores hold of the batch stays, or there was none.
LEMMA StillStored ==
  ASSUME saving' = saving, versions' = versions, NEW v,
         saving = {} \/ Anno!SentStays \/ UNCHANGED local, HasStored(v)
  PROVE  HasStored(v)'
  BY DEF HasStored, Anno!SentStays

\* A version more does not change what the others have, and has what the newest had.
LEMMA StoredSince ==
  ASSUME AnnoTypes, UNCHANGED saving, saving = {} \/ UNCHANGED local,
         versions' = Append(versions, versions[Anno!Newest]),
         NEW v \in 1..Anno!Newest, HasStored(v)
  PROVE  /\ HasStored(v)' /\ v \in 1..Anno!Newest'
         /\ v = Anno!Newest => HasStored(Anno!Newest)'
  <1>1. /\ versions'[v] = versions[v] /\ v \in 1..Anno!Newest'
        /\ versions'[Anno!Newest'] = versions[Anno!Newest]
    BY DEF AnnoTypes, Anno!Newest
  <1> QED
    BY <1>1 DEF HasStored

LEMMA AnnoWaitsStep ==
  ASSUME AnnoInv, AnnoWaits, [Anno!PatientNext /\ Anno!Retries]_(Anno!vars)
  PROVE  AnnoWaits'
  <1>0. AnnoTypes /\ DOMAIN annoJob = {"st", "put", "del", "base", "by", "made"}
    BY DEF AnnoInv, AnnoTypes
  <1>1. ASSUME Anno!Gesture, Anno!Waiting => Anno!SentStays PROVE AnnoWaits'
    <2>1. (open \/ UNCHANGED local) /\ UNCHANGED <<saving, annoJob, open, loads, versions>>
      BY <1>1 DEF Anno!Gesture, Anno!EndEditing, Anno!ClearAll, Anno!Undo, Anno!Redo,
         Anno!Draw, Anno!Duplicate, Anno!EditText, Anno!Move, Anno!Delete, Anno!Type
    <2>2. CASE Anno!Waiting
      <3>1. Anno!SentStays /\ saving' = saving
        BY <1>1, <2>1, <2>2
      <3>2. HasSent => HasSent'
        BY <2>1, <3>1 DEF HasSent, Anno!SentStays
      <3>3. \A v : HasStored(v) => HasStored(v)'
        BY <2>1, <3>1, StillStored
      <3>4. annoJob.st = "succeeded"
              => annoJob'.made \in 1..Anno!Newest' /\ HasStored(annoJob.made)'
        BY <2>1, <3>3 DEF AnnoWaits, Anno!Newest
      <3>5. \A v \in loads' : HasStored(v)'
        BY <2>1, <3>3 DEF AnnoWaits
      <3>6. HasStored(Anno!Newest) => HasStored(Anno!Newest)'
        BY <2>1, <3>1 DEF HasStored, Anno!SentStays, Anno!Newest
      <3> QED
        BY <2>1, <3>2, <3>4, <3>5, <3>6 DEF AnnoWaits
    <2>3. CASE ~Anno!Waiting
      BY <2>1, <2>3 DEF AnnoWaits, Anno!Waiting, HasStored, Anno!Newest
    <2> QED
      BY <2>2, <2>3
  <1>2. ASSUME ~Anno!Waiting, Anno!Save \/ Anno!Leave PROVE AnnoWaits'
    <2>1. /\ loads' = {} /\ UNCHANGED <<local, saved, loads>> /\ annoJob'.st = "sent"
          /\ annoJob'.put = local.drafts
          /\ annoJob'.del = {m \in local.removed : saved[m] # "none"}
          /\ saving' = Anno!BatchIds(Anno!Batch(local))
          /\ open' <=> annoJob'.by = "panel"
      BY <1>2 DEF Anno!Save, Anno!Leave, Anno!Waiting, Anno!Dispatch, Anno!Batch
    <2>2. saving' = annoJob'.del \cup {m \in Marks : annoJob'.put[m] # "none"}
      BY <2>1 DEF Anno!BatchIds, Anno!Batch
    <2>3. local.removed \subseteq Marks
          /\ \A m \in Marks : local.drafts[m] # "none" => m \notin local.removed
      BY <1>0, LocalFields DEF AnnoInv, AnnoTypes
    <2>4. HasSent'
      BY <2>1, <2>2, <2>3 DEF HasSent
    <2> QED
      BY <2>1, <2>4 DEF AnnoWaits
  <1>3. ASSUME ~Anno!Waiting, Anno!Retries, Anno!SwitchAway PROVE AnnoWaits'
    <2>1. saving' = {} /\ loads' = {} /\ annoJob.st = "idle"
      BY <1>3 DEF Anno!Retries, Anno!SwitchAway, Anno!Waiting
    <2>2. annoJob' = [annoJob EXCEPT !.by = IF @ = "panel" THEN "nobody" ELSE @]
      BY <1>3 DEF Anno!SwitchAway
    <2>3. annoJob'.st = "idle"
      BY <1>0, <2>1, <2>2
    <2> QED
      BY <2>1, <2>3 DEF AnnoWaits, HasStored
  <1>4. ASSUME ~Anno!Waiting, Anno!Retries, Anno!OtherVersion(TRUE) PROVE AnnoWaits'
    <2>1. saving' = {} /\ annoJob' = annoJob /\ annoJob.st = "idle"
      BY <1>4 DEF Anno!Retries, Anno!OtherVersion, Anno!Waiting
    <2> QED
      BY <2>1 DEF AnnoWaits, HasStored
  <1>5. ASSUME ~Anno!Waiting, Anno!Retries, NEW v \in 1..MarkVersions, Anno!Open(v)
        PROVE  AnnoWaits'
    <2>1. /\ open' /\ loads' = {v} /\ annoJob.st = "idle" /\ ~open
          /\ UNCHANGED <<versions, local, saving, annoJob>>
          /\ saving = {} \/ v = Anno!Newest
      BY <1>5 DEF Anno!Retries, Anno!Open, Anno!Waiting
    <2>2. HasStored(v)
      BY <2>1 DEF AnnoWaits, HasStored
    <2>3. \A w \in loads' : HasStored(w)'
      BY <2>1, <2>2, StillStored
    <2> QED
      BY <2>1, <2>3 DEF AnnoWaits
  <1>6. CASE Anno!JobWorks
    <2> DEFINE f == [m \in Marks |-> IF annoJob.put[m] # "none" THEN annoJob.put[m]
                        ELSE IF m \in annoJob.del THEN "none" ELSE versions[Anno!Newest][m]]
    <2>1. /\ annoJob.st = "sent" /\ versions' = Append(versions, f)
          /\ annoJob' = [annoJob EXCEPT !.st = "succeeded", !.made = Anno!Newest + 1]
          /\ UNCHANGED <<saved, local, saving, loads, open>>
      BY <1>6 DEF Anno!JobWorks
    <2>2. /\ versions'[Anno!Newest + 1] = f /\ Anno!Newest + 1 \in 1..Anno!Newest'
          /\ Anno!Newest' = Anno!Newest + 1
      BY <1>0, <2>1 DEF AnnoTypes, Anno!Newest
    <2>3. ASSUME NEW m \in saving
          PROVE  /\ local.drafts[m] # "none" => f[m] = local.drafts[m]
                 /\ m \in local.removed => f[m] = "none"
      <3>1. /\ local.drafts[m] # "none" => annoJob.put[m] = local.drafts[m]
            /\ m \in local.removed => annoJob.put[m] = "none" /\ m \in annoJob.del
            /\ m \in Marks
        BY <1>0, <2>1 DEF AnnoWaits, HasSent, AnnoTypes
      <3> QED
        BY <3>1
    <2>4. annoJob'.st = "succeeded" /\ annoJob'.made = Anno!Newest + 1 /\ annoJob'.by = annoJob.by
      BY <1>0, <2>1
    <2>5. ASSUME NEW v, v = Anno!Newest + 1 PROVE HasStored(v)'
      BY <2>1, <2>2, <2>3, <2>5 DEF HasStored
    <2>6. HasStored(annoJob.made)' /\ HasStored(Anno!Newest)'
      BY <2>2, <2>4, <2>5 DEF HasStored
    <2>7. annoJob'.made \in 1..Anno!Newest' /\ loads' = {} /\ (open' <=> annoJob'.by = "panel")
      BY <2>1, <2>2, <2>4 DEF AnnoWaits
    <2> QED
      BY <2>4, <2>6, <2>7 DEF AnnoWaits
  <1>7. ASSUME annoJob.by = "panel", Anno!JobConflicts \/ Anno!JobFails PROVE AnnoWaits'
    <2>1. /\ annoJob' \in {[annoJob EXCEPT !.st = "conflict"], [annoJob EXCEPT !.st = "failed"]}
          /\ annoJob.st = "sent" /\ UNCHANGED <<loads, open>>
      BY <1>7 DEF Anno!JobConflicts, Anno!JobFails
    <2>2. annoJob'.st \in {"conflict", "failed"} /\ annoJob'.by = annoJob.by
      BY <1>0, <2>1
    <2> QED
      BY <1>7, <2>1, <2>2 DEF AnnoWaits
  <1>8. CASE Anno!SaveSucceeded
    <2>1. /\ annoJob.st = "succeeded" /\ annoJob'.st = "idle" /\ annoJob.by = "panel"
          /\ UNCHANGED <<versions, local, saving, open>>
      BY <1>8 DEF Anno!SaveSucceeded, Anno!NoJob
    <2>2. open /\ loads = {} /\ HasStored(annoJob.made)
      BY <2>1 DEF AnnoWaits
    <2>3. loads' = {annoJob.made}
      BY <1>8, <2>2 DEF Anno!SaveSucceeded, Anno!Ask
    <2>4. \A v \in loads' : HasStored(v)'
      BY <2>1, <2>2, <2>3, StillStored
    <2> QED
      BY <2>1, <2>2, <2>4 DEF AnnoWaits
  <1>9. CASE Anno!SaveConflicted
    BY <1>9 DEF Anno!SaveConflicted, Anno!NoJob, AnnoWaits, HasStored
  <1>10. CASE Anno!SaveFailed
    <2>1. annoJob.st = "failed" /\ annoJob'.st = "idle" /\ UNCHANGED <<loads, open>>
      BY <1>10 DEF Anno!SaveFailed, Anno!NoJob
    <2> QED
      BY <1>10, <2>1 DEF AnnoWaits, Anno!SaveFailed
  <1>11. CASE Anno!Unheard
    <2>1. /\ annoJob.st \in {"succeeded", "conflict", "failed"} /\ annoJob.by # "panel"
          /\ annoJob'.st = "idle" /\ UNCHANGED <<versions, local, saving, loads, open>>
      BY <1>11 DEF Anno!Unheard, Anno!NoJob
    <2>2. ~open /\ loads = {} /\ annoJob.st = "succeeded" /\ HasStored(Anno!Newest)
      BY <2>1 DEF AnnoWaits
    <2>3. HasStored(Anno!Newest)'
      BY <2>1, <2>2 DEF HasStored, Anno!Newest
    <2> QED
      BY <2>1, <2>2, <2>3 DEF AnnoWaits
  <1>12. ASSUME NEW v \in 1..MarkVersions, Anno!LoadAnswer(v) PROVE AnnoWaits'
    <2>1. annoJob.st = "idle" /\ UNCHANGED annoJob /\ saving' = {}
      BY <1>12 DEF Anno!LoadAnswer, AnnoWaits
    <2> QED
      BY <2>1 DEF AnnoWaits, HasStored
  <1>13. ASSUME NEW v \in 1..MarkVersions, Anno!LoadFails(v) PROVE AnnoWaits'
    <2>1. /\ v \in loads /\ loads' \subseteq loads
          /\ UNCHANGED <<versions, local, saving, annoJob, open>>
      BY <1>13 DEF Anno!LoadFails
    <2>2. annoJob.st = "idle" /\ \A w : HasStored(w) => HasStored(w)'
      BY <2>1, StillStored DEF AnnoWaits
    <2> QED
      BY <2>1, <2>2 DEF AnnoWaits, Anno!Newest
  <1>14. CASE Anno!OtherVersion(FALSE)
    <2>1. /\ versions' = Append(versions, versions[Anno!Newest])
          /\ UNCHANGED <<loads, local, saving, annoJob, open>>
      BY <1>14 DEF Anno!OtherVersion
    <2>2. /\ \A v \in 1..Anno!Newest : HasStored(v) => v \in 1..Anno!Newest' /\ HasStored(v)'
          /\ Anno!Newest \in 1..Anno!Newest
      BY <1>0, <2>1, StoredSince DEF AnnoTypes, Anno!Newest
    <2>3. HasStored(Anno!Newest) => HasStored(Anno!Newest)'
      BY <1>0, <2>1, <2>2, StoredSince
    <2>4. HasSent => HasSent'
      BY <2>1 DEF HasSent
    <2>5. annoJob.st = "succeeded"
              => annoJob'.made \in 1..Anno!Newest' /\ HasStored(annoJob.made)'
      BY <2>1, <2>2 DEF AnnoWaits
    <2>6. \A v \in loads' : HasStored(v)'
      BY <1>0, <2>1, <2>2 DEF AnnoWaits, AnnoTypes
    <2> QED
      BY <2>1, <2>3, <2>4, <2>5, <2>6 DEF AnnoWaits, HasStored
  <1>15. CASE UNCHANGED Anno!vars
    BY <1>15 DEF Anno!vars, AnnoWaits, HasStored, HasSent, Anno!Newest
  <1> QED
    BY <1>1, <1>2, <1>3, <1>4, <1>5, <1>6, <1>7, <1>8, <1>9, <1>10, <1>11, <1>12, <1>13,
       <1>14, <1>15 DEF Anno!PatientNext

\* What the person drew, changed or deleted is in the file before a reload takes it from
\* the stores.
LEMMA AnnoKeeps == ASSUME AnnoInv, AnnoWaits PROVE Anno!Kept
  <1> SUFFICES ASSUME AnnoInv, AnnoWaits, NEW v \in 1..MarkVersions, Anno!LoadAnswer(v),
                      NEW m \in Marks
               PROVE  /\ (local.drafts[m] # "none" /\ local'.drafts[m] = "none")
                            => versions[v][m] = local.drafts[m]
                      /\ (m \in local.removed /\ m \notin local'.removed)
                            => versions[v][m] = "none"
    BY DEF Anno!Kept
  <1>1. /\ local'.drafts = [n \in Marks |-> IF n \in saving THEN "none" ELSE local.drafts[n]]
        /\ local'.removed = local.removed \ saving /\ v \in loads
    BY LocalFields DEF AnnoInv, Anno!LoadAnswer
  <1>2. HasStored(v)
    BY <1>1 DEF AnnoWaits
  <1> QED
    BY <1>1, <1>2 DEF HasStored

-----------------------------------------------------------------------------
(* The depth of the history.                                                *)

DepthFits(l) == Len(l.past) + Len(l.future) <= Limit

LEMMA StackLengths ==
  ASSUME NEW B, NEW l \in LocalStores(B)
  PROVE  /\ Len(l.past) \in Nat /\ Len(l.future) \in Nat
         /\ l.past = <<>> <=> Len(l.past) = 0
         /\ l.future = <<>> <=> Len(l.future) = 0
  <1>1. l.past \in Seq(MarkStates(B)) /\ l.future \in Seq(MarkStates(B))
    BY LocalFields
  <1> QED
    BY <1>1

LEMMA RememberFits ==
  ASSUME Anno!Assumptions, NEW B, NEW l \in LocalStores(B), DepthFits(l)
  PROVE  DepthFits(Anno!Remember(l)) /\ Anno!Remember(l).past # <<>>
         /\ Anno!Remember(l).future = <<>>
  <1> DEFINE longer == Append(l.past, Anno!Snapshot(l))
             p == IF Len(longer) > Limit THEN Tail(longer) ELSE longer
  <1>1. longer \in Seq(MarkStates(B)) /\ Len(longer) = Len(l.past) + 1 /\ Len(l.past) \in Nat
        /\ Len(l.future) \in Nat /\ Limit \in Nat \ {0}
    BY LocalFields DEF Anno!Assumptions
  <1>2. Len(longer) > Limit
           => Len(Tail(longer)) = Len(longer) - 1 /\ Tail(longer) \in Seq(MarkStates(B))
    BY <1>1
  <1>3. p \in Seq(MarkStates(B)) /\ Len(p) <= Limit /\ Len(p) >= 1
    <2>1. CASE Len(longer) > Limit
      <3>1. p = Tail(longer) /\ Len(p) = Len(longer) - 1 /\ p \in Seq(MarkStates(B))
        BY <1>2, <2>1
      <3>2. Len(l.past) <= Limit
        <4>1. PICK a \in Nat, b \in Nat, c \in Nat :
                 a = Len(l.past) /\ b = Len(l.future) /\ c = Limit
          BY <1>1
        <4>2. a + b <= c
          BY <4>1 DEF DepthFits
        <4>3. a <= c
          BY ONLY <4>2, a \in Nat, b \in Nat, c \in Nat
        <4> QED
          BY ONLY <4>1, <4>3
      <3> HIDE DEF p, longer
      <3> QED
        BY ONLY <1>1, <2>1, <3>1, <3>2
    <2>2. CASE ~(Len(longer) > Limit)
      <3>1. p = longer
        BY <2>2
      <3> HIDE DEF p, longer
      <3> QED
        BY ONLY <1>1, <2>2, <3>1
    <2> QED
      BY <2>1, <2>2
  <1>4. Anno!Remember(l) = [l EXCEPT !.past = p, !.future = <<>>]
    BY DEF Anno!Remember
  <1> HIDE DEF p, longer
  <1>5. Anno!Remember(l).past = p /\ Anno!Remember(l).future = <<>>
    BY <1>4, LocalFields
  <1>6. Len(p) \in Nat /\ p # <<>> /\ Len(<<>>) = 0
    BY <1>3
  <1> QED
    BY ONLY <1>1, <1>3, <1>5, <1>6 DEF DepthFits

\* Every operation that changes something remembers what was.
LEMMA ChangeFits ==
  ASSUME Anno!Assumptions, NEW B, NEW l \in LocalStores(B), DepthFits(l)
  PROVE  /\ \A m, v : DepthFits(Anno!Add(l, m, v))
         /\ \A m, v : DepthFits(Anno!Update(l, m, v))
         /\ \A m : DepthFits(Anno!Remove(l, m))
         /\ DepthFits(Anno!RemoveAll(l))
  <1> DEFINE k == Anno!Remember(l)
  <1>1. k \in LocalStores(B) /\ DepthFits(k)
    BY MarksRemembered, RememberFits
  <1> HIDE DEF k
  <1>2. \A d, x : [k EXCEPT !.drafts = d, !.removed = x].past = k.past
               /\ [k EXCEPT !.drafts = d, !.removed = x].future = k.future
    BY <1>1, LocalFields
  <1>3. \A m, v : [k EXCEPT !.drafts[m] = v].past = k.past
                   /\ [k EXCEPT !.drafts[m] = v].future = k.future
    BY <1>1, LocalFields
  <1>4. \A m, v : DepthFits([k EXCEPT !.drafts[m] = v])
    BY <1>1, <1>3 DEF DepthFits
  <1>5. \A m : /\ [k EXCEPT !.removed = @ \union {m}, !.drafts[m] = "none"].past = k.past
               /\ [k EXCEPT !.removed = @ \union {m}, !.drafts[m] = "none"].future = k.future
    BY <1>1, LocalFields
  <1>6. \A x : /\ [k EXCEPT !.removed = @ \union x, !.drafts = Anno!NoMark].past = k.past
               /\ [k EXCEPT !.removed = @ \union x, !.drafts = Anno!NoMark].future = k.future
    BY <1>1, LocalFields
  <1>7. \A m, v : DepthFits(Anno!Add(l, m, v))
    BY <1>4 DEF Anno!Add, k
  <1>8. \A m, v : DepthFits(Anno!Update(l, m, v))
    BY <1>4 DEF Anno!Update, k
  <1>9. \A m : DepthFits(Anno!Remove(l, m))
    BY <1>1, <1>5 DEF Anno!Remove, DepthFits, k
  <1>10. DepthFits(Anno!RemoveAll(l))
    BY <1>1, <1>6 DEF Anno!RemoveAll, DepthFits, k
  <1> QED
    BY <1>7, <1>8, <1>9, <1>10

LEMMA ClosedFits ==
  ASSUME Anno!Assumptions, AnnoTypes, NEW l \in LocalStores(born), DepthFits(l)
  PROVE  DepthFits(Anno!Committed(l))
  <1>1. CASE editing = None
    BY <1>1 DEF Anno!Committed
  <1>2. CASE editing # None
    <2> DEFINE kept == Anno!Update(l, editing, annoTyped)
    <2>1. editing \in Marks /\ annoTyped \in Anno!Values /\ saved \in MarkFiles(born)
      BY <1>2 DEF AnnoTypes
    <2>2. kept \in LocalStores(born) /\ DepthFits(kept)
      BY <2>1, MarkUpdated, ChangeFits
    <2> HIDE DEF kept
    <2>3. DepthFits(Anno!Remove(kept, editing))
      BY <2>2, ChangeFits
    <2> QED
      BY <1>2, <2>2, <2>3 DEF Anno!Committed, kept
  <1> QED
    BY <1>1, <1>2

-----------------------------------------------------------------------------
(* The line of states that undo and redo walk along.                        *)

\* Place i of the line of p, x and f backwards.
LineAt(p, x, f, i) == IF i <= Len(p) THEN p[i]
                      ELSE IF i = Len(p) + 1 THEN x ELSE f[Len(p) + Len(f) + 2 - i]
Line(p, x, f) == [i \in 1..(Len(p) + Len(f) + 1) |-> LineAt(p, x, f, i)]

LEMMA LineIs ==
  ASSUME NEW S, NEW p \in Seq(S), NEW f \in Seq(S), NEW x \in S
  PROVE  p \o <<x>> \o [i \in 1..Len(f) |-> f[Len(f) + 1 - i]] = Line(p, x, f)
  <1> DEFINE r == [i \in 1..Len(f) |-> f[Len(f) + 1 - i]]
  <1>0. PICK n \in Nat, k \in Nat : n = Len(p) /\ k = Len(f)
    OBVIOUS
  <1>1. r \in Seq(S) /\ Len(r) = k /\ \A i \in 1..k : r[i] = f[k + 1 - i]
    <2>1. \A i \in 1..k : f[k + 1 - i] \in S
      <3>1. \A i \in 1..k : k + 1 - i \in 1..k
        BY ONLY <1>0
      <3> QED
        BY <1>0, <3>1
    <2> QED
      BY <1>0, <2>1
  <1> HIDE DEF r
  <1>2. /\ p \o <<x>> \in Seq(S) /\ Len(p \o <<x>>) = n + 1
        /\ \A i \in 1..n : (p \o <<x>>)[i] = p[i]
        /\ (p \o <<x>>)[n + 1] = x
    BY <1>0
  <1> DEFINE q == p \o <<x>>
  <1> HIDE DEF q
  <1>3. q \in Seq(S) /\ Len(q) = n + 1 /\ (\A i \in 1..n : q[i] = p[i]) /\ q[n + 1] = x
    BY <1>2 DEF q
  <1>4. /\ q \o r \in Seq(S) /\ Len(q \o r) = n + 1 + k
        /\ \A i \in 1..(n + 1) : (q \o r)[i] = q[i]
        /\ \A i \in 1..k : (q \o r)[n + 1 + i] = r[i]
    <2>1. /\ q \o r \in Seq(S) /\ Len(q \o r) = Len(q) + Len(r)
          /\ \A i \in 1..Len(q) + Len(r) :
                (q \o r)[i] = IF i <= Len(q) THEN q[i] ELSE r[i - Len(q)]
      BY ONLY <1>1, <1>3, ConcatProperties
    <2> DEFINE w == q \o r
    <2> HIDE DEF w
    <2>2. /\ w \in Seq(S) /\ Len(w) = n + 1 + k
          /\ \A i \in 1..(n + 1 + k) : w[i] = IF i <= n + 1 THEN q[i] ELSE r[i - (n + 1)]
      BY <1>1, <1>3, <2>1 DEF w
    <2>3. \A i \in 1..(n + 1) : w[i] = q[i]
      BY ONLY <1>0, <2>2
    <2>4. \A i \in 1..k : w[n + 1 + i] = r[i]
      BY ONLY <1>0, <2>2
    <2> QED
      BY ONLY <2>2, <2>3, <2>4 DEF w
  <1>5. q \o r = [i \in 1..(n + k + 1) |-> (q \o r)[i]]
    <2> DEFINE w == q \o r
    <2>1. w \in Seq(S) /\ Len(w) = n + 1 + k /\ n + 1 + k = n + k + 1
      BY <1>0, <1>4
    <2> HIDE DEF w
    <2>2. w = [i \in 1..(n + k + 1) |-> w[i]]
      BY <2>1
    <2> QED
      BY <2>2 DEF w
  <1>6. ASSUME NEW i \in 1..(n + k + 1) PROVE (q \o r)[i] = LineAt(p, x, f, i)
    <2>1. CASE i <= n
      <3>1. i \in 1..n /\ i \in 1..(n + 1)
        BY <1>0, <2>1
      <3> QED
        BY <1>0, <1>3, <1>4, <2>1, <3>1 DEF LineAt
    <2>2. CASE i = n + 1
      BY <1>0, <1>3, <1>4, <2>2 DEF LineAt
    <2>3. CASE i > n + 1
      <3>1. i - (n + 1) \in 1..k /\ n + 1 + (i - (n + 1)) = i
            /\ k + 1 - (i - (n + 1)) = n + k + 2 - i
            /\ ~(i <= n) /\ i # n + 1
        BY <1>0, <2>3
      <3>2. (q \o r)[n + 1 + (i - (n + 1))] = r[i - (n + 1)]
        BY ONLY <1>4, <3>1
      <3>3. r[i - (n + 1)] = f[k + 1 - (i - (n + 1))]
        BY ONLY <1>1, <3>1
      <3> QED
        BY ONLY <1>0, <3>1, <3>2, <3>3 DEF LineAt
    <2>4. i <= n \/ i = n + 1 \/ i > n + 1
      BY <1>0
    <2> QED
      BY <2>1, <2>2, <2>3, <2>4
  <1>7. Line(p, x, f) = [i \in 1..(n + k + 1) |-> LineAt(p, x, f, i)]
    BY <1>0 DEF Line
  <1> QED
    BY ONLY <1>5, <1>6, <1>7 DEF q, r

\* A step along it, either way.
LEMMA LineStep ==
  ASSUME NEW S, NEW p \in Seq(S), NEW f \in Seq(S), NEW x \in S, NEW y \in S
  PROVE  Line(Append(p, y), x, f) = Line(p, y, Append(f, x))
  <1>0. PICK n \in Nat, k \in Nat : n = Len(p) /\ k = Len(f)
    OBVIOUS
  <1>1. /\ Len(Append(p, y)) = n + 1 /\ Append(p, y)[n + 1] = y
        /\ \A i \in 1..n : Append(p, y)[i] = p[i]
    BY <1>0
  <1>2. /\ Len(Append(f, x)) = k + 1 /\ Append(f, x)[k + 1] = x
        /\ \A i \in 1..k : Append(f, x)[i] = f[i]
    BY <1>0
  <1>3. ASSUME NEW i \in 1..(n + k + 2)
        PROVE  LineAt(Append(p, y), x, f, i) = LineAt(p, y, Append(f, x), i)
    <2> DEFINE P == Append(p, y)
               F == Append(f, x)
    <2> HIDE DEF P, F
    <2>1. /\ Len(P) = n + 1 /\ P[n + 1] = y /\ \A j \in 1..n : P[j] = p[j]
          /\ Len(F) = k + 1 /\ F[k + 1] = x /\ \A j \in 1..k : F[j] = f[j]
      BY <1>1, <1>2 DEF P, F
    <2>2. CASE i <= n
      BY <1>0, <2>1, <2>2 DEF LineAt
    <2>3. CASE i = n + 1
      BY <1>0, <2>1, <2>3 DEF LineAt
    <2>4. CASE i = n + 2
      <3>1. n + (k + 1) + 2 - i = k + 1 /\ ~(i <= n + 1) /\ i = n + 1 + 1 /\ ~(i <= n) /\ i # n + 1
        BY <1>0, <2>4
      <3> QED
        BY ONLY <1>0, <2>1, <3>1 DEF LineAt, P, F
    <2>5. CASE i > n + 2
      <3>1. /\ n + (k + 1) + 2 - i = n + 1 + k + 2 - i /\ n + 1 + k + 2 - i \in 1..k
            /\ ~(i <= n + 1) /\ i # n + 1 + 1 /\ ~(i <= n) /\ i # n + 1
        BY <1>0, <2>5
      <3>2. F[n + 1 + k + 2 - i] = f[n + 1 + k + 2 - i]
        BY ONLY <2>1, <3>1
      <3> QED
        BY ONLY <1>0, <2>1, <3>1, <3>2 DEF LineAt, P, F
    <2> QED
      BY <1>0, <2>2, <2>3, <2>4, <2>5
  <1>4. Line(Append(p, y), x, f) = [i \in 1..(n + k + 2) |-> LineAt(Append(p, y), x, f, i)]
    <2>1. Len(Append(p, y)) + Len(f) + 1 = n + k + 2
      BY ONLY <1>0, <1>1
    <2> QED
      BY <2>1 DEF Line
  <1>5. Line(p, y, Append(f, x)) = [i \in 1..(n + k + 2) |-> LineAt(p, y, Append(f, x), i)]
    <2>1. Len(p) + Len(Append(f, x)) + 1 = n + k + 2
      BY ONLY <1>0, <1>2
    <2> QED
      BY <2>1 DEF Line
  <1> QED
    BY ONLY <1>3, <1>4, <1>5

LEMMA TimelineIs ==
  ASSUME NEW B, NEW l \in LocalStores(B)
  PROVE  Anno!Timeline(l) = Line(l.past, Anno!Snapshot(l), l.future)
  <1>1. l.past \in Seq(MarkStates(B)) /\ l.future \in Seq(MarkStates(B))
        /\ Anno!Snapshot(l) \in MarkStates(B)
    BY LocalFields
  <1> QED
    BY ONLY <1>1, LineIs DEF Anno!Timeline

\* The last state and those before it.
LEMMA LastOff ==
  ASSUME NEW S, NEW q \in Seq(S), q # <<>>
  PROVE  /\ q[Len(q)] \in S /\ SubSeq(q, 1, Len(q) - 1) \in Seq(S)
         /\ q = Append(SubSeq(q, 1, Len(q) - 1), q[Len(q)])
         /\ Len(SubSeq(q, 1, Len(q) - 1)) = Len(q) - 1
  <1>1. PICK n \in Nat : n = Len(q) /\ n >= 1
    OBVIOUS
  <1>2. q[n] \in S /\ SubSeq(q, 1, n - 1) \in Seq(S) /\ Len(SubSeq(q, 1, n - 1)) = n - 1
        /\ \A i \in 1..(n - 1) : SubSeq(q, 1, n - 1)[i] = q[i]
    BY <1>1
  <1> DEFINE h == SubSeq(q, 1, n - 1)
  <1>3. h \in Seq(S) /\ Len(h) = n - 1 /\ \A i \in 1..(n - 1) : h[i] = q[i]
    BY <1>2
  <1> HIDE DEF h
  <1>4. Append(h, q[n]) \in Seq(S) /\ Len(Append(h, q[n])) = n
        /\ \A i \in 1..n : Append(h, q[n])[i] = q[i]
    BY <1>1, <1>2, <1>3
  <1>5. Append(h, q[n]) = q
    BY <1>1, <1>4
  <1> QED
    BY <1>1, <1>2, <1>5 DEF h

LEMMA UndoneWalks ==
  ASSUME NEW B, NEW l \in LocalStores(B), l.past # <<>>
  PROVE  Anno!Timeline(Anno!Undone(l)) = Anno!Timeline(l)
         /\ (DepthFits(l) => DepthFits(Anno!Undone(l)))
  <1> DEFINE s == l.past[Len(l.past)]
             p == SubSeq(l.past, 1, Len(l.past) - 1)
             f == Append(l.future, Anno!Snapshot(l))
             k == [Anno!Restored(l, s) EXCEPT !.past = p, !.future = f]
  <1>1. /\ l.past \in Seq(MarkStates(B)) /\ l.future \in Seq(MarkStates(B))
        /\ Anno!Snapshot(l) \in MarkStates(B)
    BY LocalFields
  <1>2. s \in MarkStates(B) /\ p \in Seq(MarkStates(B)) /\ l.past = Append(p, s)
        /\ Len(p) = Len(l.past) - 1
    BY <1>1, LastOff
  <1>3. Anno!Restored(l, s).future = l.future
    BY LocalFields DEF Anno!Restored
  <1>4. Anno!Undone(l) = k
    BY <1>3, LocalFields DEF Anno!Undone, Anno!Restored
  <1>5. Anno!Undone(l) \in LocalStores(B)
    BY MarksUndone
  <1> HIDE DEF s, p
  <1>b. k = [Anno!Restored(l, s) EXCEPT !.past = p, !.future = f]
    OBVIOUS
  <1> HIDE DEF k, p, f
  <1>6. k.past = p /\ k.future = f /\ Anno!Snapshot(k) = s
    <2>1. DOMAIN l = {"drafts", "removed", "past", "future"}
      BY LocalFields
    <2>2. k.past = p /\ k.future = f /\ k.drafts = s.drafts /\ k.removed = s.removed
      BY ONLY <1>b, <2>1 DEF Anno!Restored
    <2>3. s = [drafts |-> s.drafts, removed |-> s.removed]
      BY <1>2 DEF MarkStates
    <2> QED
      BY <2>2, <2>3 DEF Anno!Snapshot
  <1> USE DEF f
  <1>7. Anno!Timeline(Anno!Undone(l)) = Line(p, s, f)
    <2>1. Anno!Timeline(Anno!Undone(l))
             = Line(Anno!Undone(l).past, Anno!Snapshot(Anno!Undone(l)), Anno!Undone(l).future)
      BY <1>5, TimelineIs
    <2> QED
      BY ONLY <1>4, <1>6, <2>1
  <1>8. Anno!Timeline(l) = Line(Append(p, s), Anno!Snapshot(l), l.future)
    BY <1>2, TimelineIs
  <1>9. Line(Append(p, s), Anno!Snapshot(l), l.future)
           = Line(p, s, Append(l.future, Anno!Snapshot(l)))
    BY ONLY <1>1, <1>2, LineStep
  <1>10. DepthFits(l) => DepthFits(Anno!Undone(l))
    <2>1. Len(f) = Len(l.future) + 1 /\ Len(l.future) \in Nat /\ Len(l.past) \in Nat
      BY <1>1
    <2>2. Anno!Undone(l).past = p /\ Anno!Undone(l).future = f
      BY ONLY <1>4, <1>6
    <2>3. PICK a \in Nat, b \in Nat : a = Len(l.past) /\ b = Len(l.future)
      BY <2>1
    <2>4. Len(p) = a - 1 /\ Len(f) = b + 1
      BY <1>2, <2>1, <2>3
    <2>5. (a - 1) + (b + 1) = a + b /\ (b + 1) + (a - 1) = b + a
      BY ONLY a \in Nat, b \in Nat
    <2> QED
      BY ONLY <2>2, <2>3, <2>4, <2>5 DEF DepthFits
  <1> QED
    BY <1>7, <1>8, <1>9, <1>10

LEMMA RedoneWalks ==
  ASSUME NEW B, NEW l \in LocalStores(B), l.future # <<>>
  PROVE  Anno!Timeline(Anno!Redone(l)) = Anno!Timeline(l)
         /\ (DepthFits(l) => DepthFits(Anno!Redone(l)))
  <1> DEFINE s == l.future[Len(l.future)]
             p == Append(l.past, Anno!Snapshot(l))
             f == SubSeq(l.future, 1, Len(l.future) - 1)
             k == [Anno!Restored(l, s) EXCEPT !.past = p, !.future = f]
  <1>1. /\ l.past \in Seq(MarkStates(B)) /\ l.future \in Seq(MarkStates(B))
        /\ Anno!Snapshot(l) \in MarkStates(B)
    BY LocalFields
  <1>2. s \in MarkStates(B) /\ f \in Seq(MarkStates(B)) /\ l.future = Append(f, s)
        /\ Len(f) = Len(l.future) - 1
    BY <1>1, LastOff
  <1>3. Anno!Restored(l, s).past = l.past
    BY LocalFields DEF Anno!Restored
  <1>4. Anno!Redone(l) = k
    BY <1>3, LocalFields DEF Anno!Redone, Anno!Restored
  <1>5. Anno!Redone(l) \in LocalStores(B)
    BY MarksRedone
  <1> HIDE DEF s, f
  <1>b. k = [Anno!Restored(l, s) EXCEPT !.past = p, !.future = f]
    OBVIOUS
  <1> HIDE DEF k, p, f
  <1>6. k.past = p /\ k.future = f /\ Anno!Snapshot(k) = s
    <2>1. DOMAIN l = {"drafts", "removed", "past", "future"}
      BY LocalFields
    <2>2. k.past = p /\ k.future = f /\ k.drafts = s.drafts /\ k.removed = s.removed
      BY ONLY <1>b, <2>1 DEF Anno!Restored
    <2>3. s = [drafts |-> s.drafts, removed |-> s.removed]
      BY <1>2 DEF MarkStates
    <2> QED
      BY <2>2, <2>3 DEF Anno!Snapshot
  <1> USE DEF p
  <1>7. Anno!Timeline(Anno!Redone(l)) = Line(p, s, f)
    <2>1. Anno!Timeline(Anno!Redone(l))
             = Line(Anno!Redone(l).past, Anno!Snapshot(Anno!Redone(l)), Anno!Redone(l).future)
      BY <1>5, TimelineIs
    <2> QED
      BY ONLY <1>4, <1>6, <2>1
  <1>8. Anno!Timeline(l) = Line(l.past, Anno!Snapshot(l), Append(f, s))
    BY <1>2, TimelineIs
  <1>9. Line(Append(l.past, Anno!Snapshot(l)), s, f) = Line(l.past, Anno!Snapshot(l), Append(f, s))
    BY ONLY <1>1, <1>2, LineStep
  <1>10. DepthFits(l) => DepthFits(Anno!Redone(l))
    <2>1. Len(p) = Len(l.past) + 1 /\ Len(l.future) \in Nat /\ Len(l.past) \in Nat
      BY <1>1
    <2>2. Anno!Redone(l).past = p /\ Anno!Redone(l).future = f
      BY ONLY <1>4, <1>6
    <2>3. PICK a \in Nat, b \in Nat : a = Len(l.future) /\ b = Len(l.past)
      BY <2>1
    <2>4. Len(f) = a - 1 /\ Len(p) = b + 1
      BY <1>2, <2>1, <2>3
    <2>5. (a - 1) + (b + 1) = a + b /\ (b + 1) + (a - 1) = b + a
      BY ONLY a \in Nat, b \in Nat
    <2> QED
      BY ONLY <2>2, <2>3, <2>4, <2>5 DEF DepthFits
  <1> QED
    BY <1>7, <1>8, <1>9, <1>10

LEMMA AnnoWalks == ASSUME AnnoInv PROVE Anno!Walked
  <1>1. Anno!Committed(local) \in LocalStores(born)
    BY TypingClosed DEF AnnoInv
  <1> QED
    BY <1>1, UndoneWalks, RedoneWalks DEF Anno!Walked, Anno!Undo, Anno!Redo

AnnoSized == /\ DepthFits(local) /\ Anno!Newest <= MarkVersions
             /\ annoJob.st \in {"idle", "sent", "succeeded", "conflict", "failed"}
             /\ annoJob.by \in {"panel", "guard", "nobody"}
             /\ open \in BOOLEAN /\ annoBusy \in BOOLEAN

LEMMA AnnoSizedInit == Anno!Assumptions /\ Anno!Init => AnnoSized
  <1> SUFFICES ASSUME Anno!Assumptions, Anno!Init PROVE AnnoSized
    OBVIOUS
  <1>1. Len(local.past) = 0 /\ Len(local.future) = 0 /\ Anno!Newest = 1
    BY DEF Anno!Init, Anno!Newest
  <1>2. Limit \in Nat /\ MarkVersions \in Nat \ {0}
    BY DEF Anno!Assumptions
  <1>3. DepthFits(local) /\ Anno!Newest <= MarkVersions
    BY ONLY <1>1, <1>2 DEF DepthFits
  <1> QED
    BY <1>3 DEF Anno!Init, AnnoSized, Anno!NoJob

LEMMA AnnoSizedStep == ASSUME Anno!Assumptions, AnnoInv, AnnoSized, Anno!Next PROVE AnnoSized'
  <1>0. /\ AnnoTypes /\ local \in LocalStores(born) /\ Anno!Committed(local) \in LocalStores(born)
        /\ DepthFits(local) /\ DepthFits(Anno!Committed(local))
        /\ DOMAIN annoJob = {"st", "put", "del", "base", "by", "made"}
        /\ Anno!NoJob.st = "idle" /\ Anno!NoJob.by = "panel"
    BY TypingClosed, ClosedFits DEF AnnoInv, AnnoTypes, AnnoSized, Anno!NoJob
  \* The gestures: what they leave is deep enough.
  <1>g. ASSUME DepthFits(local'), UNCHANGED <<versions, annoJob, open, annoBusy>> PROVE AnnoSized'
    BY <1>g DEF AnnoSized, Anno!Newest
  \* The steps that leave the stores alone.
  <1>j. ASSUME UNCHANGED <<local, versions>>,
               annoJob'.st \in {"idle", "sent", "succeeded", "conflict", "failed"},
               annoJob'.by \in {"panel", "guard", "nobody"}, open' \in BOOLEAN,
               annoBusy' \in BOOLEAN
        PROVE  AnnoSized'
    BY <1>j DEF AnnoSized, Anno!Newest, DepthFits
  <1>1. CASE Anno!EndEditing
    BY <1>0, <1>1, <1>g DEF Anno!EndEditing
  <1>2. CASE Anno!Undo
    BY <1>0, <1>2, <1>g, UndoneWalks DEF Anno!Undo
  <1>3. CASE Anno!Redo
    BY <1>0, <1>3, <1>g, RedoneWalks DEF Anno!Redo
  <1>4. CASE Anno!ClearAll
    BY <1>0, <1>4, <1>g, ChangeFits DEF Anno!ClearAll
  <1>5. ASSUME NEW m \in Marks, NEW v \in {"blank", "ink"}, Anno!Draw(m, v) PROVE AnnoSized'
    BY <1>0, <1>5, <1>g, ChangeFits DEF Anno!Draw
  <1>6. ASSUME NEW m \in Marks, NEW copy \in Marks, Anno!Duplicate(m, copy) PROVE AnnoSized'
    BY <1>0, <1>6, <1>g, ChangeFits DEF Anno!Duplicate
  <1>7. ASSUME NEW m \in Marks, Anno!EditText(m) PROVE AnnoSized'
    BY <1>0, <1>7, <1>g DEF Anno!EditText
  <1>8. ASSUME NEW m \in Marks, Anno!Move(m) PROVE AnnoSized'
    BY <1>0, <1>8, <1>g, ChangeFits DEF Anno!Move
  <1>9. ASSUME NEW m \in Marks, Anno!Delete(m) PROVE AnnoSized'
    BY <1>0, <1>9, <1>g, ChangeFits DEF Anno!Delete
  <1>10. ASSUME NEW v \in {"blank", "text"}, Anno!Type(v) PROVE AnnoSized'
    BY <1>0, <1>10, <1>g DEF Anno!Type, DepthFits
  <1>11. CASE Anno!SwitchAway
    <2>1. annoJob'.st = annoJob.st /\ annoJob'.by \in {annoJob.by, "nobody"}
      BY <1>0, <1>11 DEF Anno!SwitchAway
    <2> QED
      BY <1>0, <1>11, <2>1 DEF Anno!SwitchAway, AnnoSized, Anno!Newest
  <1>12. CASE Anno!Save
    <2>1. annoJob'.st = "sent" /\ annoJob'.by = "panel" /\ UNCHANGED <<local, versions, open>>
          /\ annoBusy' = TRUE
      BY <1>12 DEF Anno!Save, Anno!Dispatch
    <2> QED
      BY <2>1, <1>j DEF AnnoSized
  <1>13. CASE Anno!Leave
    <2>1. annoJob'.st = "sent" /\ annoJob'.by = "guard" /\ UNCHANGED <<local, versions>>
          /\ open' = FALSE /\ annoBusy' = FALSE
      BY <1>13 DEF Anno!Leave, Anno!Dispatch
    <2> QED
      BY <2>1, <1>j DEF AnnoSized
  <1>v. ASSUME NEW f, versions' = Append(versions, f), Anno!Newest < MarkVersions
        PROVE  Anno!Newest' <= MarkVersions
    <2>1. PICK n \in Nat : n = Len(versions) /\ Len(versions') = n + 1
      BY <1>0, <1>v DEF AnnoTypes
    <2>2. PICK k \in Nat : k = MarkVersions
      BY DEF Anno!Assumptions
    <2>3. n < k => n + 1 <= k
      BY ONLY n \in Nat, k \in Nat
    <2> QED
      BY <1>v, <2>1, <2>2, <2>3 DEF Anno!Newest
  <1>14. CASE Anno!JobWorks
    <2>1. Anno!Newest' <= MarkVersions
      BY <1>14, <1>v DEF Anno!JobWorks
    <2>2. annoJob'.st = "succeeded" /\ annoJob'.by = annoJob.by /\ UNCHANGED <<local, open,
                                                                               annoBusy>>
      BY <1>0, <1>14 DEF Anno!JobWorks
    <2> QED
      BY <2>1, <2>2 DEF AnnoSized, DepthFits
  <1>15. CASE Anno!JobConflicts \/ Anno!JobFails
    <2>1. annoJob'.st \in {"conflict", "failed"} /\ annoJob'.by = annoJob.by
          /\ UNCHANGED <<local, versions, open, annoBusy>>
      BY <1>0, <1>15 DEF Anno!JobConflicts, Anno!JobFails
    <2> QED
      BY <2>1, <1>j DEF AnnoSized
  <1>16. CASE Anno!SaveSucceeded \/ Anno!SaveConflicted \/ Anno!SaveFailed \/ Anno!Unheard
    <2>1. annoJob' = Anno!NoJob /\ UNCHANGED <<local, versions, open>>
          /\ annoBusy' \in {FALSE, annoBusy}
      BY <1>16 DEF Anno!SaveSucceeded, Anno!SaveConflicted, Anno!SaveFailed, Anno!Unheard
    <2> QED
      BY <1>0, <2>1, <1>j DEF AnnoSized
  <1>17. ASSUME NEW v \in 1..MarkVersions, Anno!LoadAnswer(v) PROVE AnnoSized'
    <2>1. local'.past = local.past /\ local'.future = local.future
      BY <1>0, <1>17, LocalFields DEF Anno!LoadAnswer
    <2> QED
      BY <1>0, <1>17, <2>1 DEF Anno!LoadAnswer, AnnoSized, DepthFits, Anno!Newest
  <1>18. ASSUME NEW v \in 1..MarkVersions, Anno!LoadFails(v) PROVE AnnoSized'
    BY <1>18, <1>j DEF Anno!LoadFails, AnnoSized
  <1>19. ASSUME NEW v \in 1..MarkVersions, Anno!Open(v) PROVE AnnoSized'
    BY <1>19, <1>j DEF Anno!Open, AnnoSized
  <1>20. ASSUME NEW here \in BOOLEAN, Anno!OtherVersion(here) PROVE AnnoSized'
    <2>1. Anno!Newest' <= MarkVersions
      BY <1>20, <1>v DEF Anno!OtherVersion
    <2> QED
      BY <1>20, <2>1 DEF Anno!OtherVersion, AnnoSized, DepthFits
  <1> QED
    BY <1>1, <1>2, <1>3, <1>4, <1>5, <1>6, <1>7, <1>8, <1>9, <1>10, <1>11, <1>12, <1>13,
       <1>14, <1>15, <1>16, <1>17, <1>18, <1>19, <1>20 DEF Anno!Next

LEMMA AnnoTypeOK == Anno!Assumptions /\ AnnoInv /\ AnnoSized => Anno!TypeOK
  <1> SUFFICES ASSUME Anno!Assumptions, AnnoInv, AnnoSized PROVE Anno!TypeOK
    OBVIOUS
  <1>1. /\ AnnoTypes /\ local.drafts \in Anno!Stores /\ local.removed \subseteq Marks
        /\ Len(local.past) \in Nat /\ Len(local.future) \in Nat
    BY LocalFields DEF AnnoInv, AnnoTypes
  <1>2. Len(local.past) <= Limit
    <2>1. PICK a \in Nat, b \in Nat : a = Len(local.past) /\ b = Len(local.future)
      BY <1>1
    <2>2. PICK c \in Nat : c = Limit /\ a + b <= c
      BY <2>1 DEF AnnoSized, DepthFits, Anno!Assumptions
    <2>3. a <= c
      BY ONLY <2>2, a \in Nat, b \in Nat, c \in Nat
    <2> QED
      BY ONLY <2>1, <2>2, <2>3
  <1>3. \A i \in 1..Anno!Newest : versions[i] \in Anno!Stores
    BY <1>1 DEF AnnoTypes, MarkFiles, Anno!Newest
  <1>4. Anno!Newest \in 1..MarkVersions /\ annoSeen \in 1..MarkVersions
        /\ loads \subseteq 1..MarkVersions
    <2>1. Anno!Newest \in Nat /\ Anno!Newest >= 1 /\ Anno!Newest <= MarkVersions
      BY <1>1 DEF AnnoTypes, Anno!Newest, AnnoSized
    <2> QED
      BY <1>1, <2>1 DEF AnnoTypes, Anno!Assumptions
  <1> QED
    BY <1>1, <1>2, <1>3, <1>4 DEF AnnoTypes, AnnoSized, Anno!TypeOK, MarkFiles

-----------------------------------------------------------------------------
(* The bar.                                                                 *)

BarOps == [st : {"idle", "sent", "succeeded", "conflict", "failed"},
           kind : {"pages", "documents", "revert"}, on : Docs \cup {None},
           base : 0..DocVersions, target : 0..DocVersions, picked : Bar!At \cup {None},
           chain : Bar!Cursor \cup {None}, made : 0..DocVersions]

BarTypes ==
    /\ chain \in [Docs -> Seq(Nat)] /\ \A d \in Docs : Len(chain[d]) \in 1..DocVersions
    /\ route \in Docs /\ barDoc \in Bar!At \cup {None}
    /\ loading \in Docs \cup {None} /\ listing \in Docs \cup {None}
    /\ rows \subseteq Docs /\ more \subseteq Docs
    /\ cursor \in Bar!Cursor \cup {None} /\ barPicked \in Bar!At \cup {None}
    /\ barAsked \in Bar!At \cup {None}
    /\ op \in BarOps /\ barBusy \in BOOLEAN

\* The cursor steps back from a version that exists and holds what the cursor says is shown.
BarCursor ==
    cursor # None => /\ cursor.content <= cursor.ceiling /\ cursor.ceiling < cursor.expected
                     /\ \E d \in Docs : /\ cursor.expected <= Len(chain[d])
                                       /\ chain[d][cursor.expected] = chain[d][cursor.content]

\* A revert under way goes back to a version that was there when it was sent.
BarOp ==
    /\ op.st # "idle" => op.on \in Docs /\ op.base \in 1..Len(chain[op.on])
    /\ op.st # "idle" /\ op.kind = "revert" => op.target \in 1..op.base
    /\ op.st # "idle" /\ op.kind = "revert" /\ op.chain # None =>
          /\ op.chain.content = op.target
          /\ op.target <= op.chain.ceiling /\ op.chain.ceiling <= op.base
    /\ op.st = "succeeded" /\ op.kind # "documents" =>
          /\ op.made = op.base + 1 /\ op.made <= Len(chain[op.on])
          /\ op.kind = "revert" => chain[op.on][op.made] = chain[op.on][op.target]

\* What is shown is a version there is, and what is selected was selected in it.
BarShown ==
    /\ barDoc # None => barDoc.seq <= Len(chain[barDoc.id])
    /\ barPicked # None => barDoc # None /\ barPicked.seq = barDoc.seq

BarInv == BarTypes /\ BarCursor /\ BarOp /\ BarShown

\* Versions are only added.
BarGrown == \A d \in Docs : /\ Len(chain[d]) <= Len(chain'[d])
                            /\ \A i \in 1..Len(chain[d]) : chain'[d][i] = chain[d][i]

LEMMA BarNoOp == Bar!NoOp \in BarOps /\ Bar!NoOp.st = "idle"
  BY BarAssumption DEF Bar!NoOp, BarOps, Bar!Assumptions

LEMMA BarInit == Bar!Init => BarInv
  <1> SUFFICES ASSUME Bar!Init PROVE BarInv
    OBVIOUS
  <1>1. DocVersions \in Nat /\ DocVersions >= 1
    BY BarAssumption DEF Bar!Assumptions
  <1>2. <<1>> \in Seq(Nat) /\ Len(<<1>>) = 1
    OBVIOUS
  <1>3. chain \in [Docs -> Seq(Nat)] /\ \A d \in Docs : Len(chain[d]) \in 1..DocVersions
    BY <1>1, <1>2 DEF Bar!Init
  <1> QED
    BY <1>3, BarNoOp DEF Bar!Init, BarInv, BarTypes, BarCursor, BarOp, BarShown

\* A version is appended to one document.
LEMMA BarAppended ==
  ASSUME BarTypes, NEW d \in Docs, NEW c \in Nat, Len(chain[d]) < DocVersions,
         chain' = [chain EXCEPT ![d] = Append(chain[d], c)]
  PROVE  /\ BarGrown /\ chain' \in [Docs -> Seq(Nat)]
         /\ \A e \in Docs : Len(chain'[e]) \in 1..DocVersions
         /\ Len(chain'[d]) = Len(chain[d]) + 1 /\ chain'[d][Len(chain[d]) + 1] = c
  <1>0. DocVersions \in Nat
    BY BarAssumption DEF Bar!Assumptions
  <1>1. chain[d] \in Seq(Nat) /\ chain'[d] = Append(chain[d], c)
        /\ \A e \in Docs : e # d => chain'[e] = chain[e]
    BY DEF BarTypes
  <1>2. /\ Append(chain[d], c) \in Seq(Nat) /\ Len(Append(chain[d], c)) = Len(chain[d]) + 1
        /\ Append(chain[d], c)[Len(chain[d]) + 1] = c
        /\ \A i \in 1..Len(chain[d]) : Append(chain[d], c)[i] = chain[d][i]
        /\ Len(chain[d]) \in Nat
    BY <1>1
  <1>3. ASSUME NEW e \in Docs
        PROVE  /\ chain'[e] \in Seq(Nat) /\ Len(chain'[e]) \in 1..DocVersions
               /\ Len(chain[e]) <= Len(chain'[e])
               /\ \A i \in 1..Len(chain[e]) : chain'[e][i] = chain[e][i]
    <2>1. chain[e] \in Seq(Nat) /\ Len(chain[e]) \in 1..DocVersions
      BY DEF BarTypes
    <2>2. CASE e = d
      <3>1. chain'[e] = Append(chain[d], c)
        BY <1>1, <2>2
      <3>2. Len(Append(chain[d], c)) \in 1..DocVersions
            /\ Len(chain[d]) <= Len(Append(chain[d], c))
        BY ONLY <1>0, <1>2, Len(chain[d]) < DocVersions
      <3> QED
        BY <1>2, <2>2, <3>1, <3>2
    <2>3. CASE e # d
      BY <1>0, <1>1, <2>1, <2>3
    <2> QED
      BY <2>2, <2>3
  <1>4. chain' \in [Docs -> Seq(Nat)]
    <2>1. chain' = [e \in Docs |-> chain'[e]]
      BY DEF BarTypes
    <2> QED
      BY <1>3, <2>1
  <1> QED
    BY <1>1, <1>2, <1>3, <1>4 DEF BarGrown

\* What is true of versions there are stays true when versions are added.
LEMMA BarKept ==
  ASSUME BarInv, BarGrown, chain' \in [Docs -> Seq(Nat)],
         \A d \in Docs : Len(chain'[d]) \in 1..DocVersions
  PROVE  /\ UNCHANGED cursor => BarCursor'
         /\ UNCHANGED op => BarOp'
         /\ UNCHANGED <<barDoc, barPicked>> => BarShown'
  <1>0. DocVersions \in Nat
    BY BarAssumption DEF Bar!Assumptions
  <1>a. \A d \in Docs : Len(chain[d]) \in 1..DocVersions /\ Len(chain'[d]) \in 1..DocVersions
    BY DEF BarInv, BarTypes
  <1>b. \A d \in Docs : /\ Len(chain[d]) \in Nat /\ Len(chain'[d]) \in Nat
                        /\ Len(chain[d]) <= Len(chain'[d])
                        /\ \A i \in 1..Len(chain[d]) : chain'[d][i] = chain[d][i]
    BY ONLY <1>0, <1>a, BarGrown DEF BarGrown
  <1>1. ASSUME UNCHANGED cursor, cursor # None
        PROVE  \E d \in Docs : /\ cursor.expected <= Len(chain'[d])
                               /\ chain'[d][cursor.expected] = chain'[d][cursor.content]
    <2>1. cursor \in Bar!Cursor
      BY <1>1 DEF BarInv, BarTypes
    <2>2. PICK e \in Nat, c \in Nat :
             e = cursor.expected /\ c = cursor.content /\ e >= 1 /\ c >= 1
      BY <1>0, <2>1 DEF Bar!Cursor
    <2>3. c <= e /\ \E d \in Docs : e <= Len(chain[d]) /\ chain[d][e] = chain[d][c]
      <3>1. cursor.ceiling \in Nat
        BY <1>0, <2>1 DEF Bar!Cursor
      <3> QED
        BY <1>1, <2>2, <3>1 DEF BarInv, BarCursor
    <2>4. PICK d \in Docs : e <= Len(chain[d]) /\ chain[d][e] = chain[d][c]
      BY <2>3
    <2>5. Len(chain[d]) \in Nat /\ Len(chain'[d]) \in Nat /\ Len(chain[d]) <= Len(chain'[d])
          /\ \A i \in 1..Len(chain[d]) : chain'[d][i] = chain[d][i]
      BY <1>b
    <2>6. e \in 1..Len(chain[d]) /\ c \in 1..Len(chain[d]) /\ e <= Len(chain'[d])
      BY ONLY <2>2, <2>3, <2>4, <2>5
    <2>7. chain'[d][e] = chain'[d][c]
      BY ONLY <2>4, <2>5, <2>6
    <2> QED
      BY <2>2, <2>6, <2>7
  <1>2. ASSUME op.st # "idle", op.on \in Docs, op.base \in 1..Len(chain[op.on])
        PROVE  op.base \in 1..Len(chain'[op.on])
    <2>1. /\ Len(chain[op.on]) \in Nat /\ Len(chain'[op.on]) \in Nat
          /\ Len(chain[op.on]) <= Len(chain'[op.on])
      BY <1>b, <1>2
    <2> QED
      BY ONLY <1>2, <2>1
  <1>3. ASSUME op.st = "succeeded", op.kind # "documents", UNCHANGED op
        PROVE  /\ op.made <= Len(chain'[op.on])
               /\ op.kind = "revert" => chain'[op.on][op.made] = chain'[op.on][op.target]
    <2>1. op \in BarOps /\ BarOp
      BY DEF BarInv, BarTypes
    <2>2. PICK d \in Docs, b \in Nat, m \in Nat, t \in Nat :
             d = op.on /\ b = op.base /\ m = op.made /\ t = op.target
      BY <1>0, <1>3, <2>1 DEF BarOps, BarOp
    <2>3. /\ b >= 1 /\ m = b + 1 /\ m <= Len(chain[d])
          /\ op.kind = "revert" => t \in 1..b /\ chain[d][m] = chain[d][t]
      BY <1>3, <2>1, <2>2 DEF BarOp
    <2>4. Len(chain[d]) \in Nat /\ Len(chain'[d]) \in Nat /\ Len(chain[d]) <= Len(chain'[d])
          /\ \A i \in 1..Len(chain[d]) : chain'[d][i] = chain[d][i]
      BY <1>b, <2>2
    <2>5. m \in 1..Len(chain[d]) /\ m <= Len(chain'[d])
      BY ONLY <2>2, <2>3, <2>4
    <2>6. op.kind = "revert" => t \in 1..Len(chain[d])
      BY ONLY <2>2, <2>3, <2>4
    <2> QED
      BY ONLY <2>2, <2>3, <2>4, <2>5, <2>6
  <1>4. ASSUME barDoc # None PROVE barDoc.seq <= Len(chain'[barDoc.id])
    <2>1. barDoc.id \in Docs /\ barDoc.seq \in Nat /\ barDoc.seq <= Len(chain[barDoc.id])
      BY <1>0, <1>4 DEF BarInv, BarTypes, Bar!At, BarShown
    <2>2. /\ Len(chain[barDoc.id]) \in Nat /\ Len(chain'[barDoc.id]) \in Nat
          /\ Len(chain[barDoc.id]) <= Len(chain'[barDoc.id])
      BY <1>b, <2>1
    <2> QED
      BY ONLY <2>1, <2>2
  <1>5. UNCHANGED cursor => BarCursor'
    BY <1>1 DEF BarInv, BarCursor
  <1>6. UNCHANGED op => BarOp'
    BY <1>2, <1>3 DEF BarInv, BarOp
  <1>7. UNCHANGED <<barDoc, barPicked>> => BarShown'
    BY <1>4 DEF BarInv, BarShown
  <1> QED
    BY <1>5, <1>6, <1>7

\* A step that makes no version, and leaves the rest to be said.
LEMMA BarSame ==
  ASSUME BarInv, UNCHANGED chain
  PROVE  /\ BarGrown
         /\ UNCHANGED cursor => BarCursor'
         /\ UNCHANGED op => BarOp'
         /\ UNCHANGED <<barDoc, barPicked>> => BarShown'
  BY DEF BarInv, BarGrown, BarCursor, BarOp, BarShown

\* An operation is sent on the version that is shown.
LEMMA BarSent ==
  ASSUME BarInv, NEW kind \in {"pages", "documents"}, NEW sel \in Bar!At \cup {None},
         barDoc # None, Bar!Dispatch(kind, sel), UNCHANGED chain
  PROVE  op' \in BarOps /\ BarOp' /\ barBusy' \in BOOLEAN
  <1>0. DocVersions \in Nat
    BY BarAssumption DEF Bar!Assumptions
  <1>1. barDoc \in Bar!At /\ barDoc.seq <= Len(chain[barDoc.id])
    BY DEF BarInv, BarTypes, BarShown
  <1>2. barDoc.id \in Docs /\ barDoc.seq \in 1..DocVersions
    BY <1>1 DEF Bar!At
  <1>3. Len(chain[barDoc.id]) \in 1..DocVersions
    BY <1>2 DEF BarInv, BarTypes
  <1>4. op' = [Bar!NoOp EXCEPT !.st = "sent", !.kind = kind, !.on = barDoc.id, !.base = barDoc.seq,
                          !.picked = sel] /\ barBusy' = TRUE
    BY DEF Bar!Dispatch
  <1>6. op' = [st |-> "sent", kind |-> kind, on |-> barDoc.id, base |-> barDoc.seq, target |-> 0,
               picked |-> sel, chain |-> None, made |-> 0]
    BY <1>4 DEF Bar!NoOp
  <1>5. op' \in BarOps /\ op'.st = "sent" /\ op'.kind = kind /\ op'.on = barDoc.id
        /\ op'.base = barDoc.seq
    BY <1>0, <1>2, <1>6 DEF BarOps
  <1> QED
    BY <1>0, <1>1, <1>2, <1>3, <1>4, <1>5 DEF BarOp

LEMMA BarReverts ==
  ASSUME BarInv, NEW target, NEW link \in Bar!Cursor \cup {None}, barDoc # None,
         target \in 1..Len(chain[barDoc.id]), Bar!Revert(target, link), UNCHANGED chain,
         link # None => /\ link.content = target /\ target <= link.ceiling
                        /\ link.ceiling <= Len(chain[barDoc.id])
  PROVE  op' \in BarOps /\ BarOp' /\ barBusy' \in BOOLEAN
  <1>0. DocVersions \in Nat
    BY BarAssumption DEF Bar!Assumptions
  <1>2. barDoc.id \in Docs
    BY DEF BarInv, BarTypes, Bar!At
  <1>3. Len(chain[barDoc.id]) \in 1..DocVersions
    BY <1>2 DEF BarInv, BarTypes
  <1>4. op' = [Bar!NoOp EXCEPT !.st = "sent", !.kind = "revert", !.on = barDoc.id,
                          !.base = Len(chain[barDoc.id]), !.target = target, !.chain = link]
        /\ barBusy' = TRUE
    BY DEF Bar!Revert, Bar!Newest
  <1>6. op' = [st |-> "sent", kind |-> "revert", on |-> barDoc.id, base |-> Len(chain[barDoc.id]),
               target |-> target, picked |-> None, chain |-> link, made |-> 0]
    BY <1>4 DEF Bar!NoOp
  <1>5. /\ op' \in BarOps /\ op'.st = "sent" /\ op'.kind = "revert" /\ op'.on = barDoc.id
        /\ op'.base = Len(chain[barDoc.id]) /\ op'.target = target /\ op'.chain = link
    BY <1>0, <1>2, <1>3, <1>6 DEF BarOps
  <1> QED
    BY <1>0, <1>2, <1>3, <1>4, <1>5 DEF BarOp

\* A step of the chain goes to a version there is, below the ceiling it names.
LEMMA BarStepped ==
  ASSUME BarInv, NEW target, barDoc # None,
         (target = Bar!ShownSeq - 1 /\ Bar!CanUndo) \/ (target = Bar!ShownSeq + 1 /\ Bar!CanRedo),
         Bar!StepVersion(target), UNCHANGED chain
  PROVE  op' \in BarOps /\ BarOp' /\ barBusy' \in BOOLEAN
  <1>0. DocVersions \in Nat
    BY BarAssumption DEF Bar!Assumptions
  <1>1. PICK d \in Docs, s \in 1..DocVersions : barDoc = [id |-> d, seq |-> s]
    BY DEF BarInv, BarTypes, Bar!At
  <1>2. Len(chain[d]) \in 1..DocVersions /\ s <= Len(chain[d])
    BY <1>1 DEF BarInv, BarTypes, BarShown
  <1> DEFINE top == IF Bar!Live THEN cursor.ceiling ELSE barDoc.seq
             link == [ceiling |-> top, content |-> target, expected |-> barDoc.seq + 1]
  <1>3. target \in 1..top /\ top \in 1..s
    <2>1. CASE Bar!Live
      <3>1. cursor # None /\ cursor \in Bar!Cursor /\ cursor.expected = s
        BY <1>1, <2>1 DEF Bar!Live, BarInv, BarTypes
      <3>2. PICK c \in 1..DocVersions, n \in 1..DocVersions : cursor.ceiling = c
            /\ cursor.content = n
        BY <3>1 DEF Bar!Cursor
      <3>3. n <= c /\ c < s
        BY <3>1, <3>2 DEF BarInv, BarCursor
      <3>4. (target = n - 1 /\ n > 1) \/ (target = n + 1 /\ n < c)
        BY <2>1, <3>2 DEF Bar!CanUndo, Bar!CanRedo, Bar!ShownSeq
      <3>5. top = c
        BY <2>1, <3>2
      <3> HIDE DEF top
      <3> QED
        BY ONLY <1>0, <3>2, <3>3, <3>4, <3>5
    <2>2. CASE ~Bar!Live
      <3>1. target = s - 1 /\ s > 1
        BY <1>1, <2>2 DEF Bar!CanUndo, Bar!CanRedo, Bar!ShownSeq
      <3>2. top = s
        BY <1>1, <2>2
      <3> HIDE DEF top
      <3> QED
        BY ONLY <1>0, <3>1, <3>2, <1>1
    <2> QED
      BY <2>1, <2>2
  <1> HIDE DEF top
  <1>4. link \in Bar!Cursor /\ link.content = target
        /\ target <= link.ceiling /\ link.ceiling <= Len(chain[barDoc.id])
    BY <1>0, <1>1, <1>2, <1>3 DEF Bar!Cursor
  <1>5. Bar!Revert(target, link)
    BY DEF Bar!StepVersion, top
  <1>6. target \in 1..Len(chain[barDoc.id])
    BY <1>0, <1>1, <1>2, <1>3
  <1> HIDE DEF link
  <1> QED
    BY <1>4, <1>5, <1>6, BarReverts

LEMMA BarStep == BarInv /\ [Bar!Next]_(Bar!vars) => BarInv'
  <1> SUFFICES ASSUME BarInv, [Bar!Next]_(Bar!vars) PROVE BarInv'
    OBVIOUS
  <1>0. DocVersions \in Nat /\ BarTypes
    BY BarAssumption DEF Bar!Assumptions, BarInv
  <1>t. \A d \in Docs : Len(chain[d]) \in 1..DocVersions
    BY <1>0 DEF BarTypes
  <1>n. Bar!NoOp \in BarOps /\ Bar!NoOp.st = "idle"
    BY BarNoOp
  <1>1. ASSUME NEW d \in Docs, Bar!Navigate(d) PROVE BarInv'
    <2>1. BarTypes'
      BY <1>0, <1>1 DEF Bar!Navigate, Bar!Load, BarTypes
    <2> QED
      BY <1>1, <2>1, BarSame DEF Bar!Navigate, BarInv
  <1>2. CASE Bar!LoadAnswer
    <2>1. /\ loading \in Docs /\ barDoc' = [id |-> loading, seq |-> Len(chain[loading])]
          /\ UNCHANGED <<chain, cursor, op>>
      BY <1>0, <1>2 DEF Bar!LoadAnswer, Bar!Newest, BarTypes
    <2>2. barDoc' \in Bar!At /\ barDoc'.id = loading /\ barDoc'.seq = Len(chain[loading])
      BY <1>t, <2>1 DEF Bar!At
    <2>3. barPicked' = None \/ (barPicked' = barPicked /\ barDoc # None /\ barDoc'.seq = barDoc.seq)
      <3> DEFINE same == barDoc # None /\ barDoc' # None /\ barDoc.seq = barDoc'.seq
      <3>1. barPicked' \in IF same
                        THEN IF barDoc.id = barDoc'.id THEN {barPicked} ELSE {barPicked, None}
                              ELSE {None}
        BY <1>2 DEF Bar!LoadAnswer, Bar!Reselect
      <3>2. CASE same
        BY <3>1, <3>2
      <3>3. CASE ~same
        BY <3>1, <3>3
      <3> QED
        BY <3>2, <3>3
    <2>4. BarTypes'
      BY <1>0, <1>2, <2>1, <2>2, <2>3 DEF Bar!LoadAnswer, BarTypes
    <2>5. BarShown'
      <3>1. barDoc'.seq <= Len(chain'[barDoc'.id])
        BY <1>t, <2>1, <2>2
      <3>2. barPicked' # None => barDoc' # None /\ barPicked'.seq = barDoc'.seq
        BY <1>2, <2>2, <2>3 DEF Bar!LoadAnswer, Bar!Reselect, BarInv, BarShown
      <3> QED
        BY <3>1, <3>2 DEF BarShown
    <2> QED
      BY <2>1, <2>4, <2>5, BarSame DEF BarInv
  <1>3. CASE Bar!LoadFails
    <2>1. BarTypes' /\ BarShown'
      BY <1>0, <1>3 DEF Bar!LoadFails, BarTypes, BarShown
    <2> QED
      BY <1>3, <2>1, BarSame DEF Bar!LoadFails, BarInv
  <1>4. ASSUME NEW ok \in BOOLEAN, Bar!ListAnswer(ok) PROVE BarInv'
    <2>1. BarTypes'
      BY <1>0, <1>4 DEF Bar!ListAnswer, BarTypes
    <2> QED
      BY <1>4, <2>1, BarSame DEF Bar!ListAnswer, BarInv
  <1>5. CASE Bar!MoreRows
    <2>1. BarTypes'
      BY <1>0, <1>5 DEF Bar!MoreRows, BarTypes, Bar!At
    <2> QED
      BY <1>5, <2>1, BarSame DEF Bar!MoreRows, BarInv
  <1>6. ASSUME NEW ok \in BOOLEAN, NEW d \in Docs, Bar!MoreAnswer(d, ok) PROVE BarInv'
    <2>1. BarTypes'
      BY <1>0, <1>6 DEF Bar!MoreAnswer, BarTypes
    <2> QED
      BY <1>6, <2>1, BarSame DEF Bar!MoreAnswer, BarInv
  <1>7. CASE Bar!Select
    <2>1. BarTypes' /\ BarShown'
      BY <1>0, <1>7 DEF Bar!Select, BarTypes, BarInv, BarShown
    <2> QED
      BY <1>7, <2>1, BarSame DEF Bar!Select, BarInv
  <1>8. ASSUME NEW kind \in {"pages", "documents"}, Bar!Run(kind) PROVE BarInv'
    <2>1. op' \in BarOps /\ BarOp' /\ barBusy' \in BOOLEAN
      BY <1>0, <1>8, BarSent DEF Bar!Run, BarTypes
    <2>2. BarTypes'
      BY <1>0, <1>8, <2>1 DEF Bar!Run, BarTypes
    <2> QED
      BY <1>8, <2>1, <2>2, BarSame DEF Bar!Run, BarInv
  <1>9. CASE Bar!AskDelete
    <2>1. BarTypes'
      BY <1>0, <1>9 DEF Bar!AskDelete, BarTypes
    <2> QED
      BY <1>9, <2>1, BarSame DEF Bar!AskDelete, BarInv
  <1>10. ASSUME NEW yes \in BOOLEAN, Bar!AnswerDelete(yes) PROVE BarInv'
    <2>1. op' \in BarOps /\ BarOp' /\ barBusy' \in BOOLEAN
      <3>1. CASE yes /\ barDoc # None
        BY <1>0, <1>10, <3>1, BarSent DEF Bar!AnswerDelete, BarTypes
      <3>2. CASE ~(yes /\ barDoc # None)
        <4>1. UNCHANGED <<op, barBusy, chain>>
          BY <1>10, <3>2 DEF Bar!AnswerDelete
        <4>2. BarOp'
          BY <4>1, BarSame
        <4> QED
          BY <1>0, <4>1, <4>2 DEF BarTypes
      <3> QED
        BY <3>1, <3>2
    <2>2. BarTypes'
      BY <1>0, <1>10, <2>1 DEF Bar!AnswerDelete, BarTypes
    <2> QED
      BY <1>10, <2>1, <2>2, BarSame DEF Bar!AnswerDelete, BarInv
  <1>11. CASE Bar!UndoLastChange \/ Bar!RedoLastChange
    <2>1. PICK target : /\ \/ target = Bar!ShownSeq - 1 /\ Bar!CanUndo
                           \/ target = Bar!ShownSeq + 1 /\ Bar!CanRedo
                        /\ Bar!StepVersion(target)
      BY <1>11 DEF Bar!UndoLastChange, Bar!RedoLastChange
    <2>2. /\ barDoc # None /\ UNCHANGED <<chain, route, barDoc, loading, listing, rows, more,
                                          cursor, barPicked, barAsked>>
      BY <2>1 DEF Bar!StepVersion, Bar!CanUndo, Bar!CanRedo, Bar!Live
    <2>3. op' \in BarOps /\ BarOp' /\ barBusy' \in BOOLEAN
      BY <2>1, <2>2, BarStepped
    <2>4. BarTypes'
      BY <1>0, <2>2, <2>3 DEF BarTypes
    <2> QED
      BY <2>2, <2>3, <2>4, BarSame DEF BarInv
  <1>12. ASSUME NEW n \in 1..DocVersions, Bar!RevertTo(n) PROVE BarInv'
    <2>2. /\ barDoc # None /\ n \in 1..Len(chain[barDoc.id]) /\ Bar!Revert(n, None)
          /\ UNCHANGED <<chain, route, barDoc, loading, listing, rows, more, cursor, barPicked,
                         barAsked>>
      BY <1>12 DEF Bar!RevertTo, Bar!Newest
    <2>3. op' \in BarOps /\ BarOp' /\ barBusy' \in BOOLEAN
      BY <2>2, BarReverts
    <2>4. BarTypes'
      BY <1>0, <2>2, <2>3 DEF BarTypes
    <2> QED
      BY <2>2, <2>3, <2>4, BarSame DEF BarInv
  <1>13. CASE Bar!JobWorks
    <2>0. op.st = "sent" /\ op.on \in Docs /\ op.base = Len(chain[op.on]) /\ op \in BarOps
          /\ UNCHANGED <<route, barDoc, loading, listing, rows, more, cursor, barPicked,
                         barAsked, barBusy>>
      BY <1>0, <1>13 DEF Bar!JobWorks, BarInv, BarTypes, BarOp, Bar!Newest
    <2>1. CASE op.kind = "documents"
      <3>1. op' = [op EXCEPT !.st = "succeeded"] /\ UNCHANGED chain
        BY <1>13, <2>1 DEF Bar!JobWorks
      <3>2. op' \in BarOps /\ op'.kind = "documents" /\ op'.on = op.on /\ op'.base = op.base
        BY <2>0, <2>1, <3>1 DEF BarOps
      <3>3. BarOp'
        BY <2>0, <3>1, <3>2 DEF BarInv, BarOp
      <3>4. BarTypes'
        BY <1>0, <2>0, <3>1, <3>2 DEF BarTypes
      <3> QED
        BY <2>0, <3>1, <3>3, <3>4, BarSame DEF BarInv
    <2>2. CASE op.kind # "documents"
      <3> DEFINE c == IF op.kind = "revert" THEN chain[op.on][op.target] ELSE Len(chain[op.on]) + 1
      <3>1. /\ Len(chain[op.on]) < DocVersions
            /\ chain' = [chain EXCEPT ![op.on] = Append(chain[op.on], c)]
            /\ op' = [op EXCEPT !.st = "succeeded", !.made = Len(chain[op.on]) + 1]
        BY <1>13, <2>0, <2>2 DEF Bar!JobWorks, Bar!Newest
      <3>2. c \in Nat /\ (op.kind = "revert" => op.target \in 1..Len(chain[op.on])
                                               /\ c = chain[op.on][op.target])
        <4>1. chain[op.on] \in Seq(Nat)
          BY <1>0, <2>0 DEF BarTypes
        <4>2. op.kind = "revert" => op.target \in 1..Len(chain[op.on])
          BY <2>0 DEF BarInv, BarOp
        <4> QED
          BY <4>1, <4>2
      <3> HIDE DEF c
      <3>3. /\ BarGrown /\ chain' \in [Docs -> Seq(Nat)]
            /\ \A e \in Docs : Len(chain'[e]) \in 1..DocVersions
            /\ Len(chain'[op.on]) = Len(chain[op.on]) + 1
            /\ chain'[op.on][Len(chain[op.on]) + 1] = c
        BY <1>0, <2>0, <3>1, <3>2, BarAppended
      <3>4. BarCursor' /\ BarShown'
        BY <2>0, <3>3, BarKept
      <3>5. /\ op' \in BarOps /\ op'.st = "succeeded" /\ op'.made = op.base + 1
            /\ op'.on = op.on /\ op'.base = op.base /\ op'.kind = op.kind
            /\ op'.target = op.target
            /\ op'.chain = op.chain
        <4>1. Len(chain[op.on]) + 1 \in 0..DocVersions
          BY <1>0, <1>t, <2>0, <3>1
        <4> QED
          BY <2>0, <3>1, <4>1 DEF BarOps
      <3>6. BarOp'
        <4>1. op.base \in 1..Len(chain'[op.on]) /\ op'.made <= Len(chain'[op.on])
          BY <1>t, <2>0, <3>3, <3>5
        <4>2. op.kind = "revert" => chain'[op.on][op.base + 1] = chain'[op.on][op.target]
          BY <2>0, <3>2, <3>3 DEF BarGrown
        <4> QED
          BY <2>0, <3>5, <4>1, <4>2 DEF BarInv, BarOp
      <3>7. BarTypes'
        BY <1>0, <2>0, <3>3, <3>5 DEF BarTypes
      <3> QED
        BY <3>4, <3>6, <3>7 DEF BarInv
    <2> QED
      BY <2>1, <2>2
  <1>14. ASSUME NEW st \in {"conflict", "failed"}, Bar!JobRefused(st) PROVE BarInv'
    <2>0. op.st = "sent" /\ op \in BarOps /\ op' = [op EXCEPT !.st = st]
          /\ UNCHANGED <<chain, route, barDoc, loading, listing, rows, more, cursor, barPicked,
                         barAsked, barBusy>>
      BY <1>0, <1>14 DEF Bar!JobRefused, BarTypes
    <2>1. /\ op' \in BarOps /\ op'.st = st /\ op'.on = op.on /\ op'.base = op.base
          /\ op'.kind = op.kind /\ op'.target = op.target /\ op'.chain = op.chain
      BY <2>0 DEF BarOps
    <2>2. BarOp'
      BY <2>0, <2>1 DEF BarInv, BarOp
    <2>3. BarTypes'
      BY <1>0, <2>0, <2>1 DEF BarTypes
    <2> QED
      BY <2>0, <2>2, <2>3, BarSame DEF BarInv
  <1>15. ASSUME NEW d \in Docs, Bar!OtherTab(d) PROVE BarInv'
    <2>1. /\ Len(chain[d]) < DocVersions
          /\ chain' = [chain EXCEPT ![d] = Append(chain[d], Len(chain[d]) + 1)]
          /\ UNCHANGED <<route, barDoc, loading, listing, rows, more, cursor, barPicked,
                         barAsked, op, barBusy>>
      BY <1>15 DEF Bar!OtherTab, Bar!Newest
    <2>2. /\ BarGrown /\ chain' \in [Docs -> Seq(Nat)]
          /\ \A e \in Docs : Len(chain'[e]) \in 1..DocVersions
      <3>1. PICK c \in Nat : c = Len(chain[d]) + 1
        BY <1>t
      <3>2. chain' = [chain EXCEPT ![d] = Append(chain[d], c)]
        BY ONLY <2>1, <3>1
      <3> QED
        BY <1>0, <2>1, <3>2, BarAppended
    <2>3. BarTypes'
      BY <1>0, <2>1, <2>2 DEF BarTypes
    <2> QED
      BY <2>1, <2>2, <2>3, BarKept DEF BarInv
  <1>16. CASE Bar!OpSucceeded
    <2>0. /\ op.st = "succeeded" /\ op.kind # "documents" /\ op.on \in Docs /\ op \in BarOps
          /\ op.made = op.base + 1 /\ op.made <= Len(chain[op.on])
          /\ op.base \in 1..Len(chain[op.on])
          /\ UNCHANGED <<chain, route, rows, more, barAsked>>
          /\ barDoc' = Bar!Adopted /\ barPicked' = None /\ op' = Bar!NoOp /\ barBusy' = FALSE
      BY <1>0, <1>16 DEF Bar!OpSucceeded, BarInv, BarTypes, BarOp
    <2>1. op.made \in 1..DocVersions
      BY <1>0, <1>t, <2>0
    <2>2. /\ barDoc' \in Bar!At \cup {None}
          /\ barDoc' # None => barDoc'.seq <= Len(chain[barDoc'.id])
      <3>1. CASE barDoc # None /\ barDoc.id = op.on
        <4>1. barDoc' = [barDoc EXCEPT !.seq = op.made] /\ barDoc \in Bar!At
          BY <1>0, <2>0, <3>1 DEF Bar!Adopted, BarTypes
        <4> QED
          BY <2>0, <2>1, <3>1, <4>1 DEF Bar!At
      <3>2. CASE ~(barDoc # None /\ barDoc.id = op.on)
        BY <1>0, <2>0, <3>2 DEF Bar!Adopted, BarTypes, BarInv, BarShown
      <3> QED
        BY <3>1, <3>2
    <2>3. loading' \in Docs \cup {None} /\ listing' \in Docs \cup {None}
      <3>1. \/ UNCHANGED <<loading, listing>>
            \/ Bar!Adopted # None /\ loading' = Bar!Adopted.id /\ listing' = Bar!Adopted.id
        BY <1>16 DEF Bar!OpSucceeded, Bar!Reload, Bar!Load
      <3>2. Bar!Adopted # None => Bar!Adopted.id \in Docs
        BY <2>0, <2>2 DEF Bar!At
      <3> QED
        BY <1>0, <3>1, <3>2 DEF BarTypes
    <2>4. cursor' \in Bar!Cursor \cup {None} /\ BarCursor'
      <3>1. CASE op.kind = "revert" /\ op.chain # None
        <4>1. cursor' = [op.chain EXCEPT !.expected = op.made] /\ op.chain \in Bar!Cursor
          BY <1>16, <2>0, <3>1 DEF Bar!OpSucceeded, Bar!CommitCursor, BarOps
        <4>2. /\ cursor' \in Bar!Cursor /\ cursor'.expected = op.made
              /\ cursor'.content = op.target /\ cursor'.ceiling = op.chain.ceiling
          <5>1. op.made \in 1..DocVersions + 1
            BY <1>0, <2>1
          <5>2. op.chain.content = op.target
            BY <2>0, <3>1 DEF BarInv, BarOp
          <5> QED
            BY <4>1, <5>1, <5>2 DEF Bar!Cursor
        <4>3. /\ op.target <= op.chain.ceiling /\ op.chain.ceiling <= op.base
              /\ chain[op.on][op.made] = chain[op.on][op.target]
          BY <2>0, <3>1 DEF BarInv, BarOp
        <4>4. op.chain.ceiling \in Nat /\ op.base \in Nat
          BY <1>0, <2>0, <4>1 DEF Bar!Cursor, BarOps
        <4>5. op.chain.ceiling < op.made
          BY ONLY <2>0, <4>3, <4>4
        <4> QED
          BY <2>0, <4>2, <4>3, <4>5 DEF BarCursor
      <3>2. CASE ~(op.kind = "revert" /\ op.chain # None)
        <4>1. UNCHANGED cursor
          BY <1>16, <3>2 DEF Bar!OpSucceeded, Bar!CommitCursor
        <4> QED
          BY <1>0, <2>0, <4>1, BarSame DEF BarTypes
      <3> QED
        BY <3>1, <3>2
    <2>5. BarTypes'
      BY <1>0, <1>n, <2>0, <2>2, <2>3, <2>4 DEF BarTypes
    <2>6. BarOp' /\ BarShown'
      BY <1>n, <2>0, <2>2 DEF BarOp, BarShown
    <2> QED
      BY <2>4, <2>5, <2>6 DEF BarInv
  <1>17. ASSUME NEW d \in Docs, Bar!DocumentsMade(d) PROVE BarInv'
    <2>1. BarTypes' /\ BarOp'
      BY <1>0, <1>17, <1>n DEF Bar!DocumentsMade, Bar!Load, BarTypes, BarOp
    <2> QED
      BY <1>17, <2>1, BarSame DEF Bar!DocumentsMade, BarInv
  <1>18. CASE Bar!HandleFailure
    <2>1. BarTypes' /\ BarOp'
      BY <1>0, <1>18, <1>n DEF Bar!HandleFailure, Bar!Reload, Bar!Load, Bar!At, BarTypes, BarOp
    <2> QED
      BY <1>18, <2>1, BarSame DEF Bar!HandleFailure, BarInv
  <1>19. CASE UNCHANGED Bar!vars
    <2>1. BarTypes' /\ UNCHANGED <<chain, cursor, op, barDoc, barPicked>>
      BY <1>0, <1>19 DEF Bar!vars, BarTypes
    <2> QED
      BY <2>1, BarSame DEF BarInv
  <1> QED
    BY <1>1, <1>2, <1>3, <1>4, <1>5, <1>6, <1>7, <1>8, <1>9, <1>10, <1>11, <1>12, <1>13,
       <1>14, <1>15, <1>16, <1>17, <1>18, <1>19 DEF Bar!Next, Bar!Bar, Bar!Panel

LEMMA BarTypeOK == BarInv => Bar!TypeOK
  BY DEF BarInv, BarTypes, Bar!TypeOK, Bar!Newest, BarOps

\* No version holds what a later one was made with.
BarOld == \A d \in Docs : \A i \in 1..Len(chain[d]) : chain[d][i] <= i

LEMMA BarOldInit == Bar!Init => BarOld
  BY DEF Bar!Init, BarOld

LEMMA BarOldStep == BarInv /\ BarOld /\ (Bar!Next \/ UNCHANGED Bar!vars) => BarOld'
  <1> SUFFICES ASSUME BarInv, BarOld, Bar!Next \/ UNCHANGED Bar!vars PROVE BarOld'
    OBVIOUS
  <1>0. BarTypes /\ \A d \in Docs : Len(chain[d]) \in Nat
    BY BarAssumption DEF BarInv, BarTypes, Bar!Assumptions
  <1>1. ASSUME NEW d \in Docs, NEW c \in Nat, c <= Len(chain[d]) + 1,
               Len(chain[d]) < DocVersions, chain' = [chain EXCEPT ![d] = Append(chain[d], c)]
        PROVE  BarOld'
    <2>1. \A e \in Docs : /\ e # d => chain'[e] = chain[e]
                          /\ \A i \in 1..Len(chain[e]) : chain'[e][i] = chain[e][i]
      BY <1>0, <1>1, BarAppended DEF BarTypes, BarGrown
    <2>2. Len(chain'[d]) = Len(chain[d]) + 1 /\ chain'[d][Len(chain[d]) + 1] = c
      BY <1>0, <1>1, BarAppended
    <2>3. ASSUME NEW i \in 1..Len(chain'[d]) PROVE chain'[d][i] <= i
      <3>1. i \in 1..Len(chain[d]) \/ i = Len(chain[d]) + 1
        BY <1>0, <2>2
      <3> QED
        BY <1>1, <2>1, <2>2, <3>1 DEF BarOld
    <2> QED
      BY <2>1, <2>3 DEF BarOld
  <1>2. CASE Bar!JobWorks
    <2>0. op.st = "sent" /\ op.on \in Docs /\ op.base = Len(chain[op.on])
      BY <1>2 DEF Bar!JobWorks, BarInv, BarOp, Bar!Newest
    <2>1. CASE op.kind = "documents"
      BY <1>2, <2>1 DEF Bar!JobWorks, BarOld
    <2>2. CASE op.kind # "documents"
      <3> DEFINE c == IF op.kind = "revert" THEN chain[op.on][op.target]
                                            ELSE Len(chain[op.on]) + 1
      <3>1. /\ Len(chain[op.on]) < DocVersions
            /\ chain' = [chain EXCEPT ![op.on] = Append(chain[op.on], c)]
        BY <1>2, <2>2 DEF Bar!JobWorks, Bar!Newest
      <3>2. c \in Nat /\ c <= Len(chain[op.on]) + 1
        <4>1. CASE op.kind = "revert"
          <5>1. op.target \in 1..Len(chain[op.on])
            BY <2>0, <4>1 DEF BarInv, BarOp
          <5>2. /\ chain[op.on] \in Seq(Nat) /\ Len(chain[op.on]) \in Nat
                /\ chain[op.on][op.target] <= op.target
            BY <1>0, <2>0, <5>1 DEF BarTypes, BarOld
          <5>3. chain[op.on][op.target] \in Nat
            BY <5>1, <5>2
          <5> QED
            BY <4>1, <5>1, <5>2, <5>3
        <4>2. CASE op.kind # "revert"
          BY <1>0, <2>0, <4>2
        <4> QED
          BY <4>1, <4>2
      <3> HIDE DEF c
      <3> QED
        BY <1>1, <2>0, <3>1, <3>2
    <2> QED
      BY <2>1, <2>2
  <1>3. ASSUME NEW d \in Docs, Bar!OtherTab(d) PROVE BarOld'
    <2>1. /\ Len(chain[d]) < DocVersions
          /\ chain' = [chain EXCEPT ![d] = Append(chain[d], Len(chain[d]) + 1)]
      BY <1>3 DEF Bar!OtherTab, Bar!Newest
    <2>2. Len(chain[d]) + 1 \in Nat /\ Len(chain[d]) + 1 <= Len(chain[d]) + 1
      BY <1>0
    <2> QED
      BY <1>1, <2>1, <2>2
  <1>4. ASSUME UNCHANGED chain PROVE BarOld'
    BY <1>4 DEF BarOld
  <1> QED
    BY <1>2, <1>3, <1>4 DEF Bar!Next, Bar!Bar, Bar!Panel, Bar!LoadAnswer, Bar!LoadFails,
       Bar!Select, Bar!AskDelete, Bar!UndoLastChange, Bar!RedoLastChange, Bar!StepVersion,
       Bar!Revert, Bar!Run, Bar!AnswerDelete, Bar!RevertTo, Bar!Navigate, Bar!DocumentsMade,
       Bar!JobRefused, Bar!OpSucceeded, Bar!HandleFailure, Bar!MoreRows, Bar!ListAnswer,
       Bar!MoreAnswer, Bar!vars

LEMMA BarCursorTrue == BarInv /\ BarOld => Bar!CursorTellsTruth
  <1> SUFFICES ASSUME BarInv, BarOld, Bar!Live,
                      \A d \in Docs \ {barDoc.id} : ~Bar!Reverted(d, cursor.expected)
               PROVE  chain[barDoc.id][barDoc.seq] = chain[barDoc.id][cursor.content]
    BY DEF Bar!CursorTellsTruth, Bar!EndsByArithmetic
  <1>1. DocVersions \in Nat /\ cursor \in Bar!Cursor /\ cursor.expected = barDoc.seq
        /\ \A d \in Docs : Len(chain[d]) \in Nat /\ chain[d] \in Seq(Nat)
    BY BarAssumption DEF BarInv, BarTypes, Bar!Live, Bar!Assumptions
  <1>2. PICK d \in Docs : /\ cursor.expected <= Len(chain[d])
                          /\ chain[d][cursor.expected] = chain[d][cursor.content]
    BY DEF BarInv, BarCursor, Bar!Live
  <1>3. cursor.content \in Nat /\ cursor.expected \in Nat /\ cursor.content >= 1
        /\ cursor.content < cursor.expected
    BY <1>1 DEF Bar!Cursor, BarInv, BarCursor, Bar!Live
  <1>4. d = barDoc.id
    <2>1. cursor.content \in 1..Len(chain[d])
      BY <1>1, <1>2, <1>3
    <2>2. chain[d][cursor.content] <= cursor.content /\ chain[d][cursor.content] \in Nat
      BY <1>1, <2>1 DEF BarOld
    <2>3. chain[d][cursor.expected] # cursor.expected
      BY <1>2, <1>3, <2>2
    <2> QED
      BY <1>2, <2>3 DEF Bar!Reverted, Bar!Newest
  <1> QED
    BY <1>1, <1>2, <1>4

LEMMA BarAims == BarInv => Bar!Aimed
  BY DEF BarInv, BarShown, Bar!Aimed, Bar!Run

-----------------------------------------------------------------------------
(* Somebody who reads the History tab.                                      *)

BarReads == /\ loading # None => loading = route
            /\ listing # None => listing = route
            /\ loading = None /\ barDoc # None => barDoc.id = route
            /\ op.st # "idle" => barDoc = None \/ barDoc.id = route
            /\ more \subseteq {route}
            /\ more # {} => loading = None /\ listing = None /\ op.st = "idle"
            /\ listing = None => rows \subseteq {route}

LEMMA BarReadsInit == Bar!Init => BarReads
  BY BarAssumption DEF Bar!Init, BarReads, Bar!NoOp, Bar!Assumptions

LEMMA BarReadsTrue == BarReads => Bar!ShownIsNamed /\ Bar!RowsAreOfDocument
  BY DEF BarReads, Bar!ShownIsNamed, Bar!RowsAreOfDocument

LEMMA BarReadsStep ==
  BarInv /\ BarReads /\ ((Bar!Next /\ Bar!Reads) \/ UNCHANGED Bar!vars) => BarReads'
  <1> SUFFICES ASSUME BarInv, BarReads, (Bar!Next /\ Bar!Reads) \/ UNCHANGED Bar!vars
               PROVE BarReads'
    OBVIOUS
  <1>0. BarTypes /\ None \notin Docs /\ Bar!NoOp.st = "idle"
    BY BarAssumption, BarNoOp DEF Bar!Assumptions, BarInv
  <1> USE <1>0 DEF BarReads
  <1>1. ASSUME NEW d \in Docs, Bar!Navigate(d), Bar!Reads PROVE BarReads'
    BY <1>1 DEF Bar!Navigate, Bar!Load, Bar!Reads
  <1>2. CASE Bar!LoadAnswer /\ Bar!Reads
    BY <1>2 DEF Bar!LoadAnswer, Bar!Reads
  <1>3. CASE Bar!LoadFails /\ Bar!Reads
    BY <1>3 DEF Bar!LoadFails, Bar!Reads
  <1>4. ASSUME NEW ok \in BOOLEAN, Bar!ListAnswer(ok), Bar!Reads PROVE BarReads'
    BY <1>4 DEF Bar!ListAnswer, Bar!Reads
  <1>5. CASE Bar!MoreRows /\ Bar!Reads
    BY <1>5 DEF Bar!MoreRows, Bar!Reads
  <1>6. ASSUME NEW ok \in BOOLEAN, NEW d \in Docs, Bar!MoreAnswer(d, ok), Bar!Reads
        PROVE BarReads'
    BY <1>6 DEF Bar!MoreAnswer, Bar!Reads
  <1>7. CASE Bar!Select /\ Bar!Reads
    BY <1>7 DEF Bar!Select, Bar!Reads
  <1>8. ASSUME NEW kind \in {"pages", "documents"}, Bar!Run(kind), Bar!Reads PROVE BarReads'
    BY <1>8 DEF Bar!Run, Bar!Dispatch, Bar!Reads
  <1>9. CASE Bar!AskDelete /\ Bar!Reads
    BY <1>9 DEF Bar!AskDelete, Bar!Reads
  <1>10. ASSUME NEW yes \in BOOLEAN, Bar!AnswerDelete(yes), Bar!Reads PROVE BarReads'
    BY <1>10 DEF Bar!AnswerDelete, Bar!Dispatch, Bar!Reads
  <1>11. CASE (Bar!UndoLastChange \/ Bar!RedoLastChange) /\ Bar!Reads
    BY <1>11 DEF Bar!UndoLastChange, Bar!RedoLastChange, Bar!StepVersion, Bar!Revert, Bar!Reads
  <1>12. ASSUME NEW n \in 1..DocVersions, Bar!RevertTo(n), Bar!Reads PROVE BarReads'
    BY <1>12 DEF Bar!RevertTo, Bar!Revert, Bar!Reads
  <1>13. CASE Bar!JobWorks /\ Bar!Reads
    BY <1>13 DEF Bar!JobWorks, Bar!Reads
  <1>14. ASSUME NEW st \in {"conflict", "failed"}, Bar!JobRefused(st), Bar!Reads PROVE BarReads'
    BY <1>14 DEF Bar!JobRefused, Bar!Reads
  <1>15. ASSUME NEW d \in Docs, Bar!OtherTab(d), Bar!Reads PROVE BarReads'
    BY <1>15 DEF Bar!OtherTab, Bar!Reads
  <1>16. CASE Bar!OpSucceeded /\ Bar!Reads
    <2>1. Bar!Adopted = None \/ Bar!Adopted.id = route
      <3>1. barDoc = None \/ barDoc.id = route
        BY <1>16 DEF Bar!OpSucceeded
      <3> QED
        BY <3>1 DEF Bar!Adopted, BarTypes, Bar!At
    <2> QED
      BY <1>16, <2>1 DEF Bar!OpSucceeded, Bar!Reload, Bar!Load, Bar!Reads
  <1>17. ASSUME NEW d \in Docs, Bar!DocumentsMade(d), Bar!Reads PROVE BarReads'
    BY <1>17 DEF Bar!DocumentsMade, Bar!Load, Bar!Reads
  <1>18. CASE Bar!HandleFailure /\ Bar!Reads
    BY <1>18 DEF Bar!HandleFailure, Bar!Reload, Bar!Load, Bar!Reads
  <1>19. CASE UNCHANGED Bar!vars
    BY <1>19 DEF Bar!vars
  <1> QED
    BY <1>1, <1>2, <1>3, <1>4, <1>5, <1>6, <1>7, <1>8, <1>9, <1>10, <1>11, <1>12, <1>13,
       <1>14, <1>15, <1>16, <1>17, <1>18, <1>19 DEF Bar!Next, Bar!Bar, Bar!Panel

-----------------------------------------------------------------------------
(* The edit panel.                                                          *)

\* What may be staged against a version: on a page, an edit of that page and version.
Stagings(v) == {f \in [Pages -> Edit!Place \cup {None}] :
                  \A p \in Pages : f[p] # None => f[p] = [page |-> p, of |-> v]}
EditAt == Edit!Place \cup {None} \cup [Pages -> Edit!Place \cup {None}]
         \cup [of : 0..MaxVersion, query : Queries \cup {None}]
EditJob == [st : {"idle", "sent", "succeeded", "conflict", "failed"},
            kind : {"none", "edit_text", "add_text", "on_page", "on_document", "preview",
                    "replace"},
            base : 0..MaxVersion, at : EditAt, query : Queries \cup {None}]

\* What is read, cached or asked for is of the version the panel shows.
EditRead == /\ head \in Edit!Versions /\ editSeen \in Edit!Versions /\ editPage \in Pages
            /\ cache \in [Pages -> {0, editSeen}]
            /\ editAsks \subseteq [page : Pages, of : {editSeen}]
\* So is what is staged, undone or to be redone.
EditPast == /\ staged \in Stagings(editSeen)
            /\ editPast \in Seq(Stagings(editSeen)) /\ editFuture \in Seq(Stagings(editSeen))
            /\ Len(editPast) + Len(editFuture) <= Limit
EditOpen == /\ editPicked \in Edit!Place \cup {None} /\ editAsked \in Edit!Place \cup {None}
            /\ editor # None => editor \in [kind : {"block", "new"},
                                            at : {[page |-> editPage, of |-> editSeen]}]
\* One operation at most is under way, and on what the panel shows.
EditAlone(s) == /\ editBusy /\ jobs[s].base = editSeen
                /\ \A r \in Edit!Slots : jobs[r].st # "idle" => r = s
                /\ jobs[s].kind = "preview" => jobs[s].query = held.query
                /\ jobs[s].st = "succeeded" /\ jobs[s].kind # "preview" => editSeen < MaxVersion
                /\ jobs[s].st = "sent" /\ jobs[s].kind = "replace"
                   => jobs[s].at = [of |-> jobs[s].base, query |-> jobs[s].query]
EditJobs == /\ jobs \in [Edit!Slots -> EditJob] /\ editBusy \in BOOLEAN
            /\ \A s \in Edit!Slots : jobs[s].st # "idle" => EditAlone(s)
\* A report held is of that version, and for the search it was made with.
EditHeld == /\ query \in Queries
            /\ held \in [of : 0..MaxVersion, of_query : Queries \cup {None},
                         query : Queries \cup {None}]
            /\ held.of # 0 => held.of = editSeen /\ held.of_query = held.query
EditInv == EditRead /\ EditPast /\ EditOpen /\ EditJobs /\ EditHeld

LEMMA EditInit == Edit!Init => EditInv
  <1> SUFFICES ASSUME Edit!Init PROVE EditInv
    OBVIOUS
  <1>0. 1 \in Edit!Versions /\ Limit \in Nat /\ 0 \in 0..MaxVersion
    BY EditAssumption DEF Edit!Assumptions, Edit!Versions
  <1>1. EditRead
    BY <1>0 DEF Edit!Init, EditRead
  <1>2. EditPast
    <2>1. staged \in Stagings(editSeen)
      BY DEF Edit!Init, Edit!NoEdits, Stagings
    <2>2. editPast = <<>> /\ editFuture = <<>>
      BY DEF Edit!Init
    <2> QED
      BY <1>0, <2>1, <2>2 DEF EditPast
  <1>3. EditOpen
    BY DEF Edit!Init, EditOpen
  <1>4. EditJobs
    <2>1. Edit!NoJob \in EditJob
      BY <1>0 DEF Edit!NoJob, EditJob, EditAt, Edit!Versions
    <2> QED
      BY <2>1 DEF Edit!Init, EditJobs, Edit!NoJob
  <1>5. EditHeld
    BY <1>0 DEF Edit!Init, EditHeld, Edit!NoReport, Edit!Versions
  <1> QED
    BY <1>1, <1>2, <1>3, <1>4, <1>5 DEF EditInv

\* Reading, undoing: what the panel shows stays.
LEMMA EditSame ==
  ASSUME EditInv, UNCHANGED <<editSeen, jobs, editBusy, held, query>>
  PROVE  EditJobs' /\ EditHeld'
  <1>1. \A s \in Edit!Slots : EditAlone(s)' <=> EditAlone(s)
    BY DEF EditAlone
  <1>2. EditJobs'
    BY <1>1 DEF EditInv, EditJobs
  <1>3. EditHeld'
    BY DEF EditInv, EditHeld
  <1> QED
    BY <1>2, <1>3
LEMMA EditUnread ==
  ASSUME EditInv, UNCHANGED <<head, editSeen, editPage, cache, editAsks>>
  PROVE  EditRead'
  BY DEF EditInv, EditRead
LEMMA EditUnstaged ==
  ASSUME EditInv, UNCHANGED <<editSeen, staged, editPast, editFuture>>
  PROVE  EditPast'
  BY DEF EditInv, EditPast
LEMMA EditUnopened ==
  ASSUME EditInv, UNCHANGED <<editPage, editSeen, editPicked, editAsked, editor>>
  PROVE  EditOpen'
  BY DEF EditInv, EditOpen

LEMMA EditReading ==
  ASSUME EditInv, Edit!Reading, editPage' # editPage => Edit!Calm
  PROVE  EditInv'
  <1> USE EditAssumption DEF Edit!Assumptions
  <1>1. UNCHANGED <<editSeen, jobs, editBusy, held, query, staged, editPast, editFuture,
                    editPicked, editAsked, editor>>
    BY DEF Edit!Reading, Edit!TurnPage, Edit!Answer, Edit!AnswerFails
  <1>2. EditOpen'
    <2>1. CASE editPage' = editPage
      BY <1>1, <2>1, EditUnopened
    <2>2. CASE editPage' # editPage
      BY <1>1, <2>2 DEF Edit!Calm, EditOpen, EditInv
    <2> QED
      BY <2>1, <2>2
  <1>3. EditRead'
    <2>0. EditRead
      BY DEF EditInv
    <2>1. CASE \E p \in Pages : Edit!TurnPage(p)
      BY <2>0, <2>1 DEF Edit!TurnPage, Edit!Fetch, EditRead
    <2>2. CASE \E a \in editAsks : Edit!Answer(a)
      <3>1. PICK a \in editAsks : Edit!Answer(a)
        BY <2>2
      <3>2. a \in [page : Pages, of : {editSeen}]
        BY <2>0 DEF EditRead
      <3>3. cache' = [cache EXCEPT ![a.page] = editSeen] /\ editAsks' \subseteq editAsks
            /\ UNCHANGED <<head, editSeen, editPage>>
        BY <3>1, <3>2 DEF Edit!Answer
      <3>4. cache' \in [Pages -> {0, editSeen}]
        BY <2>0, <3>3 DEF EditRead
      <3> QED
        BY <2>0, <3>3, <3>4 DEF EditRead
    <2>3. CASE \E a \in editAsks : Edit!AnswerFails(a)
      BY <2>0, <2>3 DEF Edit!AnswerFails, EditRead
    <2> QED
      BY <2>1, <2>2, <2>3 DEF Edit!Reading
  <1> QED
    BY <1>1, <1>2, <1>3, EditSame, EditUnstaged DEF EditInv
LEMMA EditRemembers ==
  ASSUME EditInv, Edit!Remember
  PROVE  /\ editPast' \in Seq(Stagings(editSeen)) /\ editFuture' \in Seq(Stagings(editSeen))
         /\ Len(editPast') + Len(editFuture') <= Limit
  <1>0. Limit \in Nat \ {0} /\ editPast \in Seq(Stagings(editSeen))
        /\ staged \in Stagings(editSeen)
        /\ Len(editPast) + Len(editFuture) <= Limit /\ Len(editPast) \in Nat
        /\ Len(editFuture) \in Nat
    BY EditAssumption DEF Edit!Assumptions, EditInv, EditPast
  <1>1. PICK longer : longer = Append(editPast, staged)
    OBVIOUS
  <1>2. longer \in Seq(Stagings(editSeen)) /\ Len(longer) = Len(editPast) + 1 /\ longer # <<>>
    BY <1>0, <1>1, Pushes
  <1>3. editPast' = (IF Len(longer) > Limit THEN Tail(longer) ELSE longer) /\ editFuture' = <<>>
    BY <1>1 DEF Edit!Remember
  <1>4. editPast' \in Seq(Stagings(editSeen)) /\ Len(editPast') <= Limit /\ Len(editPast') \in Nat
    <2>1. CASE Len(longer) > Limit
      <3>1. editPast' = Tail(longer)
        BY <1>3, <2>1
      <3>2. Tail(longer) \in Seq(Stagings(editSeen)) /\ Len(Tail(longer)) = Len(longer) - 1
        BY ONLY <1>2, Shortens
      <3> QED
        BY <1>0, <1>2, <3>1, <3>2
    <2>2. CASE ~(Len(longer) > Limit)
      BY <1>0, <1>2, <1>3, <2>2
    <2> QED
      BY <2>1, <2>2
  <1> QED
    BY <1>0, <1>3, <1>4

LEMMA EditStaging ==
  ASSUME EditInv, Edit!Staging
  PROVE  EditInv'
  <1>1. UNCHANGED <<head, editSeen, editPage, cache, editAsks, jobs, editBusy, held, query,
                    editPicked, editAsked>>
    BY DEF Edit!Staging, Edit!OpenEditor, Edit!CancelEditor, Edit!DiscardEdit, Edit!Undo,
       Edit!Redo, Edit!StageEdit
  <1>2. EditOpen'
    <2>1. CASE Edit!OpenEditor
      <3>1. cache[editPage] = editSeen
        BY <2>1 DEF Edit!OpenEditor, EditInv, EditRead
      <3> QED
        BY <1>1, <2>1, <3>1 DEF Edit!OpenEditor, Edit!Here, EditInv, EditOpen
    <2>2. CASE editor' = None \/ UNCHANGED editor
      BY <1>1, <2>2 DEF EditInv, EditOpen
    <2> QED
      BY <2>1, <2>2 DEF Edit!Staging, Edit!CancelEditor, Edit!DiscardEdit, Edit!Undo, Edit!Redo,
         Edit!StageEdit
  <1>3. EditPast'
    <2>0. /\ staged \in Stagings(editSeen) /\ editPast \in Seq(Stagings(editSeen))
          /\ editFuture \in Seq(Stagings(editSeen)) /\ Len(editPast) + Len(editFuture) <= Limit
          /\ editPage \in Pages /\ editSeen \in Edit!Versions /\ Limit \in Nat
          /\ Len(editPast) \in Nat /\ Len(editFuture) \in Nat
      BY EditAssumption DEF EditInv, EditPast, EditRead, Edit!Assumptions
    <2>1. CASE UNCHANGED <<staged, editPast, editFuture>>
      BY <1>1, <2>1, EditUnstaged
    <2>2. CASE Edit!Remember /\ \E e \in {[page |-> editPage, of |-> editSeen], None} :
                             staged' = [staged EXCEPT ![editPage] = e]
      <3>1. staged' \in Stagings(editSeen)
        BY <2>0, <2>2 DEF Stagings, Edit!Place
      <3> QED
        BY <1>1, <2>2, <3>1, EditRemembers DEF EditPast
    <2>3. CASE Edit!Undo
      <3>1. editPast # <<>> /\ staged' = editPast[Len(editPast)]
            /\ editPast' = SubSeq(editPast, 1, Len(editPast) - 1)
            /\ editFuture' = Append(editFuture, staged)
        BY <2>3 DEF Edit!Undo
      <3>2. staged' \in Stagings(editSeen) /\ editPast' \in Seq(Stagings(editSeen))
            /\ Len(editPast') = Len(editPast) - 1
        BY ONLY <2>0, <3>1, Pops
      <3>3. editFuture' \in Seq(Stagings(editSeen)) /\ Len(editFuture') = Len(editFuture) + 1
        BY ONLY <2>0, <3>1, Pushes
      <3> QED
        BY <1>1, <2>0, <3>2, <3>3 DEF EditPast
    <2>4. CASE Edit!Redo
      <3>1. editFuture # <<>> /\ staged' = editFuture[Len(editFuture)]
            /\ editFuture' = SubSeq(editFuture, 1, Len(editFuture) - 1)
            /\ editPast' = Append(editPast, staged)
        BY <2>4 DEF Edit!Redo
      <3>2. staged' \in Stagings(editSeen) /\ editFuture' \in Seq(Stagings(editSeen))
            /\ Len(editFuture') = Len(editFuture) - 1
        BY ONLY <2>0, <3>1, Pops
      <3>3. editPast' \in Seq(Stagings(editSeen)) /\ Len(editPast') = Len(editPast) + 1
        BY ONLY <2>0, <3>1, Pushes
      <3> QED
        BY <1>1, <2>0, <3>2, <3>3 DEF EditPast
    <2>5. CASE \E changed \in BOOLEAN : Edit!StageEdit(changed)
      <3>1. editor.at = [page |-> editPage, of |-> editSeen]
        BY <2>5 DEF Edit!StageEdit, EditInv, EditOpen
      <3> QED
        BY <2>2, <2>5, <3>1 DEF Edit!StageEdit
    <2> QED
      BY <2>1, <2>2, <2>3, <2>4, <2>5 DEF Edit!Staging, Edit!OpenEditor, Edit!CancelEditor,
         Edit!DiscardEdit
  <1> QED
    BY <1>1, <1>2, <1>3, EditSame, EditUnread DEF EditInv

\* An operation is sent with the version shown, and nothing else runs by then.
LEMMA EditSent ==
  ASSUME EditInv, ~editBusy, UNCHANGED <<editSeen, query>>,
         NEW kind \in {"edit_text", "add_text", "on_page", "on_document", "preview", "replace"},
         NEW at \in EditAt, NEW q \in Queries \cup {None}, Edit!Sent(kind, at, q),
         kind = "preview" => held'.query = q,
         kind = "replace" => at = [of |-> editSeen, query |-> q]
  PROVE  EditJobs'
  <1>0. /\ jobs \in [Edit!Slots -> EditJob] /\ editSeen \in Edit!Versions
        /\ editSeen \in 0..MaxVersion
        /\ \A s \in Edit!Slots : jobs[s].st = "idle"
    <2>1. jobs \in [Edit!Slots -> EditJob] /\ \A s \in Edit!Slots : jobs[s].st = "idle"
      BY DEF EditInv, EditJobs, EditAlone
    <2>2. editSeen \in Edit!Versions /\ editSeen \in 0..MaxVersion
      BY EditAssumption DEF Edit!Assumptions, EditInv, EditRead, Edit!Versions
    <2> QED
      BY <2>1, <2>2
  <1>1. PICK s \in Edit!Slots :
          jobs' = [jobs EXCEPT ![s] = [st |-> "sent", kind |-> kind, base |-> editSeen,
                                       at |-> at, query |-> q]]
    BY DEF Edit!Sent
  <1>2. PICK j : j = [st |-> "sent", kind |-> kind, base |-> editSeen, at |-> at, query |-> q]
    OBVIOUS
  <1>3. j \in EditJob
    BY <1>0, <1>2 DEF EditJob
  <1>4. jobs' \in [Edit!Slots -> EditJob] /\ jobs'[s] = j /\ editBusy'
    BY <1>0, <1>1, <1>2, <1>3 DEF Edit!Sent
  <1>5. \A r \in Edit!Slots : jobs'[r].st # "idle" => r = s
    BY <1>0, <1>1
  <1>6. EditAlone(s)'
    BY <1>2, <1>4, <1>5 DEF EditAlone
  <1>7. \A r \in Edit!Slots : jobs'[r].st # "idle" => EditAlone(r)'
    BY <1>5, <1>6
  <1>8. editBusy' \in BOOLEAN
    BY DEF Edit!Sent
  <1> QED
    BY <1>4, <1>7, <1>8 DEF EditJobs

LEMMA EditPlaceAt == Edit!Place \subseteq EditAt /\ None \in EditAt
  BY DEF EditAt
LEMMA EditSending ==
  ASSUME EditInv, Edit!Sending, jobs' # jobs => ~editBusy
  PROVE  EditInv'
  <1>1. UNCHANGED <<head, editSeen, editPage, cache, editAsks, held, query, staged, editPast,
                    editFuture>>
    BY DEF Edit!Sending, Edit!Save, Edit!Pick, Edit!DrawTextBox, Edit!CommitNewText, Edit!OnPage,
       Edit!OnDocument, Edit!ReplaceImage,
           Edit!AskDelete, Edit!AnswerDelete
  <1>2. EditJobs'
    <2>1. CASE UNCHANGED <<jobs, editBusy>>
      BY <1>1, <2>1, EditSame
    <2>2. CASE /\ ~editBusy
               /\ \E at \in EditAt, kind \in {"edit_text", "add_text", "on_page", "on_document"} :
                     Edit!Sent(kind, at, None)
      <3>1. PICK at \in EditAt, kind \in {"edit_text", "add_text", "on_page", "on_document"} :
                   Edit!Sent(kind, at, None)
        BY <2>2
      <3>2. None \in Queries \cup {None} /\ kind # "preview" /\ kind # "replace"
        OBVIOUS
      <3> QED
        BY <1>1, <2>2, <3>1, <3>2, EditSent
    <2>3. jobs' = jobs \/ ~editBusy
      OBVIOUS
    <2>4. ASSUME NEW kind, NEW at, Edit!Sent(kind, at, None)
          PROVE  jobs' # jobs
      BY <2>4 DEF Edit!Sent, EditInv, EditJobs
    <2>5. editPage \in Pages /\ editSeen \in Edit!Versions /\ staged \in EditAt
      BY DEF EditInv, EditRead, EditPast, Stagings, EditAt
    <2>6. \A at \in Edit!Place : [at EXCEPT !.page = editPage] \in EditAt
      BY <2>5 DEF Edit!Place, EditAt
    <2>7. CASE Edit!Save
      BY <2>2, <2>3, <2>4, <2>5, <2>7 DEF Edit!Save, Edit!CommitEdits
    <2>8. CASE Edit!CommitNewText
      <3>1. editor.at \in Edit!Place
        BY <2>5, <2>8 DEF Edit!CommitNewText, EditInv, EditOpen, Edit!Place
      <3> QED
        BY <2>2, <2>3, <2>4, <2>6, <2>8, <3>1 DEF Edit!CommitNewText
    <2>9. CASE Edit!OnPage
      <3>1. [page |-> editPage, of |-> editSeen] \in Edit!Place
        BY <2>5 DEF Edit!Place
      <3>2. PICK at : at = [[page |-> editPage, of |-> editSeen] EXCEPT !.page = editPage]
        OBVIOUS
      <3>3. at \in EditAt /\ Edit!Sent("on_page", at, None)
        BY <2>6, <2>9, <3>1, <3>2 DEF Edit!OnPage, Edit!RunOp
      <3> QED
        BY <2>2, <2>3, <2>4, <3>3
    <2>10. CASE Edit!OnDocument
      BY <2>2, <2>3, <2>4, <2>10, EditPlaceAt DEF Edit!OnDocument
    <2>11. ASSUME NEW at \in Edit!Place, Edit!RunOp(at)
           PROVE  EditJobs'
      BY <2>2, <2>3, <2>4, <2>6, <2>11 DEF Edit!RunOp
    <2>12. CASE Edit!ReplaceImage
      BY <2>11, <2>12 DEF Edit!ReplaceImage, EditInv, EditOpen
    <2>13. CASE \E yes \in BOOLEAN : Edit!AnswerDelete(yes)
      BY <2>1, <2>11, <2>13 DEF Edit!AnswerDelete, EditInv, EditOpen
    <2> QED
      BY <2>1, <2>7, <2>8, <2>9, <2>10, <2>12, <2>13
         DEF Edit!Sending, Edit!Pick, Edit!DrawTextBox, Edit!AskDelete
  <1>3. EditOpen'
    <2>1. editPicked' \in Edit!Place \cup {None} /\ editAsked' \in Edit!Place \cup {None}
      <3>1. Edit!Pick => editPicked' \in Edit!Place
        <4>1. cache[editPage] # 0 => cache[editPage] \in Edit!Versions
          BY DEF EditInv, EditRead
        <4> QED
          BY <4>1 DEF Edit!Pick, Edit!Here, Edit!Place, EditInv, EditRead
      <3> QED
        BY <3>1 DEF Edit!Sending, Edit!Save, Edit!Pick, Edit!DrawTextBox, Edit!CommitNewText,
           Edit!OnPage, Edit!OnDocument,
                    Edit!ReplaceImage, Edit!AskDelete, Edit!AnswerDelete, EditInv, EditOpen
    <2>2. Edit!DrawTextBox
             => editor' = [kind |-> "new", at |-> [page |-> editPage, of |-> editSeen]]
      BY DEF Edit!DrawTextBox
    <2>3. Edit!DrawTextBox \/ editor' = None \/ UNCHANGED editor
      BY DEF Edit!Sending, Edit!Save, Edit!Pick, Edit!CommitNewText, Edit!OnPage,
         Edit!OnDocument, Edit!ReplaceImage, Edit!AskDelete,
             Edit!AnswerDelete
    <2> QED
      BY <1>1, <2>1, <2>2, <2>3 DEF EditInv, EditOpen
  <1>4. EditHeld'
    BY <1>1 DEF EditInv, EditHeld
  <1> QED
    BY <1>1, <1>2, <1>3, <1>4, EditUnread, EditUnstaged DEF EditInv

LEMMA EditFinding ==
  ASSUME EditInv, Edit!Finding
  PROVE  EditInv'
  <1>1. UNCHANGED <<head, editSeen, editPage, cache, editAsks, staged, editPast, editFuture,
                    editor, editPicked, editAsked>>
    BY DEF Edit!Finding, Edit!Preview, Edit!Execute, Edit!SetQuery
  <1>0. /\ query \in Queries
        /\ held \in [of : 0..MaxVersion, of_query : Queries \cup {None},
                     query : Queries \cup {None}]
        /\ held.of # 0 => held.of = editSeen /\ held.of_query = held.query
        /\ 0 \in 0..MaxVersion /\ None \in EditAt
    BY EditAssumption DEF Edit!Assumptions, EditInv, EditHeld, EditAt
  <1>2. ASSUME held'.query = held.query, UNCHANGED <<jobs, editBusy>>
        PROVE  EditJobs'
    <2>1. \A s \in Edit!Slots : EditAlone(s)' <=> EditAlone(s)
      BY <1>1, <1>2 DEF EditAlone
    <2> QED
      BY <1>2, <2>1 DEF EditInv, EditJobs
  <1>3. ASSUME held' = [held EXCEPT !.of = 0, !.of_query = None], query' \in Queries
        PROVE  EditHeld' /\ held'.query = held.query
    BY <1>0, <1>3 DEF EditHeld
  <1>4. EditJobs' /\ EditHeld'
    <2>1. CASE \E q \in Queries : Edit!SetQuery(q)
      BY <1>2, <1>3, <2>1 DEF Edit!SetQuery
    <2>2. CASE Edit!Preview
      <3>1. held' = [of |-> 0, of_query |-> None, query |-> query] /\ UNCHANGED query
        BY <2>2 DEF Edit!Preview
      <3>2. EditHeld'
        BY <1>0, <3>1 DEF EditHeld
      <3>3. EditJobs'
        BY <1>0, <1>1, <2>2, <3>1, EditSent DEF Edit!Preview, Edit!DryRun
      <3> QED
        BY <3>2, <3>3
    <2>3. CASE Edit!Execute /\ held.query = query
      <3>1. UNCHANGED <<held, query>> /\ ~editBusy /\ Edit!ReplaceKept /\ held.of # 0
        BY <2>3 DEF Edit!Execute
      <3>2. PICK at : at = [of |-> held.of, query |-> held.of_query]
        OBVIOUS
      <3>3. at \in EditAt /\ at = [of |-> editSeen, query |-> query]
        BY <1>0, <2>3, <3>1, <3>2 DEF EditAt
      <3>4. Edit!Sent("replace", at, query)
        BY <3>1, <3>2 DEF Edit!ReplaceKept
      <3>5. EditJobs'
        BY <1>0, <1>1, <3>1, <3>3, <3>4, EditSent
      <3>6. EditHeld'
        BY <1>1, <3>1 DEF EditInv, EditHeld
      <3> QED
        BY <3>5, <3>6
    <2>4. CASE Edit!Execute /\ held.query # query
      BY <1>0, <1>2, <1>3, <2>4 DEF Edit!Execute
    <2> QED
      BY <2>1, <2>2, <2>3, <2>4 DEF Edit!Finding
  <1> QED
    BY <1>1, <1>4, EditUnread, EditUnstaged, EditUnopened DEF EditInv

\* The last job's end leaves no other.
LEMMA EditDone ==
  ASSUME EditInv, NEW s \in Edit!Slots, jobs[s].st # "idle",
         jobs' = [jobs EXCEPT ![s] = Edit!NoJob], editBusy' = FALSE
  PROVE  EditJobs'
  <1>1. Edit!NoJob \in EditJob
    BY EditAssumption DEF Edit!Assumptions, Edit!NoJob, EditJob, EditAt, Edit!Versions
  <1>2. jobs' \in [Edit!Slots -> EditJob]
    BY <1>1 DEF EditInv, EditJobs
  <1>3. \A r \in Edit!Slots : jobs'[r].st = "idle"
    BY DEF EditInv, EditJobs, EditAlone, Edit!NoJob
  <1> QED
    BY <1>2, <1>3 DEF EditJobs

LEMMA EditSees ==
  ASSUME EditInv, NEW v \in Edit!Versions, Edit!See(v), Edit!Calm, editAsks = {},
         UNCHANGED <<editPage, editor, editPicked, editAsked, query>>, head' \in Edit!Versions
  PROVE  EditRead' /\ EditPast' /\ EditOpen' /\ EditHeld'
  <1>1. /\ editSeen' = v /\ cache' = [p \in Pages |-> 0] /\ staged' = Edit!NoEdits
        /\ editPast' = <<>> /\ editFuture' = <<>> /\ held' = Edit!NoReport
        /\ editAsks' = {[page |-> editPage, of |-> v]}
    BY DEF Edit!See, Edit!Forget
  <1>2. EditRead'
    BY <1>1 DEF EditInv, EditRead
  <1>3. EditPast'
    <2>1. staged' \in Stagings(editSeen')
      BY <1>1 DEF Edit!NoEdits, Stagings
    <2>2. editPast' \in Seq(Stagings(editSeen')) /\ editFuture' \in Seq(Stagings(editSeen'))
      BY <1>1
    <2>3. Len(editPast') + Len(editFuture') <= Limit
      BY <1>1, EditAssumption DEF Edit!Assumptions
    <2> QED
      BY <2>1, <2>2, <2>3 DEF EditPast
  <1>4. EditOpen'
    BY DEF EditInv, EditOpen, Edit!Calm
  <1>5. EditHeld'
    BY <1>1, EditAssumption DEF Edit!Assumptions, EditInv, EditHeld, Edit!NoReport
  <1> QED
    BY <1>2, <1>3, <1>4, <1>5

LEMMA EditServer ==
  ASSUME EditInv, Edit!Server, editSeen' # editSeen => Edit!Calm /\ editAsks = {}
  PROVE  EditInv'
  <1>0. /\ head \in Edit!Versions /\ editSeen \in Edit!Versions /\ editPage \in Pages
        /\ MaxVersion \in Nat
        /\ jobs \in [Edit!Slots -> EditJob]
        /\ \A s \in Edit!Slots : jobs[s].st # "idle" => EditAlone(s)
    BY EditAssumption DEF Edit!Assumptions, EditInv, EditRead, EditJobs
  <1>1. ASSUME NEW s \in Edit!Slots, Edit!JobWorks(s)
        PROVE  EditInv'
    <2>1. /\ UNCHANGED <<editSeen, editPage, cache, editAsks, staged, editPast, editFuture,
                         editor, editPicked, editAsked,
                         query, held, editBusy>>
          /\ jobs[s].st = "sent" /\ jobs' = [jobs EXCEPT ![s].st = "succeeded"]
          /\ jobs[s].base = head
          /\ jobs[s].kind # "preview" => head < MaxVersion
      BY <1>1 DEF Edit!JobWorks
    <2>2. head' \in Edit!Versions
      BY <1>0, <1>1 DEF Edit!JobWorks, Edit!Versions
    <2>3. PICK k : k = [jobs[s] EXCEPT !.st = "succeeded"]
      OBVIOUS
    <2>4. jobs[s] \in EditJob /\ EditAlone(s)
      BY <1>0, <2>1
    <2>5. k \in EditJob /\ k.st = "succeeded" /\ k.base = jobs[s].base /\ k.kind = jobs[s].kind
          /\ k.query = jobs[s].query
      BY <2>3, <2>4 DEF EditJob
    <2>6. jobs' = [jobs EXCEPT ![s] = k]
      BY <1>0, <2>1, <2>3
    <2>7. jobs' \in [Edit!Slots -> EditJob] /\ jobs'[s] = k
          /\ \A r \in Edit!Slots : r # s => jobs'[r] = jobs[r]
      BY ONLY <1>0, <2>5, <2>6, s \in Edit!Slots
    <2>8. \A r \in Edit!Slots : jobs'[r].st # "idle" => r = s
      BY <2>1, <2>4, <2>7 DEF EditAlone
    <2>9. EditAlone(s)'
      BY <2>1, <2>4, <2>5, <2>7, <2>8 DEF EditAlone
    <2>10. EditJobs'
      BY <2>1, <2>7, <2>8, <2>9 DEF EditInv, EditJobs
    <2>11. EditRead'
      BY <2>1, <2>2 DEF EditInv, EditRead
    <2>12. EditHeld'
      BY <2>1 DEF EditInv, EditHeld
    <2> QED
      BY <2>1, <2>10, <2>11, <2>12, EditUnstaged, EditUnopened DEF EditInv
  <1>2. ASSUME NEW s \in Edit!Slots, NEW st \in {"conflict", "failed"}, Edit!JobRefused(s, st)
        PROVE  EditInv'
    <2>1. /\ UNCHANGED <<head, editSeen, editPage, cache, editAsks, staged, editPast, editFuture,
                         editor, editPicked,
                         editAsked, query, held, editBusy>>
          /\ jobs[s].st = "sent" /\ jobs' = [jobs EXCEPT ![s].st = st]
      BY <1>2 DEF Edit!JobRefused
    <2>3. PICK k : k = [jobs[s] EXCEPT !.st = st]
      OBVIOUS
    <2>4. jobs[s] \in EditJob /\ EditAlone(s)
      BY <1>0, <2>1
    <2>5. k \in EditJob /\ k.st = st /\ k.base = jobs[s].base /\ k.kind = jobs[s].kind
          /\ k.query = jobs[s].query
      BY <2>3, <2>4 DEF EditJob
    <2>6. jobs' = [jobs EXCEPT ![s] = k]
      BY <1>0, <2>1, <2>3
    <2>7. jobs' \in [Edit!Slots -> EditJob] /\ jobs'[s] = k
          /\ \A r \in Edit!Slots : r # s => jobs'[r] = jobs[r]
      BY ONLY <1>0, <2>5, <2>6, s \in Edit!Slots
    <2>8. \A r \in Edit!Slots : jobs'[r].st # "idle" => r = s
      BY <2>1, <2>4, <2>7 DEF EditAlone
    <2>9. EditAlone(s)'
      BY <2>1, <2>4, <2>5, <2>7, <2>8 DEF EditAlone
    <2>10. EditJobs'
      BY <2>1, <2>7, <2>8, <2>9 DEF EditInv, EditJobs
    <2>12. EditHeld'
      BY <2>1 DEF EditInv, EditHeld
    <2> QED
      BY <2>1, <2>10, <2>12, EditUnread, EditUnstaged, EditUnopened DEF EditInv
  <1>3. ASSUME NEW s \in Edit!Slots, Edit!OnJob(s)
        PROVE  EditInv'
    <2>1. EditJobs'
      BY <1>3, EditDone DEF Edit!OnJob
    <2>2. editSeen + 1 \in Edit!Versions /\ jobs[s].base = editSeen
      <3>1. EditAlone(s) /\ jobs[s].st = "succeeded" /\ jobs[s].kind # "preview"
        BY <1>0, <1>3 DEF Edit!OnJob
      <3>2. editSeen < MaxVersion /\ jobs[s].base = editSeen
        BY <3>1 DEF EditAlone
      <3> QED
        BY <1>0, <3>2 DEF Edit!Versions
    <2>3. Edit!See(editSeen + 1) /\ UNCHANGED <<head, editPage, editor, editPicked, editAsked,
                                                query>>
      BY <1>3, <2>2 DEF Edit!OnJob
    <2>4. editSeen' = editSeen + 1
      BY <2>3 DEF Edit!See
    <2>5. Edit!Calm /\ editAsks = {}
      BY <1>0, <2>4 DEF Edit!Versions
    <2>6. EditRead' /\ EditPast' /\ EditOpen' /\ EditHeld'
      BY <1>0, <2>2, <2>3, <2>5, EditSees
    <2> QED
      BY <2>1, <2>6 DEF EditInv
  <1>4. ASSUME NEW s \in Edit!Slots, Edit!OnPreview(s)
        PROVE  EditInv'
    <2>1. EditJobs'
      BY <1>4, EditDone DEF Edit!OnPreview
    <2>2. /\ UNCHANGED <<head, editSeen, editPage, cache, editAsks, staged, editPast, editFuture,
                         editor, editPicked,
                         editAsked, query>>
          /\ held' = [held EXCEPT !.of = jobs[s].base, !.of_query = jobs[s].query]
      BY <1>4 DEF Edit!OnPreview
    <2>3. jobs[s].base = editSeen /\ jobs[s].query = held.query /\ jobs[s] \in EditJob
      BY <1>0, <1>4 DEF Edit!OnPreview, EditAlone
    <2>4. EditHeld'
      BY <2>2, <2>3 DEF EditInv, EditHeld, EditJob
    <2> QED
      BY <2>1, <2>2, <2>4, EditUnread, EditUnstaged, EditUnopened DEF EditInv
  <1>5. ASSUME NEW s \in Edit!Slots, Edit!OnFailure(s)
        PROVE  EditInv'
    <2>1. EditJobs' /\ UNCHANGED <<head, editPage, editor, editPicked, editAsked, query>>
      BY <1>5, EditDone DEF Edit!OnFailure
    <2>2. CASE UNCHANGED <<editSeen, cache, editAsks, staged, editPast, editFuture, held>>
      <3>1. EditHeld'
        BY <2>1, <2>2 DEF EditInv, EditHeld
      <3> QED
        BY <2>1, <2>2, <3>1, EditUnread, EditUnstaged, EditUnopened DEF EditInv
    <2>3. CASE Edit!See(head) /\ editSeen # head
      <3>1. Edit!Calm /\ editAsks = {}
        BY <2>3 DEF Edit!See
      <3> QED
        BY <1>0, <2>1, <2>3, <3>1, EditSees DEF EditInv
    <2> QED
      BY <1>5, <2>2, <2>3 DEF Edit!OnFailure
  <1>6. CASE Edit!OtherTab
    <2>1. UNCHANGED <<editSeen, editPage, cache, editAsks, staged, editPast, editFuture, editor,
                      editPicked, editAsked,
                      query, held, jobs, editBusy>> /\ head' = head + 1 /\ head < MaxVersion
      BY <1>6 DEF Edit!OtherTab
    <2>2. EditRead'
      BY <1>0, <2>1 DEF EditInv, EditRead, Edit!Versions
    <2> QED
      BY <2>1, <2>2, EditSame, EditUnstaged, EditUnopened DEF EditInv
  <1> QED
    BY <1>1, <1>2, <1>3, <1>4, <1>5, <1>6 DEF Edit!Server

LEMMA EditStep == EditInv /\ (Edit!OrderlyNext \/ UNCHANGED Edit!vars) => EditInv'
  <1>1. ASSUME EditInv, UNCHANGED Edit!vars PROVE EditInv'
    BY <1>1, EditSame, EditUnread, EditUnstaged, EditUnopened DEF EditInv, Edit!vars
  <1> QED
    BY <1>1, EditReading, EditStaging, EditSending, EditFinding, EditServer DEF Edit!OrderlyNext

LEMMA EditTypeOK == EditInv => Edit!TypeOK
  <1> SUFFICES ASSUME EditInv PROVE Edit!TypeOK
    OBVIOUS
  <1>0. Limit \in Nat /\ MaxVersion \in Nat
    BY EditAssumption DEF Edit!Assumptions
  <1>1. head \in Edit!Versions /\ editSeen \in Edit!Versions /\ editPage \in Pages
        /\ cache \in [Pages -> Edit!Versions \union {0}] /\ editAsks \subseteq Edit!Place
    BY DEF EditInv, EditRead, Edit!Place
  <1>2. staged \in [Pages -> Edit!Place \union {None}] /\ Len(editPast) <= Limit
        /\ Len(editFuture) <= Limit
    <2>1. Len(editPast) \in Nat /\ Len(editFuture) \in Nat
      BY DEF EditInv, EditPast
    <2> QED
      BY <1>0, <2>1 DEF EditInv, EditPast, Stagings
  <1>3. {editPicked, editAsked} \subseteq Edit!Place \union {None} /\ query \in Queries
        /\ held.of \in Edit!Versions \union {0} /\ editBusy \in BOOLEAN
    BY <1>0 DEF EditInv, EditOpen, EditHeld, EditJobs, Edit!Versions
  <1>4. \A s \in Edit!Slots : jobs[s].st \in {"idle", "sent", "succeeded", "conflict", "failed"}
    BY DEF EditInv, EditJobs, EditJob
  <1> QED
    BY <1>1, <1>2, <1>3, <1>4 DEF Edit!TypeOK

LEMMA EditIsTrue == EditInv => Edit!ReviewedIsReplaced /\ Edit!StagedWhereRead
  BY DEF EditInv, EditJobs, EditAlone, Edit!ReviewedIsReplaced, EditPast, Stagings,
     Edit!StagedWhereRead

-----------------------------------------------------------------------------
(* The overlay.                                                             *)

LEMMA DivIs == ASSUME NEW a \in Nat, NEW b \in Nat \ {0}
  PROVE /\ a \div b \in Nat /\ (a \div b) * b <= a /\ a < (a \div b) * b + b
  OBVIOUS
LEMMA Prod == ASSUME NEW a \in Nat, NEW b \in Nat, NEW c \in Nat, a <= b PROVE a * c <= b * c
  OBVIOUS
LEMMA Spread == ASSUME NEW a \in Nat, NEW b \in Nat PROVE (a + 1) * b = b * a + b
  OBVIOUS
LEMMA Scaled == ASSUME NEW a \in Nat, NEW b \in Nat \ {0}, NEW c \in Nat, a <= b
  PROVE (a * c) \div b \in Nat /\ (a * c) \div b <= c
  <1> DEFINE q == (a * c) \div b
  <1>1. a * c \in Nat /\ a * c <= b * c
    BY Prod
  <1>2. q \in Nat /\ q * b <= a * c
    BY <1>1, DivIs
  <1> HIDE DEF q
  <1>3. q * b <= c * b
    BY <1>1, <1>2
  <1>4. q <= c
    <2> SUFFICES ASSUME q >= c + 1 PROVE FALSE
      BY <1>2
    <2>1. (c + 1) * b <= q * b
      BY ONLY <1>2, q >= c + 1, c + 1 \in Nat, b \in Nat, Prod
    <2>2. (c + 1) * b = c * b + b
      OBVIOUS
    <2> QED
      BY <1>2, <1>3, <2>1, <2>2
  <1> QED BY <1>2, <1>4 DEF q

\* A rectangle of the page, which may have no area; and one that has.
OnPaper(r) == r \in Gesture!Rect /\ r.x + r.w <= N /\ r.y + r.h <= N
GestureFits(r) == r \in Gesture!Rect /\ Gesture!OnThePage(r)
LEMMA ClampIs ==
  ASSUME NEW v \in Int
  PROVE  Gesture!Clamp(v) \in 0..N /\ (v \in 0..N => Gesture!Clamp(v) = v)
         /\ (v < 0 => Gesture!Clamp(v) = 0)
  BY GestAssumption DEF Gesture!Assumptions, Gesture!Clamp, Gesture!Least, Gesture!Most

LEMMA NormalFits ==
  ASSUME NEW a, NEW b, a[1] \in Int, a[2] \in Int, b[1] \in Int, b[2] \in Int
  PROVE  OnPaper(Gesture!NormalizeRect(a, b))
  <1>0. N \in Nat
    BY GestAssumption DEF Gesture!Assumptions
  <1>1. PICK x, y : x = Gesture!Clamp(Gesture!Least(a[1], b[1]))
        /\ y = Gesture!Clamp(Gesture!Least(a[2], b[2]))
    OBVIOUS
  <1>2. x \in 0..N /\ y \in 0..N
    BY <1>1, ClampIs DEF Gesture!Least
  <1>3. PICK w, h : w = Gesture!Least(N - x, Gesture!Abs(a[1] - b[1]))
        /\ h = Gesture!Least(N - y, Gesture!Abs(a[2] - b[2]))
    OBVIOUS
  <1>4. w \in 0..N /\ h \in 0..N /\ x + w <= N /\ y + h <= N
    BY <1>0, <1>2, <1>3 DEF Gesture!Least, Gesture!Abs, Gesture!Most
  <1>5. Gesture!NormalizeRect(a, b) = [x |-> x, y |-> y, w |-> w, h |-> h]
    BY <1>1, <1>3 DEF Gesture!NormalizeRect
  <1> QED
    BY <1>2, <1>4, <1>5 DEF OnPaper, Gesture!Rect

LEMMA RectIs == ASSUME NEW r \in Gesture!Rect
  PROVE r = [x |-> r.x, y |-> r.y, w |-> r.w, h |-> r.h]
  BY DEF Gesture!Rect

LEMMA MovedFits ==
  ASSUME NEW r, GestureFits(r), NEW dx \in Int, NEW dy \in Int
  PROVE  GestureFits(Gesture!Moved(r, dx, dy))
  <1>0. N \in Nat /\ r \in Gesture!Rect /\ r.x \in 0..N /\ r.y \in 0..N /\ r.w \in 0..N
        /\ r.h \in 0..N
        /\ Gesture!OnThePage(r)
    BY GestAssumption DEF Gesture!Assumptions, GestureFits, Gesture!Rect
  <1>1. PICK x, y : x = Gesture!Clamp(Gesture!Least(r.x + dx, N - r.w))
        /\ y = Gesture!Clamp(Gesture!Least(r.y + dy, N - r.h))
    OBVIOUS
  <1>2. x \in 0..N /\ y \in 0..N /\ x + r.w <= N /\ y + r.h <= N
    BY <1>0, <1>1 DEF Gesture!Clamp, Gesture!Least, Gesture!Most
  <1>3. Gesture!Moved(r, dx, dy) = [x |-> x, y |-> y, w |-> r.w, h |-> r.h]
    <2>1. Gesture!Moved(r, dx, dy) = [r EXCEPT !.x = x, !.y = y]
      BY <1>1 DEF Gesture!Moved
    <2> QED
      BY <1>0, <2>1 DEF Gesture!Rect
  <1> QED
    BY <1>0, <1>2, <1>3 DEF GestureFits, Gesture!Rect, Gesture!OnThePage

LEMMA NudgedFits ==
  ASSUME NEW r, GestureFits(r), NEW dx \in Int, NEW dy \in Int
  PROVE  GestureFits(Gesture!NudgeRect(r, dx, dy))
  <1>0. N \in Nat /\ r \in Gesture!Rect /\ r.x \in 0..N /\ r.y \in 0..N /\ r.w \in 0..N
        /\ r.h \in 0..N
        /\ Gesture!OnThePage(r)
    BY GestAssumption DEF Gesture!Assumptions, GestureFits, Gesture!Rect
  <1>1. PICK x, y : /\ x = Gesture!Least(Gesture!Clamp(r.x + dx), Gesture!Most(0, N - r.w))
                    /\ y = Gesture!Least(Gesture!Clamp(r.y + dy), Gesture!Most(0, N - r.h))
    OBVIOUS
  <1>2. x \in 0..N /\ y \in 0..N /\ x + r.w <= N /\ y + r.h <= N
    BY <1>0, <1>1 DEF Gesture!Clamp, Gesture!Least, Gesture!Most
  <1>3. Gesture!NudgeRect(r, dx, dy) = [x |-> x, y |-> y, w |-> r.w, h |-> r.h]
    <2>1. Gesture!NudgeRect(r, dx, dy) = [r EXCEPT !.x = x, !.y = y]
      BY <1>1 DEF Gesture!NudgeRect
    <2> QED
      BY <1>0, <2>1 DEF Gesture!Rect
  <1> QED
    BY <1>0, <1>2, <1>3 DEF GestureFits, Gesture!Rect, Gesture!OnThePage

Handles == {"nw", "ne", "sw", "se"}
LEMMA ResizedFits ==
  ASSUME NEW r, GestureFits(r), NEW handle \in Handles, NEW dx \in Int, NEW dy \in Int
  PROVE  OnPaper(Gesture!Resized(r, handle, dx, dy))
  <1>0. N \in Nat /\ r.x \in 0..N /\ r.y \in 0..N /\ r.w \in 0..N /\ r.h \in 0..N
    BY GestAssumption DEF Gesture!Assumptions, GestureFits, Gesture!Rect
  <1>1. \E a, b : /\ a[1] \in Int /\ a[2] \in Int /\ b[1] \in Int /\ b[2] \in Int
                  /\ Gesture!Resized(r, handle, dx, dy)
                        = Gesture!NormalizeRect(a, <<Gesture!Clamp(b[1]), Gesture!Clamp(b[2])>>)
    <2>1. CASE handle = "nw"
      <3> DEFINE a == <<r.x + r.w, r.y + r.h>>
                 b == <<r.x + dx, r.y + dy>>
      <3>1. a[1] \in Int /\ a[2] \in Int /\ b[1] \in Int /\ b[2] \in Int
        BY <1>0
      <3>2. Gesture!Resized(r, handle, dx, dy)
               = Gesture!NormalizeRect(a, <<Gesture!Clamp(b[1]), Gesture!Clamp(b[2])>>)
        BY <2>1 DEF Gesture!Resized
      <3> QED
        BY <3>1, <3>2
    <2>2. CASE handle = "ne"
      <3> DEFINE a == <<r.x, r.y + r.h>>
                 b == <<r.x + r.w + dx, r.y + dy>>
      <3>1. a[1] \in Int /\ a[2] \in Int /\ b[1] \in Int /\ b[2] \in Int
        BY <1>0
      <3>2. Gesture!Resized(r, handle, dx, dy)
               = Gesture!NormalizeRect(a, <<Gesture!Clamp(b[1]), Gesture!Clamp(b[2])>>)
        BY <2>2 DEF Gesture!Resized
      <3> QED
        BY <3>1, <3>2
    <2>3. CASE handle = "sw"
      <3> DEFINE a == <<r.x + r.w, r.y>>
                 b == <<r.x + dx, r.y + r.h + dy>>
      <3>1. a[1] \in Int /\ a[2] \in Int /\ b[1] \in Int /\ b[2] \in Int
        BY <1>0
      <3>2. Gesture!Resized(r, handle, dx, dy)
               = Gesture!NormalizeRect(a, <<Gesture!Clamp(b[1]), Gesture!Clamp(b[2])>>)
        BY <2>3 DEF Gesture!Resized
      <3> QED
        BY <3>1, <3>2
    <2>4. CASE handle = "se"
      <3> DEFINE a == <<r.x, r.y>>
                 b == <<r.x + r.w + dx, r.y + r.h + dy>>
      <3>1. a[1] \in Int /\ a[2] \in Int /\ b[1] \in Int /\ b[2] \in Int
        BY <1>0
      <3>2. Gesture!Resized(r, handle, dx, dy)
               = Gesture!NormalizeRect(a, <<Gesture!Clamp(b[1]), Gesture!Clamp(b[2])>>)
        BY <2>4 DEF Gesture!Resized
      <3> QED
        BY <3>1, <3>2
    <2> QED
      BY <2>1, <2>2, <2>3, <2>4 DEF Handles
  <1>2. PICK a, b : /\ a[1] \in Int /\ a[2] \in Int /\ b[1] \in Int /\ b[2] \in Int
                    /\ Gesture!Resized(r, handle, dx, dy)
                          = Gesture!NormalizeRect(a, <<Gesture!Clamp(b[1]), Gesture!Clamp(b[2])>>)
    BY <1>1
  <1>3. PICK c : c = <<Gesture!Clamp(b[1]), Gesture!Clamp(b[2])>>
    OBVIOUS
  <1>4. c[1] \in Int /\ c[2] \in Int
    BY <1>0, <1>2, <1>3, ClampIs
  <1> QED
    BY <1>2, <1>3, <1>4, NormalFits

\* The point a mark carries stays in its rectangle.
LEMMA CarriedFits ==
  ASSUME NEW from, NEW to, GestureFits(from), GestureFits(to), NEW p \in Gesture!Points,
         Gesture!Contains(from, p)
  PROVE  Gesture!TransformPoint(p, from, to) \in Gesture!Points
         /\ Gesture!Contains(to, Gesture!TransformPoint(p, from, to))
  <1>0. /\ N \in Nat /\ p[1] \in 0..N /\ p[2] \in 0..N
        /\ from.x \in 0..N /\ from.y \in 0..N /\ from.w \in 0..N /\ from.h \in 0..N
        /\ to.x \in 0..N /\ to.y \in 0..N /\ to.w \in 0..N /\ to.h \in 0..N
        /\ from.w > 0 /\ from.h > 0 /\ to.x + to.w <= N /\ to.y + to.h <= N
    BY GestAssumption DEF Gesture!Assumptions, GestureFits, Gesture!Rect, Gesture!Points,
       Gesture!OnThePage
  <1>1. PICK u, v : u = ((p[1] - from.x) * to.w) \div from.w
        /\ v = ((p[2] - from.y) * to.h) \div from.h
    OBVIOUS
  <1>2. u \in Nat /\ u <= to.w
    <2>1. p[1] - from.x \in Nat /\ p[1] - from.x <= from.w /\ from.w \in Nat \ {0} /\ to.w \in Nat
      BY <1>0 DEF Gesture!Contains
    <2> QED
      BY ONLY <2>1, <1>1, Scaled
  <1>3. v \in Nat /\ v <= to.h
    <2>1. p[2] - from.y \in Nat /\ p[2] - from.y <= from.h /\ from.h \in Nat \ {0} /\ to.h \in Nat
      BY <1>0 DEF Gesture!Contains
    <2> QED
      BY ONLY <2>1, <1>1, Scaled
  <1>4. to.x + u \in 0..N /\ to.y + v \in 0..N
    BY <1>0, <1>2, <1>3
  <1>5. Gesture!TransformPoint(p, from, to) = <<to.x + u, to.y + v>>
    <2>1. from.w # 0 /\ from.h # 0
      BY <1>0
    <2>2. Gesture!TransformPoint(p, from, to) = <<Gesture!Clamp(to.x + u), Gesture!Clamp(to.y + v)>>
      BY <1>1, <2>1 DEF Gesture!TransformPoint
    <2>3. Gesture!Clamp(to.x + u) = to.x + u /\ Gesture!Clamp(to.y + v) = to.y + v
      BY <1>4, ClampIs
    <2> QED
      BY <2>2, <2>3
  <1> QED
    BY <1>0, <1>2, <1>3, <1>4, <1>5 DEF Gesture!Points, Gesture!Contains

\* Thinned, a stroke has at least two points and no more than it may have.
LEMMA SmoothedFits ==
  ASSUME NEW n \in Nat, n >= 2
  PROVE  Gesture!Smoothed(n) \in 2..MaxStroke
  <1>0. PICK M \in Nat : M = MaxStroke /\ M >= 3
    BY GestAssumption DEF Gesture!Assumptions
  <1>1. PICK cut \in Nat : cut = (IF n < 3 THEN n ELSE 4 * n) /\ cut >= 2
    OBVIOUS
  <1>2. PICK q : q = (cut + M - 1) \div M
    OBVIOUS
  <1>3. PICK r : r = (cut + q - 1) \div q
    OBVIOUS
  <1>4. Gesture!Smoothed(n) = IF cut <= M THEN cut ELSE r
    BY <1>0, <1>1, <1>2, <1>3 DEF Gesture!Smoothed
  <1>5. CASE cut <= M
    BY <1>0, <1>1, <1>4, <1>5
  <1>6. CASE cut > M
    <2>1. q \in Nat /\ q * M <= cut + M - 1 /\ cut + M - 1 < q * M + M
      <3>1. cut + M - 1 \in Nat /\ M \in Nat \ {0}
        BY <1>0, <1>1
      <3> QED
        BY ONLY <3>1, <1>2, DivIs
    <2>2. q >= 1 /\ cut <= q * M
      BY <1>0, <1>6, <2>1
    <2>3. r \in Nat /\ r * q <= cut + q - 1 /\ cut + q - 1 < r * q + q
      <3>1. cut + q - 1 \in Nat /\ q \in Nat \ {0}
        BY <1>1, <2>1, <2>2
      <3> QED
        BY ONLY <3>1, <1>3, DivIs
    <2>4. r <= M
      <3> SUFFICES ASSUME r >= M + 1 PROVE FALSE
        BY <1>0, <2>3
      <3>1. (M + 1) * q <= r * q
        BY ONLY <1>0, <2>1, <2>3, r >= M + 1, M + 1 \in Nat, Prod
      <3>2. (M + 1) * q = q * M + q
        BY ONLY <1>0, <2>1, Spread
      <3> QED
        BY <2>1, <2>2, <2>3, <3>1, <3>2
    <2>5. r >= 2
      <3> SUFFICES ASSUME r <= 1 PROVE FALSE
        BY <2>3
      <3>1. r * q <= q
        <4>1. r = 0 \/ r = 1
          BY <2>3
        <4> QED
          BY <2>1, <4>1
      <3>2. q >= cut
        BY <2>1, <2>3, <3>1
      <3>3. cut * M <= q * M
        BY ONLY <1>0, <1>1, <2>1, <3>2, Prod
      <3>4. cut * M >= cut * 3
        <4>1. 3 * cut <= M * cut
          BY ONLY <1>0, <1>1, 3 \in Nat, Prod
        <4> QED
          BY <4>1, <1>0, <1>1
      <3>5. q * M <= cut + M - 1 /\ q * M \in Nat
        BY <2>1
      <3>6. cut * 3 <= cut + M - 1
        BY <3>3, <3>4, <3>5, <1>0, <1>1
      <3> QED
        BY <1>0, <1>1, <1>6, <3>6
    <2> QED
      BY <1>0, <1>4, <1>6, <2>3, <2>4, <2>5
  <1> QED
    BY <1>0, <1>1, <1>5, <1>6

\* A set of naturals has a least member, and one that is bounded has a greatest.
LEMMA LeastOf == ASSUME NEW S \in SUBSET Nat, S # {}
  PROVE Gesture!Min(S) \in S /\ \A k \in S : Gesture!Min(S) <= k
  <1>1. PICK m \in S : \A k \in S : <<k, m>> \notin OpToRel(<, Nat)
    BY WFMin, NatLessThanWellFounded, Zenon
  <1>2. \A k \in S : ~ (k < m)
    BY <1>1, Zenon DEF OpToRel
  <1>3. \E x \in S : \A y \in S : x =< y
    BY <1>2
  <1> QED
    BY <1>3 DEF Gesture!Min

LEMMA MostOf == ASSUME NEW k \in Nat, NEW S \in SUBSET (0..k), S # {} PROVE Gesture!Max(S) \in S
  <1>1. PICK T : T = {k - x : x \in S}
    OBVIOUS
  <1>0. \A x \in S : k - x \in Nat
    OBVIOUS
  <1>2. T \in SUBSET Nat /\ T # {}
    BY <1>0, <1>1
  <1>3. PICK m \in T : \A j \in T : <<j, m>> \notin OpToRel(<, Nat)
    BY <1>2, WFMin, NatLessThanWellFounded, Zenon
  <1>4. \A j \in T : ~ (j < m)
    BY <1>2, <1>3, Zenon DEF OpToRel
  <1>5. PICK x \in S : m = k - x
    BY <1>1
  <1>6. \A y \in S : k - y \in T
    BY <1>1
  <1>7. \A y \in S : x >= y
    BY <1>4, <1>5, <1>6
  <1> QED
    BY <1>5, <1>7 DEF Gesture!Max

LEMMA QuadsFit ==
  ASSUME NEW words \in SUBSET ((0..(N - 1)) \X (0..(N - 1))),
         NEW r \in Gesture!QuadsFromWords(words)
  PROVE  Gesture!OnThePage(r)
  <1>0. N \in Nat /\ N >= 2
    BY GestAssumption DEF Gesture!Assumptions
  <1>1. PICK w \in words : r = Gesture!LineOf(words, w[2])
    BY DEF Gesture!QuadsFromWords
  <1>2. PICK y : y = w[2]
    OBVIOUS
  <1>3. PICK xs : xs = {p[1] : p \in {q \in words : q[2] = y}}
    OBVIOUS
  <1>4. xs \in SUBSET (0..(N - 1)) /\ w[1] \in xs /\ y \in 0..(N - 1)
    BY <1>2, <1>3
  <1>5. Gesture!Min(xs) \in xs /\ \A k \in xs : Gesture!Min(xs) <= k
    <2>1. xs \in SUBSET Nat /\ xs # {}
      BY <1>0, <1>4
    <2> QED
      BY ONLY <2>1, LeastOf
  <1>6. Gesture!Max(xs) \in xs
    <2>1. N - 1 \in Nat /\ xs # {}
      BY <1>0, <1>4
    <2> QED
      BY ONLY <1>4, <2>1, MostOf
  <1>7. PICK a, b : a = Gesture!Min(xs) /\ b = Gesture!Max(xs)
    OBVIOUS
  <1>8. r = [x |-> a, y |-> y, w |-> b - a + 1, h |-> 1]
    BY <1>1, <1>2, <1>3, <1>7 DEF Gesture!LineOf
  <1>9. a \in 0..(N - 1) /\ b \in 0..(N - 1) /\ a <= b
    BY <1>4, <1>5, <1>6, <1>7
  <1> QED
    BY ONLY <1>0, <1>4, <1>8, <1>9 DEF Gesture!OnThePage

-----------------------------------------------------------------------------
GestDrag == [kind : {"ink", "draw", "move", "resize"}, start : Gesture!Points,
             handle : Handles \cup {None},
             from : Gesture!Rect, samples : 1..MaxPoints, at : Pages]

\* The mark lies on its page, its drawing in it.
GestItem == /\ item \in [page : Pages, rect : Gesture!Rect, inner : Gesture!Points]
            /\ GestureFits(item.rect) /\ Gesture!Contains(item.rect, item.inner)
\* A gesture, and the vertices clicked, are of the page shown.
GestDragHolds == drag # None => /\ drag \in GestDrag
                                /\ drag.at = gesturePage /\ GestureFits(drag.from)
                                /\ drag.kind = "resize" => drag.handle \in Handles
GestPending == /\ pending \in [at : Pages \cup {None}, n : 0..MaxPoints]
               /\ pending.n > 0 => pending.at = gesturePage
GestOut == /\ Gesture!EmittedIsWhole
           /\ out.shape \in {"rect", "line", "quads"} => \A r \in out.rects : Gesture!OnThePage(r)
GestRest == /\ gesturePage \in Pages /\ tool \in Gesture!Tools
            /\ selected \in BOOLEAN /\ menu \in BOOLEAN
            /\ gestureAsked \in Pages \cup {None} /\ image \in Pages \cup {None}
            /\ drew \in Pages \cup {None}
GestInv == GestItem /\ GestDragHolds /\ GestPending /\ GestOut /\ GestRest

LEMMA GestNothing == ASSUME out = Gesture!Nothing PROVE GestOut
  BY DEF Gesture!Nothing, GestOut, Gesture!EmittedIsWhole

LEMMA GestInit == Gesture!Init => GestInv
  <1> SUFFICES ASSUME Gesture!Init PROVE GestInv
    OBVIOUS
  <1>0. N \in Nat /\ N >= 2 /\ MaxPoints \in Nat
    BY GestAssumption DEF Gesture!Assumptions
  <1>1. GestItem
    BY <1>0 DEF Gesture!Init, GestItem, GestureFits, Gesture!Rect, Gesture!Points,
       Gesture!OnThePage, Gesture!Contains
  <1>2. GestDragHolds
    BY DEF Gesture!Init, GestDragHolds
  <1>3. GestPending
    BY <1>0 DEF Gesture!Init, GestPending, Gesture!NoVertices
  <1>4. GestRest
    BY DEF Gesture!Init, GestRest, Gesture!Tools
  <1> QED
    BY <1>1, <1>2, <1>3, <1>4, GestNothing DEF Gesture!Init, GestInv

LEMMA GestItemStays == ASSUME GestInv, UNCHANGED item PROVE GestItem'
  BY DEF GestInv, GestItem
LEMMA GestDragStays == ASSUME GestInv, UNCHANGED <<gesturePage, drag>> PROVE GestDragHolds'
  BY DEF GestInv, GestDragHolds
LEMMA GestPendingStays == ASSUME GestInv, UNCHANGED <<gesturePage, pending>> PROVE GestPending'
  BY DEF GestInv, GestPending

\* The owner takes a rectangle that is on the page.
LEMMA GestOwned ==
  ASSUME GestInv, NEW rect, GestureFits(rect), Gesture!ToTheOwner(rect)
  PROVE  GestItem'
  <1>1. /\ item \in [page : Pages, rect : Gesture!Rect, inner : Gesture!Points]
        /\ GestureFits(item.rect) /\ Gesture!Contains(item.rect, item.inner)
    BY DEF GestInv, GestItem
  <1>2. PICK q : q = Gesture!TransformPoint(item.inner, item.rect, rect)
    OBVIOUS
  <1>3. q \in Gesture!Points /\ Gesture!Contains(rect, q)
    BY <1>1, <1>2, CarriedFits
  <1>4. item' = [item EXCEPT !.rect = rect, !.inner = q]
    BY <1>2 DEF Gesture!ToTheOwner
  <1>5. item'.page \in Pages /\ item'.rect = rect /\ item'.inner = q
        /\ item' \in [page : Pages, rect : Gesture!Rect, inner : Gesture!Points]
    BY <1>1, <1>3, <1>4 DEF GestureFits
  <1> QED
    BY <1>3, <1>5 DEF GestItem

\* A gesture that begins.
LEMMA GestBegun ==
  ASSUME GestInv, UNCHANGED gesturePage, NEW p \in Gesture!Points,
         NEW kind \in {"ink", "draw", "move", "resize"}, NEW h \in Handles \cup {None},
         kind = "resize" => h \in Handles, drag' = Gesture!Gesture(kind, p, h)
  PROVE  GestDragHolds'
  <1>1. 1 \in 1..MaxPoints
    BY GestAssumption DEF Gesture!Assumptions
  <1>2. GestureFits(item.rect) /\ item.rect \in Gesture!Rect /\ gesturePage \in Pages
    BY DEF GestInv, GestItem, GestureFits, GestRest
  <1>3. drag' = [kind |-> kind, start |-> p, handle |-> h, from |-> item.rect,
                 samples |-> 1, at |-> gesturePage]
    BY DEF Gesture!Gesture
  <1> QED
    BY <1>1, <1>2, <1>3 DEF GestDragHolds, GestDrag

LEMMA GestPointerStep ==
  ASSUME GestInv, Gesture!Pointer
  PROVE  GestInv'
  <1>0. GestRest /\ N \in Nat /\ N >= 2 /\ MaxPoints \in Nat \ {0} /\ None \notin Pages
    BY GestAssumption DEF GestInv, Gesture!Assumptions
  <1>1. ASSUME NEW p \in Gesture!Points, Gesture!PointerDown(p)
        PROVE  GestInv'
    <2>1. /\ UNCHANGED <<gesturePage, tool, item, gestureAsked, image, drew>>
          /\ out' = Gesture!Nothing
          /\ menu' = FALSE /\ selected' = IF tool = "select" THEN FALSE ELSE selected
      BY <1>1 DEF Gesture!PointerDown
    <2>2. GestRest'
      BY <1>0, <2>1 DEF GestRest
    <2>3. GestPending'
      <3>0. pending \in [at : Pages \cup {None}, n : 0..MaxPoints] /\ gesturePage \in Pages
        BY <1>0 DEF GestInv, GestPending, GestRest
      <3>1. CASE tool = "polygon"
        <4>1. pending.n < MaxPoints /\ pending' = [at |-> gesturePage, n |-> pending.n + 1]
          BY <1>1, <3>1 DEF Gesture!PointerDown
        <4> QED
          BY <1>0, <2>1, <3>0, <4>1 DEF GestPending
      <3>2. CASE tool # "polygon"
        BY <1>1, <2>1, <3>2, GestPendingStays DEF Gesture!PointerDown
      <3> QED
        BY <3>1, <3>2
    <2>4. GestDragHolds'
      <3>1. CASE tool = "ink"
        BY <1>1, <2>1, <3>1, GestBegun DEF Gesture!PointerDown
      <3>2. CASE tool \in {"rect", "line"}
        BY <1>1, <2>1, <3>2, GestBegun DEF Gesture!PointerDown
      <3>3. CASE tool \notin {"ink", "rect", "line"}
        BY <1>1, <3>3 DEF Gesture!PointerDown, GestDragHolds
      <3> QED
        BY <3>1, <3>2, <3>3
    <2>5. GestOut'
      BY <2>1 DEF Gesture!Nothing, GestOut, Gesture!EmittedIsWhole
    <2> QED
      BY <2>1, <2>2, <2>3, <2>4, <2>5, GestItemStays DEF GestInv
  <1>2. ASSUME NEW p \in Gesture!Points, Gesture!ItemPointerDown(p)
        PROVE  GestInv'
    <2>1. /\ UNCHANGED <<gesturePage, tool, item, pending, gestureAsked, image, drew>>
          /\ out' = Gesture!Nothing
          /\ menu' = FALSE /\ selected' = TRUE /\ drag' = Gesture!Gesture("move", p, None)
      BY <1>2 DEF Gesture!ItemPointerDown
    <2>2. GestRest'
      BY <1>0, <2>1 DEF GestRest
    <2>3. GestDragHolds'
      BY <2>1, GestBegun
    <2>4. GestOut'
      BY <2>1 DEF Gesture!Nothing, GestOut, Gesture!EmittedIsWhole
    <2> QED
      BY <2>1, <2>2, <2>3, <2>4, GestItemStays, GestPendingStays DEF GestInv
  <1>3. ASSUME NEW p \in Gesture!Points, NEW h \in Handles, Gesture!HandlePointerDown(p, h)
        PROVE  GestInv'
    <2>1. /\ UNCHANGED <<gesturePage, tool, item, selected, pending, menu, gestureAsked, image,
                         drew>>
          /\ out' = Gesture!Nothing /\ drag' = Gesture!Gesture("resize", p, h)
      BY <1>3 DEF Gesture!HandlePointerDown
    <2>2. GestRest'
      BY <1>0, <2>1 DEF GestRest
    <2>3. GestDragHolds'
      BY <2>1, GestBegun
    <2>4. GestOut'
      BY <2>1 DEF Gesture!Nothing, GestOut, Gesture!EmittedIsWhole
    <2> QED
      BY <2>1, <2>2, <2>3, <2>4, GestItemStays, GestPendingStays DEF GestInv
  <1>4. CASE Gesture!PointerMove
    <2>1. /\ UNCHANGED <<gesturePage, tool, item, selected, pending, menu, gestureAsked, image,
                         drew>>
          /\ out' = Gesture!Nothing /\ drag # None /\ drag' = [drag EXCEPT !.samples = @ + 1]
          /\ drag.samples < MaxPoints
      BY <1>4 DEF Gesture!PointerMove
    <2>2. GestRest'
      BY <1>0, <2>1 DEF GestRest
    <2>3. GestDragHolds'
      <3>1. /\ drag \in GestDrag /\ drag.at = gesturePage /\ GestureFits(drag.from)
            /\ drag.kind = "resize" => drag.handle \in Handles
        BY <2>1 DEF GestInv, GestDragHolds
      <3>2. drag.samples + 1 \in 1..MaxPoints
        BY <1>0, <2>1, <3>1 DEF GestDrag
      <3>3. drag' \in GestDrag /\ drag'.at = drag.at /\ drag'.from = drag.from
            /\ drag'.kind = drag.kind /\ drag'.handle = drag.handle
        BY <2>1, <3>1, <3>2 DEF GestDrag
      <3> QED
        BY <2>1, <3>1, <3>3 DEF GestDragHolds
    <2>4. GestOut'
      BY <2>1 DEF Gesture!Nothing, GestOut, Gesture!EmittedIsWhole
    <2> QED
      BY <2>1, <2>2, <2>3, <2>4, GestItemStays, GestPendingStays DEF GestInv
  <1>5. ASSUME NEW p \in Gesture!Points, Gesture!PointerUp(p)
        PROVE  GestInv'
    <2>1. /\ UNCHANGED <<gesturePage, tool, selected, pending, menu, gestureAsked, image, drew>>
          /\ drag # None /\ drag' = None
      BY <1>5 DEF Gesture!PointerUp
    <2>2. GestRest'
      BY <1>0, <2>1 DEF GestRest
    <2>3. GestDragHolds'
      BY <2>1 DEF GestDragHolds
    <2>4. /\ drag \in GestDrag /\ drag.at = gesturePage /\ GestureFits(drag.from)
          /\ drag.samples \in 1..MaxPoints
          /\ drag.start \in Gesture!Points /\ drag.kind \in {"ink", "draw", "move", "resize"}
          /\ drag.kind = "resize" => drag.handle \in Handles
      BY <2>1 DEF GestInv, GestDragHolds, GestDrag
    <2>5. p[1] \in Int /\ p[2] \in Int /\ drag.start[1] \in Int /\ drag.start[2] \in Int
      BY <1>0, <2>4 DEF Gesture!Points
    <2>6. GestItem' /\ GestOut'
      <3>1. CASE drag.kind = "ink"
        <4>1. UNCHANGED item
          BY <1>5, <3>1 DEF Gesture!PointerUp
        <4>2. out' = [shape |-> "ink", at |-> gesturePage, from |-> drag.at,
                      n |-> Gesture!Smoothed(drag.samples + 1)]
          BY <1>5, <3>1 DEF Gesture!PointerUp
        <4>3. drag.samples + 1 \in Nat /\ drag.samples + 1 >= 2
          BY <1>0, <2>4
        <4>4. Gesture!Smoothed(drag.samples + 1) \in 2..MaxStroke
          BY <4>3, SmoothedFits
        <4> QED
          BY <2>4, <4>1, <4>2, <4>4, GestItemStays DEF GestOut, Gesture!EmittedIsWhole
      <3>2. CASE drag.kind \in {"move", "resize"}
        <4>1. out' = Gesture!Nothing
          BY <1>5, <3>2 DEF Gesture!PointerUp
        <4>2. PICK r : r = Gesture!DragRect(p)
          OBVIOUS
        <4>3. r.w > 0 /\ r.h > 0 => GestureFits(r)
          <5>1. p[1] - drag.start[1] \in Int /\ p[2] - drag.start[2] \in Int
            BY <2>5
          <5>2. CASE drag.kind = "move"
            BY <2>4, <4>2, <5>1, <5>2, MovedFits DEF Gesture!DragRect
          <5>3. CASE drag.kind = "resize"
            <6>1. OnPaper(r)
              BY <2>4, <4>2, <5>1, <5>3, ResizedFits DEF Gesture!DragRect
            <6> QED
              BY <6>1 DEF OnPaper, GestureFits, Gesture!OnThePage
          <5> QED
            BY <3>2, <5>2, <5>3
        <4>4. UNCHANGED item \/ (r.w > 0 /\ r.h > 0 /\ Gesture!ToTheOwner(r))
          BY <1>5, <3>2, <4>2 DEF Gesture!PointerUp
        <4>5. GestItem'
          BY <4>3, <4>4, GestItemStays, GestOwned
        <4>6. GestOut'
          BY <4>1 DEF Gesture!Nothing, GestOut, Gesture!EmittedIsWhole
        <4> QED
          BY <4>5, <4>6
      <3>3. CASE drag.kind = "draw"
        <4>1. UNCHANGED item
          BY <1>5, <3>3 DEF Gesture!PointerUp
        <4>2. PICK drawn : drawn = Gesture!NormalizeRect(drag.start, p)
          OBVIOUS
        <4>3. out' = IF drawn.w = 0 \/ drawn.h = 0 THEN Gesture!Nothing
                     ELSE [shape |-> IF tool = "line" THEN "line" ELSE "rect",
                           at |-> gesturePage, from |-> drag.at, rects |-> {drawn}]
          BY <1>5, <3>3, <4>2 DEF Gesture!PointerUp
        <4>4. OnPaper(drawn)
          BY <2>5, <4>2, NormalFits
        <4>5. CASE drawn.w = 0 \/ drawn.h = 0
          BY <4>1, <4>3, <4>5, GestItemStays DEF Gesture!Nothing, GestOut, Gesture!EmittedIsWhole
        <4>6. CASE ~(drawn.w = 0 \/ drawn.h = 0)
          <5>1. Gesture!OnThePage(drawn)
            BY <1>0, <4>4, <4>6 DEF OnPaper, Gesture!OnThePage, Gesture!Rect
          <5>2. out' = [shape |-> IF tool = "line" THEN "line" ELSE "rect",
                        at |-> gesturePage, from |-> drag.at, rects |-> {drawn}]
            BY <4>3, <4>6
          <5> QED
            BY <2>4, <4>1, <5>1, <5>2, GestItemStays DEF GestOut, Gesture!EmittedIsWhole
        <4> QED
          BY <4>5, <4>6
      <3> QED
        BY <2>4, <3>1, <3>2, <3>3
    <2> QED
      BY <2>1, <2>2, <2>3, <2>6, GestPendingStays DEF GestInv
  <1>6. ASSUME NEW p \in Gesture!Points, Gesture!OpenMenu(p)
        PROVE  GestInv'
    <2>1. /\ UNCHANGED <<gesturePage, tool, item, drag, pending, gestureAsked, image, drew>>
          /\ out' = Gesture!Nothing
          /\ menu' = TRUE /\ selected' = (selected \/ Gesture!OnMark(p))
      BY <1>6 DEF Gesture!OpenMenu
    <2>2. selected' \in BOOLEAN
      BY <2>1, Zenon
    <2>3. GestRest'
      BY <1>0, <2>1, <2>2 DEF GestRest
    <2>4. GestOut'
      BY <2>1 DEF Gesture!Nothing, GestOut, Gesture!EmittedIsWhole
    <2> QED
      BY <2>1, <2>3, <2>4, GestItemStays, GestDragStays, GestPendingStays DEF GestInv
  <1>7. ASSUME NEW p \in (0..(N - 1)) \X (0..(N - 1)), NEW q \in (0..(N - 1)) \X (0..(N - 1)),
               Gesture!SelectText(p, q)
        PROVE  GestInv'
    <2>1. UNCHANGED <<gesturePage, tool, item, selected, drag, pending, menu, gestureAsked,
                      image, drew>>
      BY <1>7 DEF Gesture!SelectText
    <2>2. PICK run \in SUBSET ((0..(N - 1)) \X (0..(N - 1))) :
             out' = [shape |-> "quads", at |-> gesturePage, from |-> gesturePage,
                     rects |-> Gesture!QuadsFromWords(run)]
      BY <1>7 DEF Gesture!SelectText
    <2>3. GestOut'
      BY <2>2, QuadsFit DEF GestOut, Gesture!EmittedIsWhole
    <2>4. GestRest'
      BY <1>0, <2>1 DEF GestRest
    <2> QED
      BY <2>1, <2>3, <2>4, GestItemStays, GestDragStays, GestPendingStays DEF GestInv
  <1> QED
    BY <1>1, <1>2, <1>3, <1>4, <1>5, <1>6, <1>7 DEF Gesture!Pointer, Handles

LEMMA GestKeyStep ==
  ASSUME GestInv, Gesture!Keys
  PROVE  GestInv'
  <1>0. /\ GestRest /\ N \in Nat /\ N >= 2 /\ MaxPoints \in Nat \ {0} /\ None \notin Pages
        /\ Stride \in Int
    BY GestAssumption DEF GestInv, Gesture!Assumptions
  <1>1. CASE Gesture!FinishPending
    <2>1. /\ UNCHANGED <<gesturePage, tool, item, selected, drag, menu, gestureAsked, image, drew>>
          /\ pending' = Gesture!NoVertices /\ pending.n > 0
          /\ out' = IF pending.n < 2 \/ (tool = "polygon" /\ pending.n < 3) THEN Gesture!Nothing
                    ELSE [shape |-> IF tool = "polygon" THEN "polygon" ELSE "polyline",
                          at |-> gesturePage, from |-> pending.at, n |-> pending.n]
      BY <1>1 DEF Gesture!FinishPending
    <2>2. pending.at = gesturePage /\ pending.n \in Nat
      BY <1>0, <2>1 DEF GestInv, GestPending
    <2>3. GestOut'
      <3>1. CASE pending.n < 2 \/ (tool = "polygon" /\ pending.n < 3)
        BY <2>1, <3>1 DEF Gesture!Nothing, GestOut, Gesture!EmittedIsWhole
      <3>2. CASE ~(pending.n < 2 \/ (tool = "polygon" /\ pending.n < 3))
        <4>1. out' = [shape |-> IF tool = "polygon" THEN "polygon" ELSE "polyline",
                      at |-> gesturePage, from |-> pending.at, n |-> pending.n]
          BY <2>1, <3>2
        <4> QED
          BY <2>2, <3>2, <4>1 DEF GestOut, Gesture!EmittedIsWhole
      <3> QED
        BY <3>1, <3>2
    <2>4. GestPending' /\ GestRest'
      BY <1>0, <2>1 DEF GestPending, Gesture!NoVertices, GestRest
    <2> QED
      BY <2>1, <2>3, <2>4, GestItemStays, GestDragStays DEF GestInv
  <1>2. CASE Gesture!Cancel
    <2>1. /\ UNCHANGED <<gesturePage, tool, item, menu, gestureAsked, image, drew>>
          /\ out' = Gesture!Nothing
          /\ (drag' = None /\ pending' = Gesture!NoVertices /\ UNCHANGED selected)
             \/ (selected' = FALSE /\ UNCHANGED <<drag, pending>>)
      BY <1>2 DEF Gesture!Cancel
    <2>2. GestOut'
      BY <2>1 DEF Gesture!Nothing, GestOut, Gesture!EmittedIsWhole
    <2>3. GestRest'
      BY <1>0, <2>1 DEF GestRest
    <2>4. CASE drag' = None /\ pending' = Gesture!NoVertices
      <3>1. GestDragHolds' /\ GestPending'
        BY <1>0, <2>4 DEF GestDragHolds, GestPending, Gesture!NoVertices
      <3> QED
        BY <2>1, <2>2, <2>3, <3>1, GestItemStays DEF GestInv
    <2>5. CASE UNCHANGED <<drag, pending>>
      BY <2>1, <2>2, <2>3, <2>5, GestItemStays, GestDragStays, GestPendingStays DEF GestInv
    <2> QED
      BY <2>1, <2>4, <2>5
  <1>3. CASE Gesture!CloseMenu
    <2>1. /\ UNCHANGED <<gesturePage, tool, item, selected, drag, pending, gestureAsked, image,
                         drew>>
          /\ out' = Gesture!Nothing /\ menu' = FALSE
      BY <1>3 DEF Gesture!CloseMenu
    <2>2. GestOut' /\ GestRest'
      BY <1>0, <2>1 DEF Gesture!Nothing, GestOut, Gesture!EmittedIsWhole, GestRest
    <2> QED
      BY <2>1, <2>2, GestItemStays, GestDragStays, GestPendingStays DEF GestInv
  <1>4. ASSUME NEW dx \in Int, NEW dy \in Int, Gesture!Nudge(dx, dy)
        PROVE  GestInv'
    <2>1. /\ UNCHANGED <<gesturePage, tool, selected, drag, pending, menu, gestureAsked, image,
                         drew>>
          /\ out' = Gesture!Nothing /\ Gesture!ToTheOwner(Gesture!NudgeRect(item.rect, dx, dy))
      BY <1>4 DEF Gesture!Nudge
    <2>2. GestOut' /\ GestRest'
      BY <1>0, <2>1 DEF Gesture!Nothing, GestOut, Gesture!EmittedIsWhole, GestRest
    <2>3. GestItem'
      <3>1. PICK r : r = Gesture!NudgeRect(item.rect, dx, dy)
        OBVIOUS
      <3>2. GestureFits(item.rect)
        BY DEF GestInv, GestItem
      <3>3. GestureFits(r) /\ Gesture!ToTheOwner(r)
        BY <2>1, <3>1, <3>2, NudgedFits
      <3> QED
        BY <3>3, GestOwned
    <2> QED
      BY <2>1, <2>2, <2>3, GestDragStays, GestPendingStays DEF GestInv
  <1>5. \A d \in {-Stride, Stride} : d \in Int
    BY <1>0
  <1> QED
    BY <1>1, <1>2, <1>3, <1>4, <1>5 DEF Gesture!Keys

LEMMA GestOwnerStep ==
  ASSUME GestInv, Gesture!Owner \/ Gesture!Raster
  PROVE  GestInv'
  <1>0. GestRest /\ MaxPoints \in Nat /\ None \notin Pages
    BY GestAssumption DEF GestInv, Gesture!Assumptions
  <1>1. out' = Gesture!Nothing /\ UNCHANGED item
    BY DEF Gesture!Owner, Gesture!Raster, Gesture!SetTool, Gesture!TurnPage, Gesture!ImageLoad,
       Gesture!RasterAnswer
  <1>2. GestOut'
    BY <1>1 DEF Gesture!Nothing, GestOut, Gesture!EmittedIsWhole
  <1>3. GestRest'
    BY <1>0 DEF Gesture!Owner, Gesture!Raster, Gesture!SetTool, Gesture!TurnPage,
       Gesture!ImageLoad, Gesture!RasterAnswer, GestRest
  <1>4. CASE UNCHANGED <<gesturePage, drag, pending>>
    BY <1>1, <1>2, <1>3, <1>4, GestItemStays, GestDragStays, GestPendingStays DEF GestInv
  <1>5. CASE drag' = None /\ pending' = Gesture!NoVertices
    <2>1. GestDragHolds' /\ GestPending'
      BY <1>0, <1>5 DEF GestDragHolds, GestPending, Gesture!NoVertices
    <2> QED
      BY <1>1, <1>2, <1>3, <2>1, GestItemStays DEF GestInv
  <1> QED
    BY <1>4, <1>5 DEF Gesture!Owner, Gesture!Raster, Gesture!SetTool, Gesture!TurnPage,
       Gesture!ImageLoad, Gesture!RasterAnswer

LEMMA GestStep == GestInv /\ (Gesture!Next \/ UNCHANGED Gesture!vars) => GestInv'
  <1>1. ASSUME GestInv, UNCHANGED Gesture!vars PROVE GestInv'
    <2>1. UNCHANGED <<gesturePage, tool, item, selected, drag, pending, menu, out, gestureAsked,
                      image, drew>>
      BY <1>1 DEF Gesture!vars
    <2>2. GestOut' /\ GestRest'
      BY <1>1, <2>1 DEF GestInv, GestOut, Gesture!EmittedIsWhole, GestRest
    <2> QED
      BY <1>1, <2>1, <2>2, GestItemStays, GestDragStays, GestPendingStays DEF GestInv
  <1> QED
    BY <1>1, GestPointerStep, GestKeyStep, GestOwnerStep DEF Gesture!Next

LEMMA GestTypeOK == GestInv => Gesture!TypeOK
  BY DEF GestInv, Gesture!TypeOK, GestItem, GestDragHolds, GestPending, GestRest, GestDrag
LEMMA GestShapes == GestInv => Gesture!ShapesStayOnPage /\ Gesture!EmittedIsWhole
  BY DEF GestInv, GestItem, GestOut, Gesture!ShapesStayOnPage, GestureFits

-----------------------------------------------------------------------------
(* The forms.                                                               *)

\* The operators of the instance are those of this module.
LEMMA FormsCount == \A S : Forms!Cardinality(S) = Cardinality(S)
  BY DEF Forms!Cardinality, Cardinality

\* The same of the forms' greatest element.
LEMMA FormsMostOf ==
  ASSUME NEW k \in Nat, NEW S \in SUBSET (0..k), S # {} PROVE Forms!Max(S) \in S
  BY MostOf DEF Forms!Max, Gesture!Max

\* The k-th place of a set of places is one of them, and the places follow each other.
LEMMA NthIs ==
  ASSUME NEW n \in Nat, NEW S \in SUBSET (1..n)
  PROVE  /\ IsFiniteSet(S) /\ Cardinality(S) \in 0..n
         /\ \A k \in 1..Cardinality(S) : Forms!Nth(S, k) \in S
         /\ \A k, l \in 1..Cardinality(S) : k < l => Forms!Nth(S, k) < Forms!Nth(S, l)
         /\ \A i \in S : \E k \in 1..Cardinality(S) : Forms!Nth(S, k) = i
  <1> DEFINE Upto(i) == {j \in S : j <= i}
             rank == [i \in S |-> Cardinality(Upto(i))]
             c == Cardinality(S)
  <1>1. IsFiniteSet(S) /\ c \in Nat /\ c <= n
    <2>1. IsFiniteSet(1..n) /\ Cardinality(1..n) = n
      BY FS_Interval
    <2>2. IsFiniteSet(S) /\ Cardinality(S) <= Cardinality(1..n)
      BY <2>1, FS_Subset
    <2> QED
      BY <2>1, <2>2, FS_CardinalityType
  <1>2. \A i \in S : IsFiniteSet(Upto(i)) /\ Cardinality(Upto(i)) \in 1..c
    <2> SUFFICES ASSUME NEW i \in S PROVE IsFiniteSet(Upto(i)) /\ Cardinality(Upto(i)) \in 1..c
      OBVIOUS
    <2>1. Upto(i) \in SUBSET S
      OBVIOUS
    <2>2. IsFiniteSet(Upto(i)) /\ Cardinality(Upto(i)) <= c
      BY ONLY <1>1, <2>1, FS_Subset
    <2>3. Cardinality(Upto(i)) \in Nat
      BY ONLY <2>2, FS_CardinalityType
    <2>4. i \in Upto(i)
      OBVIOUS
    <2>5. Cardinality(Upto(i)) # 0
      BY ONLY <2>2, <2>4, FS_EmptySet
    <2> QED
      BY <1>1, <2>2, <2>3, <2>5
  <1>3. \A i, j \in S : i < j => Cardinality(Upto(i)) < Cardinality(Upto(j))
    <2> SUFFICES ASSUME NEW i \in S, NEW j \in S, i < j
                 PROVE  Cardinality(Upto(i)) < Cardinality(Upto(j))
      OBVIOUS
    <2>0. i \in Int /\ j \in Int /\ \A k \in S : k \in Int
      OBVIOUS
    <2>a. ASSUME NEW k \in Upto(i) PROVE k \in Upto(j)
      <3>1. k \in S /\ k <= i
        OBVIOUS
      <3>2. k <= j
        BY <2>0, <3>1
      <3> QED
        BY <3>1, <3>2
    <2>b. j \in Upto(j) /\ j \notin Upto(i)
      BY <2>0
    <2>1. Upto(i) \in SUBSET Upto(j) /\ j \in Upto(j) /\ j \notin Upto(i)
      BY <2>a, <2>b
    <2>2. IsFiniteSet(Upto(j)) /\ Cardinality(Upto(j)) \in Nat /\ Cardinality(Upto(i)) \in Nat
      BY <1>1, <1>2
    <2>3. /\ Cardinality(Upto(i)) <= Cardinality(Upto(j))
          /\ Cardinality(Upto(j)) # Cardinality(Upto(i))
      BY ONLY <2>1, <2>2, FS_Subset
    <2> QED
      BY <2>2, <2>3
  <1> HIDE DEF Upto
  <1>4. rank \in Injection(S, 1..c)
    <2>1. rank \in [S -> 1..c]
      BY <1>2
    <2>2. \A i, j \in S : rank[i] = rank[j] => i = j
      <3> SUFFICES ASSUME NEW i \in S, NEW j \in S, i # j PROVE rank[i] # rank[j]
        OBVIOUS
      <3>1. i \in Int /\ j \in Int
        OBVIOUS
      <3>2. CASE i < j
        BY <1>1, <1>2, <1>3, <3>2
      <3>3. CASE j < i
        BY <1>1, <1>2, <1>3, <3>3
      <3> QED
        BY <3>1, <3>2, <3>3
    <2> QED
      BY <2>1, <2>2 DEF Injection, IsInjective
  <1>5. rank \in Surjection(S, 1..c)
    <2>1. IsFiniteSet(1..c) /\ Cardinality(1..c) = c
      BY <1>1, FS_Interval
    <2> QED
      BY ONLY <1>4, <2>1, FS_Injection
  <1>6. \A k \in 1..c : \E i \in S : Cardinality(Upto(i)) = k
    BY <1>5 DEF Surjection
  <1>7. \A k \in 1..c : Forms!Nth(S, k) \in S /\ Cardinality(Upto(Forms!Nth(S, k))) = k
    BY <1>6, FormsCount DEF Forms!Nth, Upto
  <1>8. \A k, l \in 1..c : k < l => Forms!Nth(S, k) < Forms!Nth(S, l)
    <2> SUFFICES ASSUME NEW k \in 1..c, NEW l \in 1..c, k < l
                 PROVE Forms!Nth(S, k) < Forms!Nth(S, l)
      OBVIOUS
    <2> DEFINE x == Forms!Nth(S, k)
               y == Forms!Nth(S, l)
    <2>1. x \in S /\ y \in S /\ Cardinality(Upto(x)) = k /\ Cardinality(Upto(y)) = l
      BY <1>7
    <2> HIDE DEF x, y
    <2>2. x \in Int /\ y \in Int
      BY <2>1
    <2>3. ~(y < x) /\ x # y
      BY <1>1, <1>3, <2>1, <2>2
    <2> QED
      BY <2>2, <2>3 DEF x, y
  <1>9. \A i \in S : \E k \in 1..c : Forms!Nth(S, k) = i
    <2> SUFFICES ASSUME NEW i \in S PROVE \E k \in 1..c : Forms!Nth(S, k) = i
      OBVIOUS
    <2> DEFINE k == Cardinality(Upto(i))
               j == Forms!Nth(S, k)
    <2>1. k \in 1..c
      BY <1>2
    <2>2. j \in S /\ Cardinality(Upto(j)) = k
      BY <1>7, <2>1
    <2> HIDE DEF j
    <2>3. j \in Int /\ i \in Int
      BY <2>2
    <2>4. ~(i < j) /\ ~(j < i)
      BY <1>1, <1>3, <2>1, <2>2
    <2> QED
      BY <2>1, <2>3, <2>4 DEF j
  <1> QED
    BY <1>1, <1>7, <1>8, <1>9

\* What a filter lets through are the elements asked for, in their order.
LEMMA FilteredIs ==
  ASSUME NEW E, NEW s \in Seq(E), NEW T
  PROVE  LET left == Forms!Filtered(s, T)
         IN  /\ left \in Seq(E) /\ Len(left) <= Len(s) /\ Len(left) \in Nat
             /\ \E to \in [1..Len(left) -> DOMAIN s] :
                   /\ \A k \in 1..Len(left) : left[k] = s[to[k]] /\ left[k] \in T
                   /\ \A k, l \in 1..Len(left) : k < l => to[k] < to[l]
                   /\ \A i \in DOMAIN s : s[i] \in T => \E k \in 1..Len(left) : to[k] = i
  <1> DEFINE S == {i \in DOMAIN s : s[i] \in T}
             left == Forms!Filtered(s, T)
             to == Forms!InOrder(S)
             c == Cardinality(S)
  <1>1. Len(s) \in Nat /\ DOMAIN s = 1..Len(s) /\ S \in SUBSET (1..Len(s))
        /\ \A i \in 1..Len(s) : s[i] \in E
    OBVIOUS
  <1> HIDE DEF S
  <1>2. /\ c \in 0..Len(s)
        /\ \A k \in 1..c : Forms!Nth(S, k) \in S
        /\ \A k, l \in 1..c : k < l => Forms!Nth(S, k) < Forms!Nth(S, l)
        /\ \A i \in S : \E k \in 1..c : Forms!Nth(S, k) = i
    BY ONLY <1>1, NthIs
  <1> HIDE DEF c
  <1>3. /\ DOMAIN to = 1..c
        /\ \A k \in 1..c : to[k] \in S
        /\ \A k, l \in 1..c : k < l => to[k] < to[l]
        /\ \A i \in S : \E k \in 1..c : to[k] = i
    BY <1>2, FormsCount DEF Forms!InOrder, c
  <1>4. left = [k \in 1..c |-> s[to[k]]]
    BY <1>3 DEF Forms!Filtered, S
  <1>5. \A k \in 1..c : to[k] \in DOMAIN s /\ s[to[k]] \in T /\ s[to[k]] \in E
    BY <1>1, <1>3 DEF S
  <1> HIDE DEF to, left
  <1>6. left \in Seq(E) /\ Len(left) = c
    <2>1. left \in [1..c -> E] /\ c \in Nat
      BY <1>2, <1>4, <1>5
    <2> QED
      BY <2>1
  <1>7. to \in [1..c -> DOMAIN s]
    BY <1>3, <1>5 DEF to, Forms!InOrder, c
  <1>8. \A k \in 1..c : left[k] = s[to[k]] /\ left[k] \in T
    BY <1>4, <1>5
  <1>9. \A i \in DOMAIN s : s[i] \in T => \E k \in 1..c : to[k] = i
    BY <1>3 DEF S
  <1>10. \E t \in [1..c -> DOMAIN s] :
            /\ \A k \in 1..c : left[k] = s[t[k]] /\ left[k] \in T
            /\ \A k, l \in 1..c : k < l => t[k] < t[l]
            /\ \A i \in DOMAIN s : s[i] \in T => \E k \in 1..c : t[k] = i
    BY <1>3, <1>7, <1>8, <1>9
  <1>11. left \in Seq(E) /\ Len(left) <= Len(s) /\ Len(left) \in Nat
    BY <1>1, <1>2, <1>6
  <1> QED
    BY <1>6, <1>10, <1>11 DEF left

\* Changes of a file's fields, one for a field at most, which the file takes.
Batches(F) == {list \in Seq(Forms!Op) :
                 /\ \A i, k \in DOMAIN list : list[i].name = list[k].name => i = k
                 /\ \A i \in DOMAIN list :
                       /\ list[i].action = "add" <=> F[list[i].name] = None
                       /\ list[i].action = "delete" \/ list[i].def \in Defs}
\* What they make of it, the changes at s.
MadeBy(F, list, s) ==
    [n \in Names |-> IF \E i \in s : list[i].name = n
                     THEN LET chg == list[CHOOSE i \in s : list[i].name = n]
                          IN  IF chg.action = "delete" THEN None
                              ELSE [def |-> chg.def, val |-> None]
                     ELSE F[n]]

Folds(it, F, list) ==
    it = [s \in SUBSET (DOMAIN list) |->
            IF s = {} THEN F ELSE Forms!ApplyOp(it[s \ {Forms!Max(s)}], list[Forms!Max(s)])]
LEMMA BatchIs ==
  ASSUME NEW F, NEW list
  PROVE  Forms!ApplyBatch(F, list) = (CHOOSE it : Folds(it, F, list))[DOMAIN list]
  BY DEF Forms!ApplyBatch, Forms!FoldLeft, Forms!MapThenFoldSet, Folds

LEMMA NotRefused ==
  ASSUME NEW f, DOMAIN f = Names
  PROVE  f # Forms!Refused
  <1>1. DOMAIN Forms!Refused = {}
    BY DEF Forms!Refused
  <1> QED
    BY <1>1, FormsAssumption DEF Forms!Assumptions

LEMMA FieldIs ==
  ASSUME NEW d \in Defs
  PROVE  [def |-> d, val |-> None] \in Forms!Field /\ [def |-> d, val |-> None] # None
  BY FormsAssumption DEF Forms!Assumptions, Forms!Field

\* One change more.
LEMMA MadeOne ==
  ASSUME NEW F \in Forms!File, NEW list \in Batches(F), NEW s \in SUBSET (DOMAIN list),
         NEW x \in s
  PROVE  MadeBy(F, list, s) = Forms!ApplyOp(MadeBy(F, list, s \ {x}), list[x])
  <1> DEFINE g == MadeBy(F, list, s \ {x})
             chg == list[x]
  <1>0. chg \in Forms!Op /\ x \in DOMAIN list
        /\ \A i \in s : list[i] \in Forms!Op /\ i \in DOMAIN list
    BY DEF Batches
  <1>1. ~\E i \in s \ {x} : list[i].name = chg.name
    BY <1>0 DEF Batches
  <1>2. chg.name \in Names /\ g[chg.name] = F[chg.name] /\ DOMAIN g = Names
    BY <1>0, <1>1 DEF MadeBy, Forms!Op
  <1>3. g # Forms!Refused
    BY <1>2, NotRefused
  <1>4. ~((chg.action = "add") # (g[chg.name] = None))
    BY <1>0, <1>2 DEF Batches
  <1>5. Forms!ApplyOp(g, chg) = [g EXCEPT ![chg.name] = IF chg.action = "delete" THEN None
                                                        ELSE [def |-> chg.def, val |-> None]]
    BY <1>3, <1>4 DEF Forms!ApplyOp
  <1>6. ASSUME NEW n \in Names
        PROVE  MadeBy(F, list, s)[n] = Forms!ApplyOp(g, chg)[n]
    <2>1. CASE n = chg.name
      <3>1. \A i \in s : list[i].name = n => i = x
        BY <1>0, <2>1 DEF Batches
      <3>2. (CHOOSE i \in s : list[i].name = n) = x
        BY <2>1, <3>1
      <3>3. MadeBy(F, list, s)[n] = IF chg.action = "delete" THEN None
                                    ELSE [def |-> chg.def, val |-> None]
        BY <2>1, <3>2 DEF MadeBy
      <3> QED
        BY <1>2, <1>5, <2>1, <3>3
    <2>2. CASE n # chg.name
      <3>1. \A i : (i \in s /\ list[i].name = n) <=> (i \in s \ {x} /\ list[i].name = n)
        BY <2>2
      <3>2. (\E i \in s : list[i].name = n) <=> (\E i \in s \ {x} : list[i].name = n)
        BY <3>1
      <3>3. (CHOOSE i \in s : list[i].name = n) = (CHOOSE i \in s \ {x} : list[i].name = n)
        BY <3>1
      <3>4. MadeBy(F, list, s)[n] = g[n]
        BY <3>2, <3>3 DEF MadeBy
      <3> QED
        BY <1>2, <1>5, <2>2, <3>4
    <2> QED
      BY <2>1, <2>2
  <1>7. MadeBy(F, list, s) = [n \in Names |-> MadeBy(F, list, s)[n]]
    BY DEF MadeBy
  <1>8. Forms!ApplyOp(g, chg) = [n \in Names |-> Forms!ApplyOp(g, chg)[n]]
    BY <1>2, <1>5
  <1> QED
    BY <1>6, <1>7, <1>8

\* What the server makes of such changes, taken one after another.
LEMMA MadeIs ==
  ASSUME NEW F \in Forms!File, NEW list \in Batches(F)
  PROVE  Forms!ApplyBatch(F, list) = MadeBy(F, list, DOMAIN list)
  <1> DEFINE D == DOMAIN list
             G == [s \in SUBSET D |-> MadeBy(F, list, s)]
             H == CHOOSE it : Folds(it, F, list)
  <1>0. Len(list) \in Nat /\ D = 1..Len(list) /\ list \in Seq(Forms!Op)
    BY DEF Batches
  <1>1. ASSUME NEW s \in SUBSET D, s # {}
        PROVE  Forms!Max(s) \in s
    <2>1. s \in SUBSET (0..Len(list))
      BY <1>0
    <2> QED
      BY ONLY <1>0, <1>1, <2>1, FormsMostOf
  <1>2. MadeBy(F, list, {}) = F
    BY DEF MadeBy, Forms!File
  <1>3. Folds(G, F, list)
    <2>1. ASSUME NEW s \in SUBSET D
          PROVE  G[s] = IF s = {} THEN F
                        ELSE Forms!ApplyOp(G[s \ {Forms!Max(s)}], list[Forms!Max(s)])
      <3>1. CASE s = {}
        BY <1>2, <3>1
      <3>2. CASE s # {}
        BY <1>1, <3>2, MadeOne
      <3> QED
        BY <3>1, <3>2
    <2> HIDE DEF G
    <2>2. G = [s \in SUBSET D |-> G[s]]
      BY DEF G
    <2> QED
      BY <2>1, <2>2 DEF Folds
  <1>4. Folds(H, F, list)
    BY <1>3
  <1> HIDE DEF H, G
  <1>5. \A s \in SUBSET D : H[s] = IF s = {} THEN F
                                   ELSE Forms!ApplyOp(H[s \ {Forms!Max(s)}], list[Forms!Max(s)])
    BY <1>4 DEF Folds
  <1>6. \A s \in SUBSET D : G[s] = IF s = {} THEN F
                                   ELSE Forms!ApplyOp(G[s \ {Forms!Max(s)}], list[Forms!Max(s)])
    BY <1>3 DEF Folds
  <1>7. \A k \in Nat : k <= Len(list) => H[1..k] = G[1..k]
    <2> DEFINE Bad == {k \in Nat : k <= Len(list) /\ H[1..k] # G[1..k]}
    <2> SUFFICES ASSUME Bad # {} PROVE FALSE
      OBVIOUS
    <2>1. PICK m \in Bad : \A k \in Bad : <<k, m>> \notin OpToRel(<, Nat)
      BY WFMin, NatLessThanWellFounded, Zenon
    <2>2. m \in Nat /\ m <= Len(list) /\ H[1..m] # G[1..m] /\ \A k \in Bad : ~ (k < m)
      BY <2>1 DEF OpToRel
    <2>3. m # 0
      <3>1. 1..0 = {} /\ {} \in SUBSET D
        OBVIOUS
      <3> QED
        BY <1>5, <1>6, <2>2, <3>1
    <2>4. m - 1 \in Nat /\ m - 1 <= Len(list) /\ m - 1 < m
      BY <1>0, <2>2, <2>3
    <2>5. H[1..(m - 1)] = G[1..(m - 1)]
      BY <2>2, <2>4
    <2>6. 1..m \in SUBSET D /\ 1..m # {} /\ Forms!Max(1..m) = m /\ (1..m) \ {m} = 1..(m - 1)
      <3>0. m \in 1..m /\ 1..m \subseteq 1..Len(list)
        BY ONLY <1>0, <2>2, <2>3
      <3>a. (1..m) \ {m} = 1..(m - 1)
        BY ONLY <2>2, <2>3
      <3>1. 1..m \in SUBSET D /\ 1..m # {} /\ (1..m) \ {m} = 1..(m - 1) /\ m \in 1..m
        BY <1>0, <3>0, <3>a
      <3>2. \E x \in 1..m : \A y \in 1..m : x >= y
        BY <2>2, <3>1
      <3>3. Forms!Max(1..m) \in 1..m /\ \A y \in 1..m : Forms!Max(1..m) >= y
        BY <3>2 DEF Forms!Max
      <3>4. PICK z \in 1..m : z = Forms!Max(1..m) /\ z >= m
        BY <3>1, <3>3
      <3>5. z = m
        BY <2>2, <3>4
      <3> QED
        BY <3>1, <3>4, <3>5
    <2>7. H[1..m] = Forms!ApplyOp(H[1..(m - 1)], list[m])
      BY ONLY <1>5, <2>6
    <2>8. G[1..m] = Forms!ApplyOp(G[1..(m - 1)], list[m])
      BY ONLY <1>6, <2>6
    <2> QED
      BY ONLY <2>2, <2>5, <2>7, <2>8
  <1>8. H[D] = G[D]
    BY <1>0, <1>7
  <1>9. G[D] = MadeBy(F, list, D)
    BY DEF G
  <1> QED
    BY <1>8, <1>9, BatchIs DEF H

-----------------------------------------------------------------------------
Has(list, m, a) == \E i \in DOMAIN list : list[i].name = m /\ list[i].action = a
Named(list, m)  == \E i \in DOMAIN list : list[i].name = m

LEMMA BatchFacts ==
  ASSUME NEW F, NEW list \in Batches(F)
  PROVE  /\ list \in Seq(Forms!Op) /\ Len(list) \in Nat /\ DOMAIN list = 1..Len(list)
         /\ \A i \in 1..Len(list) : list[i] \in Forms!Op
         /\ \A i, k \in 1..Len(list) : list[i].name = list[k].name => i = k
         /\ \A i \in 1..Len(list) : /\ list[i].action = "add" <=> F[list[i].name] = None
                                    /\ list[i].action = "delete" \/ list[i].def \in Defs
  <1>1. list \in Seq(Forms!Op)
    BY DEF Batches
  <1>2. DOMAIN list = 1..Len(list) /\ Len(list) \in Nat
        /\ \A i \in 1..Len(list) : list[i] \in Forms!Op
    BY <1>1
  <1> QED
    BY <1>1, <1>2 DEF Batches

LEMMA IsBatch ==
  ASSUME NEW F, NEW list \in Seq(Forms!Op),
         \A i, k \in 1..Len(list) : list[i].name = list[k].name => i = k,
         \A i \in 1..Len(list) : /\ list[i].action = "add" <=> F[list[i].name] = None
                                 /\ list[i].action = "delete" \/ list[i].def \in Defs
  PROVE  list \in Batches(F)
  BY DEF Batches

LEMMA EmptyBatch == ASSUME NEW F PROVE <<>> \in Batches(F)
  BY DEF Batches

\* A change of a field that had none.
LEMMA OneMore ==
  ASSUME NEW F, NEW list \in Batches(F), NEW chg \in Forms!Op, ~Named(list, chg.name),
         chg.action = "add" <=> F[chg.name] = None, chg.action = "delete" \/ chg.def \in Defs
  PROVE  /\ Append(list, chg) \in Batches(F)
         /\ \A m, a : Has(Append(list, chg), m, a)
                      <=> Has(list, m, a) \/ (chg.name = m /\ chg.action = a)
  <1> DEFINE new == Append(list, chg)
  <1>0. /\ list \in Seq(Forms!Op) /\ Len(list) \in Nat /\ DOMAIN list = 1..Len(list)
        /\ \A i \in 1..Len(list) : list[i] \in Forms!Op
        /\ \A i, k \in 1..Len(list) : list[i].name = list[k].name => i = k
        /\ \A i \in 1..Len(list) : /\ list[i].action = "add" <=> F[list[i].name] = None
                                   /\ list[i].action = "delete" \/ list[i].def \in Defs
    BY BatchFacts
  <1>1. new \in Seq(Forms!Op) /\ Len(new) = Len(list) + 1 /\ DOMAIN new = 1..(Len(list) + 1)
        /\ new[Len(list) + 1] = chg /\ \A i \in 1..Len(list) : new[i] = list[i]
    BY <1>0
  <1> HIDE DEF new
  <1>2. \A i \in 1..Len(new) : i \in 1..Len(list) \/ i = Len(list) + 1
    BY <1>0, <1>1
  <1>3. \A i \in 1..Len(list) : list[i].name # chg.name
    BY <1>0 DEF Named
  <1>4. \A i, k \in 1..Len(new) : new[i].name = new[k].name => i = k
    BY <1>0, <1>1, <1>2, <1>3
  <1>5. \A i \in 1..Len(new) : /\ new[i].action = "add" <=> F[new[i].name] = None
                               /\ new[i].action = "delete" \/ new[i].def \in Defs
    BY <1>0, <1>1, <1>2
  <1>6. new \in Batches(F)
    BY <1>1, <1>4, <1>5, IsBatch
  <1>7. ASSUME NEW m, NEW a
        PROVE  Has(new, m, a) <=> Has(list, m, a) \/ (chg.name = m /\ chg.action = a)
    <2>1. Len(list) + 1 \in DOMAIN new /\ \A i \in DOMAIN list : i \in DOMAIN new
      BY <1>0, <1>1
    <2>2. \A i \in DOMAIN new : i \in DOMAIN list \/ i = Len(list) + 1
      BY <1>0, <1>1
    <2> QED
      BY <1>0, <1>1, <2>1, <2>2 DEF Has
  <1> QED
    BY <1>6, <1>7 DEF new

\* The changes of every other field.
Others(list, n) == Forms!Filtered(list, {chg \in Forms!ToSet(list) : chg.name # n})
LEMMA OthersAre ==
  ASSUME NEW F, NEW list \in Batches(F), NEW n
  PROVE  /\ Others(list, n) \in Batches(F) /\ ~Named(Others(list, n), n)
         /\ \A m, a : m # n => (Has(Others(list, n), m, a) <=> Has(list, m, a))
  <1> DEFINE T == {chg \in Forms!ToSet(list) : chg.name # n}
             left == Forms!Filtered(list, T)
  <1>0. /\ list \in Seq(Forms!Op) /\ Len(list) \in Nat /\ DOMAIN list = 1..Len(list)
        /\ \A i \in 1..Len(list) : list[i] \in Forms!Op
        /\ \A i, k \in 1..Len(list) : list[i].name = list[k].name => i = k
        /\ \A i \in 1..Len(list) : /\ list[i].action = "add" <=> F[list[i].name] = None
                                   /\ list[i].action = "delete" \/ list[i].def \in Defs
    BY BatchFacts
  <1>1. \A i \in 1..Len(list) : list[i] \in T <=> list[i].name # n
    BY <1>0 DEF Forms!ToSet
  <1>2. \A t \in T : t.name # n
    OBVIOUS
  <1> HIDE DEF T
  <1>3. /\ left \in Seq(Forms!Op) /\ Len(left) <= Len(list) /\ Len(left) \in Nat
        /\ \E to \in [1..Len(left) -> DOMAIN list] :
              /\ \A k \in 1..Len(left) : left[k] = list[to[k]] /\ left[k] \in T
              /\ \A k, l \in 1..Len(left) : k < l => to[k] < to[l]
              /\ \A i \in DOMAIN list : list[i] \in T => \E k \in 1..Len(left) : to[k] = i
    <2>1. list \in Seq(Forms!Op)
      BY <1>0
    <2> QED
      BY ONLY <2>1, FilteredIs
  <1>a. \E to \in [1..Len(left) -> 1..Len(list)] :
              /\ \A k \in 1..Len(left) : left[k] = list[to[k]] /\ left[k] \in T
              /\ \A k, l \in 1..Len(left) : k < l => to[k] < to[l]
              /\ \A i \in 1..Len(list) : list[i] \in T => \E k \in 1..Len(left) : to[k] = i
    <2>1. DOMAIN list = 1..Len(list)
      BY <1>0
    <2> QED
      BY ONLY <1>3, <2>1
  <1>4. PICK to \in [1..Len(left) -> 1..Len(list)] :
              /\ \A k \in 1..Len(left) : left[k] = list[to[k]] /\ left[k] \in T
              /\ \A k, l \in 1..Len(left) : k < l => to[k] < to[l]
              /\ \A i \in 1..Len(list) : list[i] \in T => \E k \in 1..Len(left) : to[k] = i
    BY <1>a
  <1> HIDE DEF left
  <1>5. \A k, l \in 1..Len(left) : to[k] = to[l] => k = l
    <2>1. \A k \in 1..Len(left) : to[k] \in Int
      BY <1>4
    <2>2. \A k, l \in 1..Len(left) : k < l => to[k] # to[l]
      BY <1>4, <2>1
    <2>3. \A k, l \in 1..Len(left) : k < l \/ l < k \/ k = l
      OBVIOUS
    <2> QED
      BY <2>2, <2>3
  <1>6. DOMAIN left = 1..Len(left)
    BY <1>3
  <1>7. left \in Batches(F)
    <2>1. \A k, l \in 1..Len(left) : left[k].name = left[l].name => k = l
      BY <1>0, <1>4, <1>5
    <2>2. \A k \in 1..Len(left) : /\ left[k].action = "add" <=> F[left[k].name] = None
                                  /\ left[k].action = "delete" \/ left[k].def \in Defs
      BY <1>0, <1>4
    <2> QED
      BY <1>3, <2>1, <2>2, IsBatch
  <1>8. ~Named(left, n)
    BY <1>2, <1>4, <1>6 DEF Named
  <1>9. ASSUME NEW m, NEW a, m # n
        PROVE  Has(left, m, a) <=> Has(list, m, a)
    <2>1. Has(left, m, a) => Has(list, m, a)
      BY <1>0, <1>4, <1>6 DEF Has
    <2>2. Has(list, m, a) => Has(left, m, a)
      <3> SUFFICES ASSUME NEW i \in 1..Len(list), list[i].name = m, list[i].action = a
                   PROVE  Has(left, m, a)
        BY <1>0 DEF Has
      <3>1. list[i] \in T
        BY <1>1, <1>9
      <3>2. PICK k \in 1..Len(left) : to[k] = i
        BY <1>4, <3>1
      <3>3. left[k] = list[i]
        BY <1>4, <3>2
      <3> QED
        BY <1>6, <3>2, <3>3 DEF Has
    <2> QED
      BY <2>1, <2>2
  <1> QED
    BY <1>7, <1>8, <1>9 DEF left, T, Others

LEMMA NamedHas ==
  ASSUME NEW F, NEW list \in Batches(F), NEW m
  PROVE  /\ Named(list, m)
               <=> Has(list, m, "add") \/ Has(list, m, "update") \/ Has(list, m, "delete")
         /\ Has(list, m, "add") => F[m] = None
         /\ F[m] = None => ~Has(list, m, "delete") /\ ~Has(list, m, "update")
         /\ Forms!Staged(list, m) = {} <=> ~Has(list, m, "add") /\ ~Has(list, m, "update")
         /\ Has(list, m, "delete") => Forms!Staged(list, m) = {}
  <1>0. /\ DOMAIN list = 1..Len(list)
        /\ \A i \in DOMAIN list : list[i].action \in {"add", "update", "delete"}
        /\ \A i, k \in DOMAIN list : list[i].name = list[k].name => i = k
        /\ \A i \in DOMAIN list : list[i].action = "add" <=> F[list[i].name] = None
    BY BatchFacts DEF Forms!Op
  <1>1. Named(list, m) <=> Has(list, m, "add") \/ Has(list, m, "update") \/ Has(list, m, "delete")
    BY <1>0 DEF Named, Has
  <1>2. Has(list, m, "add") => F[m] = None
    BY <1>0 DEF Has
  <1>3. F[m] = None => ~Has(list, m, "delete") /\ ~Has(list, m, "update")
    BY <1>0 DEF Has
  <1>4. Forms!Staged(list, m) = {} <=> ~Has(list, m, "add") /\ ~Has(list, m, "update")
    BY <1>0 DEF Has, Forms!Staged
  <1>5. Has(list, m, "delete") => Forms!Staged(list, m) = {}
    BY <1>0 DEF Has, Forms!Staged
  <1> QED
    BY <1>1, <1>2, <1>3, <1>4, <1>5

LEMMA AddedIs ==
  ASSUME NEW F, NEW list \in Batches(F), NEW n \in Names, NEW d \in Defs,
         F[n] = None, ~Named(list, n)
  PROVE  /\ Forms!Added(list, n, d) \in Batches(F) /\ Has(Forms!Added(list, n, d), n, "add")
         /\ \A m, a : m # n => (Has(Forms!Added(list, n, d), m, a) <=> Has(list, m, a))
  <1>1. PICK chg : chg = [action |-> "add", name |-> n, def |-> d]
    OBVIOUS
  <1>2. chg \in Forms!Op /\ chg.name = n /\ chg.action = "add" /\ chg.def \in Defs
    BY <1>1 DEF Forms!Op
  <1>3. Forms!Added(list, n, d) = Append(list, chg)
    BY <1>1 DEF Forms!Added
  <1> QED
    BY <1>2, <1>3, OneMore

LEMMA DeletedIs ==
  ASSUME NEW F, NEW list \in Batches(F), NEW n \in Names, F[n] # None \/ Named(list, n)
  PROVE  /\ Forms!Deleted(list, n) \in Batches(F)
         /\ \A m, a : m # n => (Has(Forms!Deleted(list, n), m, a) <=> Has(list, m, a))
         /\ F[n] = None => ~Named(Forms!Deleted(list, n), n)
  <1>1. PICK rest : rest = Others(list, n)
    OBVIOUS
  <1>2. rest \in Batches(F) /\ ~Named(rest, n)
        /\ \A m, a : m # n => (Has(rest, m, a) <=> Has(list, m, a))
    BY <1>1, OthersAre
  <1>3. PICK chg : chg = [action |-> "delete", name |-> n, def |-> None]
    OBVIOUS
  <1>4. chg \in Forms!Op /\ chg.name = n /\ chg.action = "delete"
    BY <1>3 DEF Forms!Op
  <1>5. Forms!Deleted(list, n) = IF Has(list, n, "add") THEN rest ELSE Append(rest, chg)
    BY <1>1, <1>3 DEF Forms!Deleted, Others, Has
  <1>6. CASE Has(list, n, "add")
    BY <1>2, <1>5, <1>6
  <1>7. CASE ~Has(list, n, "add")
    <2>1. F[n] # None
      BY <1>7, NamedHas
    <2>2. Append(rest, chg) \in Batches(F)
          /\ \A m, a : Has(Append(rest, chg), m, a)
                      <=> Has(rest, m, a) \/ (chg.name = m /\ chg.action = a)
      BY <1>2, <1>4, <2>1, OneMore
    <2> QED
      BY <1>2, <1>4, <1>5, <1>7, <2>1, <2>2
  <1> QED
    BY <1>6, <1>7

LEMMA UpdatedIs ==
  ASSUME NEW F, NEW list \in Batches(F), NEW n \in Names, NEW d \in Defs,
         Forms!Staged(list, n) = {} => F[n] # None /\ ~Named(list, n)
  PROVE  /\ Forms!Updated(list, n, d) \in Batches(F) /\ Named(Forms!Updated(list, n, d), n)
         /\ ~Has(Forms!Updated(list, n, d), n, "delete")
         /\ \A m, a : m # n => (Has(Forms!Updated(list, n, d), m, a) <=> Has(list, m, a))
  <1>1. CASE Forms!Staged(list, n) = {}
    <2>1. PICK chg : chg = [action |-> "update", name |-> n, def |-> d]
      OBVIOUS
    <2>2. chg \in Forms!Op /\ chg.name = n /\ chg.action = "update" /\ chg.def \in Defs
      BY <2>1 DEF Forms!Op
    <2>3. Forms!Updated(list, n, d) = Append(list, chg)
      BY <1>1, <2>1 DEF Forms!Updated
    <2>4. Append(list, chg) \in Batches(F)
          /\ \A m, a : Has(Append(list, chg), m, a)
                      <=> Has(list, m, a) \/ (chg.name = m /\ chg.action = a)
      BY <1>1, <2>2, OneMore
    <2>5. ~Has(list, n, "delete")
      BY <1>1, NamedHas
    <2>6. Named(Append(list, chg), n)
      <3>1. Has(Append(list, chg), n, "update")
        BY <2>2, <2>4
      <3> QED
        BY <3>1 DEF Has, Named
    <2> QED
      BY <2>2, <2>3, <2>4, <2>5, <2>6
  <1>2. CASE Forms!Staged(list, n) # {}
    <2>0. /\ list \in Seq(Forms!Op) /\ Len(list) \in Nat /\ DOMAIN list = 1..Len(list)
          /\ \A i \in 1..Len(list) : list[i] \in Forms!Op
          /\ \A i, k \in 1..Len(list) : list[i].name = list[k].name => i = k
          /\ \A i \in 1..Len(list) : /\ list[i].action = "add" <=> F[list[i].name] = None
                                     /\ list[i].action = "delete" \/ list[i].def \in Defs
      BY BatchFacts
    <2>1. PICK j \in Forms!Staged(list, n) : TRUE
      BY <1>2
    <2>2. \A i \in Forms!Staged(list, n) : i = j
      BY <2>0, <2>1 DEF Forms!Staged
    <2>3. (CHOOSE i \in Forms!Staged(list, n) : \A k \in Forms!Staged(list, n) : i <= k) = j
      <3>1. j <= j
        BY <2>0, <2>1 DEF Forms!Staged
      <3> QED
        BY <2>1, <2>2, <3>1
    <2>4. Forms!Updated(list, n, d) = [list EXCEPT ![j].def = d]
      BY <1>2, <2>3 DEF Forms!Updated
    <2>5. j \in 1..Len(list) /\ list[j].name = n /\ list[j].action # "delete"
      BY <2>0, <2>1 DEF Forms!Staged
    <2>6. PICK chg : chg = [list[j] EXCEPT !.def = d]
      OBVIOUS
    <2>7. chg \in Forms!Op /\ chg.name = n /\ chg.action = list[j].action /\ chg.def = d
      BY <2>0, <2>5, <2>6 DEF Forms!Op
    <2>8. PICK new : new = [list EXCEPT ![j] = chg]
      OBVIOUS
    <2>9. Forms!Updated(list, n, d) = new
      BY <2>4, <2>6, <2>8
    <2>10. /\ new \in Seq(Forms!Op) /\ Len(new) = Len(list) /\ new[j] = chg
           /\ DOMAIN new = 1..Len(list)
           /\ \A i \in 1..Len(list) : i # j => new[i] = list[i]
      BY ONLY <2>0, <2>5, <2>7, <2>8
    <2>11. \A i \in 1..Len(list) : new[i].name = list[i].name /\ new[i].action = list[i].action
      BY <2>5, <2>7, <2>10
    <2>12. new \in Batches(F)
      <3>1. \A i, k \in 1..Len(new) : new[i].name = new[k].name => i = k
        BY <2>0, <2>10, <2>11
      <3>2. \A i \in 1..Len(new) : /\ new[i].action = "add" <=> F[new[i].name] = None
                                   /\ new[i].action = "delete" \/ new[i].def \in Defs
        BY <2>0, <2>5, <2>7, <2>10, <2>11
      <3> QED
        BY <2>10, <3>1, <3>2, IsBatch
    <2>13. \A m, a : Has(new, m, a) <=> Has(list, m, a)
      BY <2>0, <2>10, <2>11 DEF Has
    <2>14. ~Has(list, n, "delete") /\ Named(list, n)
      BY <2>0, <2>5 DEF Has, Named
    <2>15. Named(new, n)
      BY <2>0, <2>5, <2>10, <2>11 DEF Named
    <2> QED
      BY <2>9, <2>12, <2>13, <2>14, <2>15
  <1> QED
    BY <1>1, <1>2

\* What is shown of a field.
LEMMA ShownWhen ==
  ASSUME NEW F, F = Forms!Fields, ops \in Batches(F), NEW n, Forms!Shown(n) # None
  PROVE  /\ ~Has(ops, n, "delete") /\ (F[n] # None \/ Named(ops, n))
         /\ Forms!Staged(ops, n) = {} => F[n] # None /\ ~Named(ops, n)
  <1>1. CASE Forms!Staged(ops, n) # {}
    <2>1. ~Has(ops, n, "delete")
      BY <1>1, NamedHas
    <2>2. Named(ops, n)
      BY <1>1 DEF Forms!Staged, Named
    <2> QED
      BY <1>1, <2>1, <2>2
  <1>2. CASE Forms!Staged(ops, n) = {}
    <2>1. F[n] # None /\ ~Named(ops, n)
      BY <1>2 DEF Forms!Shown, Named
    <2> QED
      BY <2>1, NamedHas
  <1> QED
    BY <1>1, <1>2

\* What the sheet holds of a field that is selected.
LEMMA SelectIs ==
  ASSUME NEW F, F = Forms!Fields, NEW list \in Batches(F), NEW n, NEW isNew,
         F[n] # None \/ Named(list, n)
  PROVE  LET s == Forms!Select(list, n, isNew)
         IN  /\ s.name = n /\ (s.original # None => s.original.name = n)
             /\ s.isNew <=> isNew \/ F[n] = None
  <1>0. /\ DOMAIN list = 1..Len(list) /\ Len(list) \in Nat
        /\ \A i \in DOMAIN list : list[i].action = "add" <=> F[list[i].name] = None
        /\ \A i, k \in DOMAIN list : list[i].name = list[k].name => i = k
    BY BatchFacts
  <1> DEFINE at == {i \in DOMAIN list : list[i].name = n}
             chg == list[CHOOSE i \in at : \A k \in at : i <= k]
             s == Forms!Select(list, n, isNew)
  <1>1. s = [name |-> n, isNew |-> isNew \/ (at # {} /\ chg.action = "add"),
             original |-> IF at # {} THEN [name |-> n, def |-> chg.def]
                          ELSE IF Forms!Fields[n] # None
                             THEN [name |-> n, def |-> Forms!Fields[n].def]
                          ELSE None]
    BY DEF Forms!Select
  <1>2. at # {} => (chg.action = "add" <=> F[n] = None)
    <2>1. ASSUME NEW j \in at PROVE chg.action = "add" <=> F[n] = None
      <3>1. \A i \in at : i = j
        BY <1>0, <2>1
      <3>2. j <= j
        BY <1>0, <2>1
      <3>3. (CHOOSE i \in at : \A k \in at : i <= k) = j
        BY <2>1, <3>1, <3>2
      <3> QED
        BY <1>0, <2>1, <3>3
    <2> QED
      BY <2>1
  <1>3. at = {} => F[n] # None
    BY DEF Named
  <1>4. s.name = n /\ (s.original # None => s.original.name = n)
    BY <1>1
  <1>5. s.isNew <=> isNew \/ (at # {} /\ chg.action = "add")
    <2>1. PICK b : b = (isNew \/ (at # {} /\ chg.action = "add"))
      OBVIOUS
    <2>2. s.isNew = b
      BY <1>1, <2>1
    <2> QED
      BY <2>1, <2>2, Zenon
  <1> HIDE DEF chg, at
  <1> QED
    BY <1>2, <1>3, <1>4, <1>5

-----------------------------------------------------------------------------
FormJobs == [st : {"idle", "sent", "succeeded", "conflict", "failed"},
             kind : {"none", "fill", "flatten", "import", "batch"}, base : 0..MaxVersion,
             ops : Seq(Forms!Op), values : [Names -> Vals \cup {None}]]

FilesHold == /\ files \in Seq(Forms!File) /\ Len(files) \in Forms!Versions
             /\ formsSeen \in 1..Len(files)
             /\ model \in {0, formsSeen} /\ formsAsks \subseteq {formsSeen}
             /\ (formsAsks # {} => model = 0)
             /\ values \in [Names -> Vals \cup {None}]
\* What is staged, undone or to be redone is a batch for the fields shown.
BuildHolds == /\ ops \in Batches(Forms!Fields)
              /\ formsPast \in Seq(Batches(Forms!Fields))
              /\ formsFuture \in Seq(Batches(Forms!Fields))
              /\ Len(formsPast) + Len(formsFuture) <= Limit
Unread == model = 0 => /\ ops = <<>> /\ formsPast = <<>> /\ formsFuture = <<>>
                       /\ sheet = None /\ formsAsked = None
\* A field on the sheet is on the file or staged, and not to be deleted.
SheetHolds == sheet # None =>
                /\ sheet.name \in Names
                /\ sheet.original # None => sheet.original.name = sheet.name
                /\ sheet.isNew <=> Forms!Fields[sheet.name] = None
                /\ Forms!Fields[sheet.name] # None \/ Named(ops, sheet.name)
                /\ ~Has(ops, sheet.name, "delete")
AskedHolds == /\ formsAsked \in Names \cup {None}
              /\ formsAsked # None => Forms!Fields[formsAsked] # None \/ Named(ops, formsAsked)
FormJobHolds == /\ formsJob \in FormJobs /\ formsBusy \in BOOLEAN
                /\ formsJob.st # "idle" => formsJob.base = formsSeen
                /\ formsJob.st = "succeeded" => formsJob.base < Len(files)
                /\ formsJob.st = "sent" /\ formsJob.kind = "batch"
                      => formsJob.ops \in Batches(files[formsJob.base])
                /\ formsJob.st = "sent" /\ formsJob.kind = "fill"
                   => \A n \in Names : formsJob.values[n] # None => files[formsJob.base][n] # None
FormsInv == FilesHold /\ BuildHolds /\ Unread /\ SheetHolds /\ AskedHolds /\ FormJobHolds

LEMMA NoFileIs == Forms!NoFile \in Forms!File /\ Forms!NoFile \in [Names -> Vals \cup {None}]
  BY DEF Forms!NoFile, Forms!File

LEMMA FieldsAre ==
  ASSUME FilesHold
  PROVE  Forms!Fields \in Forms!File /\ (model # 0 => Forms!Fields = files[formsSeen])
  <1>1. \A i \in 1..Len(files) : files[i] \in Forms!File
    BY DEF FilesHold
  <1> QED
    BY <1>1, NoFileIs DEF FilesHold, Forms!Fields

LEMMA FormsInit == Forms!Init => FormsInv
  <1> SUFFICES ASSUME Forms!Init PROVE FormsInv
    OBVIOUS
  <1>0. MaxVersion \in Nat \ {0} /\ Limit \in Nat
    BY FormsAssumption DEF Forms!Assumptions
  <1>1. PICK d \in Defs, n \in Names :
          files = <<[Forms!NoFile EXCEPT ![n] = [def |-> d, val |-> None]]>>
    BY DEF Forms!Init
  <1>2. PICK f : f = [Forms!NoFile EXCEPT ![n] = [def |-> d, val |-> None]]
    OBVIOUS
  <1>3. f \in Forms!File
    BY <1>2, FieldIs DEF Forms!NoFile, Forms!File
  <1>4. files \in Seq(Forms!File) /\ Len(files) = 1
    BY <1>1, <1>2, <1>3
  <1>5. FilesHold
    BY <1>0, <1>4, NoFileIs DEF Forms!Init, FilesHold, Forms!Versions
  <1>6. BuildHolds
    <2>1. ops = <<>> /\ formsPast = <<>> /\ formsFuture = <<>>
      BY DEF Forms!Init
    <2>2. <<>> \in Seq(Batches(Forms!Fields)) /\ Len(<<>>) = 0
      OBVIOUS
    <2> QED
      BY <1>0, <2>1, <2>2, EmptyBatch DEF BuildHolds
  <1>7. Forms!NoJob \in FormJobs
    <2>1. <<>> \in Seq(Forms!Op) /\ 0 \in 0..MaxVersion
      BY <1>0
    <2> QED
      BY <2>1, NoFileIs DEF Forms!NoJob, FormJobs
  <1>8. FormJobHolds
    BY <1>7 DEF Forms!Init, FormJobHolds, Forms!NoJob
  <1> QED
    BY <1>5, <1>6, <1>8 DEF Forms!Init, FormsInv, Unread, SheetHolds, AskedHolds
LEMMA FormsRemembered ==
  ASSUME NEW S, NEW stack \in Seq(S), NEW e \in S
  PROVE  Forms!Remember(stack, e) \in Seq(S) /\ Len(Forms!Remember(stack, e)) \in Nat
         /\ (Len(stack) <= Limit => Len(Forms!Remember(stack, e)) <= Limit)
  <1>0. Limit \in Nat \ {0} /\ Len(stack) \in Nat
    BY FormsAssumption DEF Forms!Assumptions
  <1>1. PICK longer : longer = Append(stack, e)
    OBVIOUS
  <1>2. longer \in Seq(S) /\ Len(longer) = Len(stack) + 1 /\ longer # <<>>
    BY <1>0, <1>1, Pushes
  <1>3. Forms!Remember(stack, e) = (IF Len(longer) > Limit THEN Tail(longer) ELSE longer)
    BY <1>1 DEF Forms!Remember
  <1>4. CASE Len(longer) > Limit
    <2>1. Forms!Remember(stack, e) = Tail(longer)
      BY <1>3, <1>4
    <2>2. Tail(longer) \in Seq(S) /\ Len(Tail(longer)) = Len(longer) - 1
      BY ONLY <1>2, Shortens
    <2> QED
      BY <1>0, <1>2, <2>1, <2>2
  <1>5. CASE ~(Len(longer) > Limit)
    BY <1>0, <1>2, <1>3, <1>5
  <1> QED
    BY <1>4, <1>5

\* What stays while something is built.
LEMMA Built ==
  ASSUME FormsInv, UNCHANGED <<files, formsSeen, model, formsAsks, values, formsJob, formsBusy>>,
         model # 0,
         ops' \in Batches(Forms!Fields), formsPast' \in Seq(Batches(Forms!Fields)),
         formsFuture' \in Seq(Batches(Forms!Fields)),
         Len(formsPast') + Len(formsFuture') <= Limit,
         SheetHolds', AskedHolds'
  PROVE  FormsInv'
  <1>1. Forms!Fields' = Forms!Fields
    BY DEF Forms!Fields
  <1>2. FilesHold' /\ FormJobHolds' /\ Unread'
    BY DEF FormsInv, FilesHold, FormJobHolds, Unread
  <1>3. BuildHolds'
    BY <1>1 DEF BuildHolds
  <1> QED
    BY <1>2, <1>3 DEF FormsInv

LEMMA StageIs ==
  ASSUME FormsInv, NEW list \in Batches(Forms!Fields), Forms!Stage(list)
  PROVE  /\ ops' = list /\ formsPast' \in Seq(Batches(Forms!Fields))
         /\ formsFuture' \in Seq(Batches(Forms!Fields))
         /\ Len(formsPast') + Len(formsFuture') <= Limit
  <1>0. Limit \in Nat /\ formsPast \in Seq(Batches(Forms!Fields)) /\ ops \in Batches(Forms!Fields)
        /\ Len(formsPast) \in Nat /\ Len(formsFuture) \in Nat /\ Len(formsPast) <= Limit
    <2>1. Limit \in Nat /\ formsPast \in Seq(Batches(Forms!Fields))
          /\ ops \in Batches(Forms!Fields)
          /\ formsFuture \in Seq(Batches(Forms!Fields))
          /\ Len(formsPast) + Len(formsFuture) <= Limit
      BY FormsAssumption DEF Forms!Assumptions, FormsInv, BuildHolds
    <2>2. Len(formsPast) \in Nat /\ Len(formsFuture) \in Nat
      BY <2>1
    <2> QED
      BY <2>1, <2>2
  <1>1. ops' = list /\ formsPast' = Forms!Remember(formsPast, ops) /\ formsFuture' = <<>>
    BY DEF Forms!Stage
  <1>2. formsPast' \in Seq(Batches(Forms!Fields)) /\ Len(formsPast') \in Nat
        /\ Len(formsPast') <= Limit
    BY ONLY <1>0, <1>1, FormsRemembered
  <1>3. formsFuture' \in Seq(Batches(Forms!Fields)) /\ Len(formsFuture') = 0
    BY <1>1
  <1> QED
    BY <1>0, <1>1, <1>2, <1>3

\* A new field, drawn or a copy, is on the sheet.
LEMMA NewField ==
  ASSUME FormsInv, model # 0, NEW n \in Names, NEW d \in Defs, ~Forms!Taken(n),
         Forms!Stage(Forms!Added(ops, n, d)), sheet' = Forms!Select(ops', n, TRUE),
         formsAsked = None,
         UNCHANGED <<files, formsSeen, model, formsAsks, values, formsAsked, formsJob, formsBusy>>
  PROVE  FormsInv'
  <1>1. PICK F : F = Forms!Fields
    OBVIOUS
  <1>2. F[n] = None /\ ~Named(ops, n) /\ ops \in Batches(F)
    BY <1>1 DEF Forms!Taken, Named, FormsInv, BuildHolds
  <1>3. PICK list : list = Forms!Added(ops, n, d)
    OBVIOUS
  <1>4. list \in Batches(F) /\ Has(list, n, "add")
    BY ONLY n \in Names, d \in Defs, <1>2, <1>3, AddedIs
  <1>5. /\ ops' = list /\ formsPast' \in Seq(Batches(F)) /\ formsFuture' \in Seq(Batches(F))
        /\ Len(formsPast') + Len(formsFuture') <= Limit
    BY <1>1, <1>3, <1>4, StageIs
  <1>6. Named(list, n) /\ ~Has(list, n, "delete")
    BY <1>2, <1>4, NamedHas
  <1>7. sheet'.name = n /\ (sheet'.original # None => sheet'.original.name = n)
        /\ (sheet'.isNew <=> TRUE)
    <2>0. PICK b : b = TRUE
      OBVIOUS
    <2>1. sheet' = Forms!Select(list, n, b)
      BY <1>5, <2>0
    <2>2. sheet'.name = n /\ (sheet'.original # None => sheet'.original.name = n)
          /\ (sheet'.isNew <=> b \/ F[n] = None)
      <3>1. list \in Batches(F) /\ (F[n] # None \/ Named(list, n))
        BY <1>4, <1>6
      <3> QED
        BY ONLY <1>1, <2>1, <3>1, SelectIs
    <2> QED
      BY <2>0, <2>2
  <1>8. Forms!Fields' = F
    BY <1>1 DEF Forms!Fields
  <1>9. SheetHolds'
    BY <1>2, <1>5, <1>6, <1>7, <1>8 DEF SheetHolds
  <1>10. AskedHolds'
    BY DEF AskedHolds
  <1> QED
    BY <1>1, <1>4, <1>5, <1>9, <1>10, Built

LEMMA FormsSelect ==
  ASSUME FormsInv, model # 0, formsAsked # None => formsAsked' = None, NEW n \in Names,
         Forms!OnSelect(n)
  PROVE  FormsInv'
  <1>1. PICK F : F = Forms!Fields
    OBVIOUS
  <1>2. UNCHANGED <<files, formsSeen, model, formsAsks, values, ops, formsPast, formsFuture,
                    formsAsked, formsJob, formsBusy>>
        /\ sheet' = Forms!Select(ops, n, FALSE) /\ Forms!Shown(n) # None
    BY DEF Forms!OnSelect
  <1>3. ops \in Batches(F)
    BY <1>1 DEF FormsInv, BuildHolds
  <1>4. ~Has(ops, n, "delete") /\ (F[n] # None \/ Named(ops, n))
    BY <1>1, <1>2, <1>3, ShownWhen
  <1>5. sheet'.name = n /\ (sheet'.original # None => sheet'.original.name = n)
        /\ (sheet'.isNew <=> F[n] = None)
    <2>0. PICK b : b = FALSE
      OBVIOUS
    <2>1. sheet' = Forms!Select(ops, n, b)
      BY <1>2, <2>0
    <2>2. sheet'.name = n /\ (sheet'.original # None => sheet'.original.name = n)
          /\ (sheet'.isNew <=> b \/ F[n] = None)
      BY <1>1, <1>3, <1>4, <2>1, SelectIs
    <2> QED
      BY <2>0, <2>2
  <1>6. Forms!Fields' = F
    BY <1>1, <1>2 DEF Forms!Fields
  <1>7. SheetHolds'
    BY <1>2, <1>4, <1>5, <1>6 DEF SheetHolds
  <1>8. AskedHolds'
    BY <1>1, <1>2, <1>6 DEF FormsInv, AskedHolds
  <1>9. formsPast' \in Seq(Batches(Forms!Fields)) /\ formsFuture' \in Seq(Batches(Forms!Fields))
        /\ Len(formsPast') + Len(formsFuture') <= Limit /\ ops' \in Batches(Forms!Fields)
    BY <1>2 DEF FormsInv, BuildHolds
  <1> QED
    BY <1>2, <1>7, <1>8, <1>9, Built

LEMMA FormsApply ==
  ASSUME FormsInv, model # 0, formsAsked = None, NEW n \in Names, NEW d \in Defs,
         Forms!ApplyProperties(n, d)
  PROVE  FormsInv'
  <1>1. PICK F, old : F = Forms!Fields /\ old = sheet.original.name
    OBVIOUS
  <1>2. /\ sheet # None /\ sheet.original # None
        /\ n # old => ~Forms!NameTaken(n)
        /\ UNCHANGED <<files, formsSeen, model, formsAsks, values, formsAsked, formsJob,
                       formsBusy>>
    BY <1>1 DEF Forms!ApplyProperties
  <1>3. /\ sheet.name = old /\ old \in Names /\ (sheet.isNew <=> F[old] = None)
        /\ F[old] # None \/ Named(ops, old)
        /\ ~Has(ops, old, "delete")
    BY <1>1, <1>2 DEF FormsInv, SheetHolds
  <1>4. /\ ops \in Batches(F) /\ formsPast \in Seq(Batches(F)) /\ Len(formsPast) <= Limit
        /\ Limit \in Nat
    <2>1. /\ ops \in Batches(F) /\ formsPast \in Seq(Batches(F))
          /\ formsFuture \in Seq(Batches(F))
          /\ Len(formsPast) + Len(formsFuture) <= Limit /\ Limit \in Nat
      BY <1>1, FormsAssumption DEF Forms!Assumptions, FormsInv, BuildHolds
    <2>2. Len(formsPast) \in Nat /\ Len(formsFuture) \in Nat
      BY <2>1
    <2> QED
      BY <2>1, <2>2
  <1>5. Forms!Fields' = F
    BY <1>1, <1>2 DEF Forms!Fields
  <1>6. AskedHolds'
    BY <1>2 DEF AskedHolds
  <1>7. CASE sheet.isNew \/ n # old
    <2>1. PICK less, list : less = Forms!Deleted(ops, old) /\ list = Forms!Added(less, n, d)
      OBVIOUS
    <2>2. /\ ops' = list /\ formsPast' = Forms!Remember(Forms!Remember(formsPast, ops), less)
          /\ formsFuture' = <<>>
          /\ sheet'.name = n /\ (sheet'.isNew <=> TRUE)
          /\ sheet'.original.name = n
      <3>0. (sheet.isNew \/ n # sheet.original.name) = TRUE
        BY <1>1, <1>7
      <3>1. ops' = list /\ formsPast' = Forms!Remember(Forms!Remember(formsPast, ops), less)
            /\ formsFuture' = <<>>
        BY <1>1, <2>1, <3>0 DEF Forms!ApplyProperties
      <3>2. sheet' = [name |-> n, isNew |-> sheet.isNew \/ n # sheet.original.name,
                      original |-> [name |-> n, def |-> d]]
        BY DEF Forms!ApplyProperties
      <3> QED
        BY <3>0, <3>1, <3>2
    <2>3. less \in Batches(F) /\ (F[old] = None => ~Named(less, old))
          /\ \A m, a : m # old => (Has(less, m, a) <=> Has(ops, m, a))
      BY ONLY <1>3, <1>4, <2>1, DeletedIs
    <2>4. F[n] = None /\ ~Named(less, n)
      <3>1. CASE n = old
        BY <1>3, <1>7, <2>3, <3>1
      <3>2. CASE n # old
        <4>1. F[n] = None /\ Forms!Staged(ops, n) = {}
          BY <1>1, <1>2, <3>2 DEF Forms!NameTaken
        <4>2. ~Has(ops, n, "add") /\ ~Has(ops, n, "update") /\ ~Has(ops, n, "delete")
          BY ONLY <1>4, <4>1, NamedHas
        <4>3. ~Has(less, n, "add") /\ ~Has(less, n, "update") /\ ~Has(less, n, "delete")
          BY <2>3, <3>2, <4>2
        <4> QED
          BY ONLY <2>3, <4>1, <4>3, NamedHas
      <3> QED
        BY <3>1, <3>2
    <2>5. list \in Batches(F) /\ Has(list, n, "add")
      BY ONLY n \in Names, d \in Defs, <2>1, <2>3, <2>4, AddedIs
    <2>6. Named(list, n) /\ ~Has(list, n, "delete")
      BY <2>4, <2>5, NamedHas
    <2>7. formsPast' \in Seq(Batches(F)) /\ Len(formsPast') \in Nat /\ Len(formsPast') <= Limit
      <3>1. PICK one : one = Forms!Remember(formsPast, ops)
        OBVIOUS
      <3>2. one \in Seq(Batches(F)) /\ Len(one) <= Limit
        BY ONLY <1>4, <3>1, FormsRemembered
      <3>3. formsPast' = Forms!Remember(one, less)
        BY <2>2, <3>1
      <3> QED
        BY ONLY <2>3, <3>2, <3>3, FormsRemembered
    <2>8. formsFuture' \in Seq(Batches(F)) /\ Len(formsPast') + Len(formsFuture') <= Limit
      BY <1>4, <2>2, <2>7
    <2>9. SheetHolds'
      BY <1>5, <2>2, <2>4, <2>6 DEF SheetHolds
    <2> QED
      BY <1>1, <1>2, <1>6, <2>2, <2>5, <2>7, <2>8, <2>9, Built
  <1>8. CASE ~(sheet.isNew \/ n # old)
    <2>1. PICK list : list = Forms!Updated(ops, n, d)
      OBVIOUS
    <2>2. /\ Forms!Stage(list) /\ sheet'.name = n /\ (sheet'.isNew <=> FALSE)
          /\ sheet'.original.name = n
      <3>0. (sheet.isNew \/ n # sheet.original.name) = FALSE
        BY <1>1, <1>8
      <3>1. Forms!Stage(list)
        BY <1>1, <2>1, <3>0 DEF Forms!ApplyProperties
      <3>2. sheet' = [name |-> n, isNew |-> sheet.isNew \/ n # sheet.original.name,
                      original |-> [name |-> n, def |-> d]]
        BY DEF Forms!ApplyProperties
      <3> QED
        BY <3>0, <3>1, <3>2
    <2>3. n = old /\ F[n] # None /\ ~Has(ops, n, "delete")
      BY <1>3, <1>8
    <2>4. Forms!Staged(ops, n) = {} => F[n] # None /\ ~Named(ops, n)
      BY ONLY <1>4, <2>3, NamedHas
    <2>5. list \in Batches(F) /\ ~Has(list, n, "delete")
      BY ONLY n \in Names, d \in Defs, <1>4, <2>1, <2>4, UpdatedIs
    <2>6. /\ ops' = list /\ formsPast' \in Seq(Batches(F)) /\ formsFuture' \in Seq(Batches(F))
          /\ Len(formsPast') + Len(formsFuture') <= Limit
      BY <1>1, <2>2, <2>5, StageIs
    <2>7. SheetHolds'
      BY <1>5, <2>2, <2>3, <2>5, <2>6 DEF SheetHolds
    <2> QED
      BY <1>1, <1>2, <1>6, <2>5, <2>6, <2>7, Built
  <1> QED
    BY <1>7, <1>8

LEMMA FormsGeometry ==
  ASSUME FormsInv, model # 0, formsAsked = None, NEW n \in Names, NEW d \in Defs,
         Forms!OnGeometryChanged(n, d)
  PROVE  FormsInv'
  <1>1. PICK F : F = Forms!Fields
    OBVIOUS
  <1>2. PICK list : list = Forms!Updated(ops, n, d)
    OBVIOUS
  <1>3. /\ UNCHANGED <<files, formsSeen, model, formsAsks, values, formsAsked, formsJob,
                       formsBusy>>
        /\ Forms!Shown(n) # None /\ Forms!Stage(list)
        /\ sheet' = IF sheet # None /\ sheet.name = n
                     THEN Forms!Select(ops', n, sheet.isNew) ELSE sheet
    BY <1>2 DEF Forms!OnGeometryChanged
  <1>4. ops \in Batches(F)
    BY <1>1 DEF FormsInv, BuildHolds
  <1>5. /\ ~Has(ops, n, "delete") /\ (F[n] # None \/ Named(ops, n))
        /\ Forms!Staged(ops, n) = {} => F[n] # None /\ ~Named(ops, n)
    BY <1>1, <1>3, <1>4, ShownWhen
  <1>6. /\ list \in Batches(F) /\ Named(list, n) /\ ~Has(list, n, "delete")
        /\ \A m, a : m # n => (Has(list, m, a) <=> Has(ops, m, a))
    BY ONLY n \in Names, d \in Defs, <1>2, <1>4, <1>5, UpdatedIs
  <1>7. /\ ops' = list /\ formsPast' \in Seq(Batches(F)) /\ formsFuture' \in Seq(Batches(F))
        /\ Len(formsPast') + Len(formsFuture') <= Limit
    BY <1>1, <1>3, <1>6, StageIs
  <1>8. Forms!Fields' = F
    BY <1>1, <1>3 DEF Forms!Fields
  <1>9. AskedHolds'
    BY <1>3 DEF AskedHolds
  <1>10. SheetHolds'
    <2>1. CASE sheet # None /\ sheet.name = n
      <3>1. sheet' = Forms!Select(list, n, sheet.isNew) /\ (sheet.isNew <=> F[n] = None)
        BY <1>1, <1>3, <1>7, <2>1 DEF FormsInv, SheetHolds
      <3>2. sheet'.name = n /\ (sheet'.original # None => sheet'.original.name = n)
            /\ (sheet'.isNew <=> sheet.isNew \/ F[n] = None)
        BY <1>1, <1>6, <3>1, SelectIs
      <3> QED
        BY <1>6, <1>7, <1>8, <3>1, <3>2 DEF SheetHolds
    <2>2. CASE ~(sheet # None /\ sheet.name = n)
      <3>1. UNCHANGED sheet
        BY <1>3, <2>2
      <3>2. ASSUME sheet # None
            PROVE  /\ Named(list, sheet.name) <=> Named(ops, sheet.name)
                   /\ Has(list, sheet.name, "delete") <=> Has(ops, sheet.name, "delete")
        <4>1. PICK m : m = sheet.name
          OBVIOUS
        <4>2. m # n
          BY <2>2, <3>2, <4>1
        <4>3. Named(list, m) <=> Named(ops, m)
          BY ONLY <1>4, <1>6, <4>2, NamedHas
        <4> QED
          BY <1>6, <4>1, <4>2, <4>3
      <3> QED
        BY <1>1, <1>7, <1>8, <3>1, <3>2 DEF FormsInv, SheetHolds
    <2> QED
      BY <2>1, <2>2
  <1> QED
    BY <1>1, <1>3, <1>6, <1>7, <1>9, <1>10, Built

LEMMA FormsAsk ==
  ASSUME FormsInv, model # 0, NEW n \in Names, Forms!AskDelete(n)
  PROVE  FormsInv'
  <1>2. UNCHANGED <<files, formsSeen, model, formsAsks, values, ops, formsPast, formsFuture,
                    sheet, formsJob, formsBusy>>
        /\ formsAsked' = n /\ (Forms!Shown(n) # None \/ (sheet # None /\ sheet.name = n))
    BY DEF Forms!AskDelete
  <1>1. Forms!Fields' = Forms!Fields
    BY <1>2 DEF Forms!Fields
  <1>3. Forms!Fields[n] # None \/ Named(ops, n)
    <2>1. ops \in Batches(Forms!Fields)
      BY DEF FormsInv, BuildHolds
    <2>2. CASE Forms!Shown(n) # None
      BY <2>1, <2>2, ShownWhen
    <2>3. CASE sheet # None /\ sheet.name = n
      BY <2>3 DEF FormsInv, SheetHolds
    <2> QED
      BY <1>2, <2>2, <2>3
  <1>4. AskedHolds'
    BY <1>1, <1>2, <1>3 DEF AskedHolds
  <1>5. SheetHolds'
    BY <1>1, <1>2 DEF FormsInv, SheetHolds
  <1>6. formsPast' \in Seq(Batches(Forms!Fields)) /\ formsFuture' \in Seq(Batches(Forms!Fields))
        /\ Len(formsPast') + Len(formsFuture') <= Limit /\ ops' \in Batches(Forms!Fields)
    BY <1>2 DEF FormsInv, BuildHolds
  <1> QED
    BY <1>2, <1>4, <1>5, <1>6, Built

LEMMA FormsAnswer ==
  ASSUME FormsInv, model # 0, NEW yes \in BOOLEAN, Forms!AnswerDelete(yes)
  PROVE  FormsInv'
  <1>1. PICK F, n : F = Forms!Fields /\ n = formsAsked
    OBVIOUS
  <1>2. UNCHANGED <<files, formsSeen, model, formsAsks, values, formsJob, formsBusy>>
        /\ formsAsked' = None /\ n # None
    BY <1>1 DEF Forms!AnswerDelete
  <1>3. Forms!Fields' = F
    BY <1>1, <1>2 DEF Forms!Fields
  <1>4. AskedHolds'
    BY <1>2 DEF AskedHolds
  <1>5. CASE yes
    <2>1. PICK list : list = Forms!Deleted(ops, n)
      OBVIOUS
    <2>2. Forms!Stage(list) /\ sheet' = IF sheet # None /\ sheet.name = n THEN None ELSE sheet
      BY <1>1, <1>5, <2>1 DEF Forms!AnswerDelete
    <2>3. ops \in Batches(F) /\ n \in Names /\ (F[n] # None \/ Named(ops, n))
      BY <1>1, <1>2 DEF FormsInv, BuildHolds, AskedHolds
    <2>4. list \in Batches(F) /\ \A m, a : m # n => (Has(list, m, a) <=> Has(ops, m, a))
      BY ONLY <2>1, <2>3, DeletedIs
    <2>5. /\ ops' = list /\ formsPast' \in Seq(Batches(F)) /\ formsFuture' \in Seq(Batches(F))
          /\ Len(formsPast') + Len(formsFuture') <= Limit
      BY <1>1, <2>2, <2>4, StageIs
    <2>6. SheetHolds'
      <3>1. CASE sheet' = None
        BY <3>1 DEF SheetHolds
      <3>2. CASE sheet # None /\ sheet.name # n /\ UNCHANGED sheet
        <4>1. PICK m : m = sheet.name /\ m # n
          BY <3>2
        <4>2. Named(list, m) <=> Named(ops, m)
          BY ONLY <2>3, <2>4, <4>1, NamedHas
        <4> QED
          BY <1>1, <1>3, <2>4, <2>5, <3>2, <4>1, <4>2 DEF FormsInv, SheetHolds
      <3> QED
        BY <2>2, <3>1, <3>2
    <2> QED
      BY <1>1, <1>2, <1>4, <2>4, <2>5, <2>6, Built
  <1>6. CASE ~yes
    <2>1. UNCHANGED <<ops, formsPast, formsFuture, sheet>>
      BY <1>6 DEF Forms!AnswerDelete
    <2>2. SheetHolds'
      BY <1>1, <1>3, <2>1 DEF FormsInv, SheetHolds
    <2>3. formsPast' \in Seq(Batches(Forms!Fields)) /\ formsFuture' \in Seq(Batches(Forms!Fields))
          /\ Len(formsPast') + Len(formsFuture') <= Limit /\ ops' \in Batches(Forms!Fields)
      BY <2>1 DEF FormsInv, BuildHolds
    <2> QED
      BY <1>2, <1>4, <2>2, <2>3, Built
  <1> QED
    BY <1>5, <1>6

LEMMA FormsBuilding ==
  ASSUME FormsInv, Forms!Building, model # 0, formsAsked # None => formsAsked' = None
  PROVE  FormsInv'
  <1>1. ASSUME NEW n \in Names, NEW d \in Defs, Forms!Draw(n, d) \/ Forms!PlaceCopy(n, d)
        PROVE  FormsInv'
    BY <1>1, NewField DEF Forms!Draw, Forms!PlaceCopy
  <1>2. ASSUME NEW n \in Names, NEW d \in Defs, Forms!ApplyProperties(n, d)
        PROVE  FormsInv'
    <2>1. formsAsked = None
      BY <1>2 DEF Forms!ApplyProperties
    <2> QED
      BY <1>2, <2>1, FormsApply
  <1>3. ASSUME NEW n \in Names, NEW d \in Defs, Forms!OnGeometryChanged(n, d)
        PROVE  FormsInv'
    <2>1. formsAsked = None
      BY <1>3 DEF Forms!OnGeometryChanged
    <2> QED
      BY <1>3, <2>1, FormsGeometry
  <1>4. CASE Forms!DiscardFields
    <2>1. Forms!Stage(<<>>) /\ sheet' = None
          /\ UNCHANGED <<files, formsSeen, model, formsAsks, values, formsAsked, formsJob,
                         formsBusy>>
      BY <1>4 DEF Forms!DiscardFields
    <2>2. <<>> \in Batches(Forms!Fields)
      BY EmptyBatch
    <2>3. /\ ops' = <<>> /\ formsPast' \in Seq(Batches(Forms!Fields))
          /\ formsFuture' \in Seq(Batches(Forms!Fields))
          /\ Len(formsPast') + Len(formsFuture') <= Limit
      BY <2>1, <2>2, StageIs
    <2>4. SheetHolds' /\ AskedHolds'
      BY <2>1 DEF SheetHolds, AskedHolds
    <2> QED
      BY <2>1, <2>2, <2>3, <2>4, Built
  <1> QED
    BY <1>1, <1>2, <1>3, <1>4, FormsSelect, FormsAsk, FormsAnswer DEF Forms!Building

LEMMA FormsHistory ==
  ASSUME FormsInv, Forms!Undo \/ Forms!Redo, sheet = None, formsAsked = None
  PROVE  FormsInv'
  <1>0. /\ ops \in Batches(Forms!Fields) /\ formsPast \in Seq(Batches(Forms!Fields))
        /\ formsFuture \in Seq(Batches(Forms!Fields))
        /\ Len(formsPast) + Len(formsFuture) <= Limit
        /\ Len(formsPast) \in Nat /\ Len(formsFuture) \in Nat /\ Limit \in Nat
    <2>1. /\ ops \in Batches(Forms!Fields) /\ formsPast \in Seq(Batches(Forms!Fields))
          /\ formsFuture \in Seq(Batches(Forms!Fields))
          /\ Len(formsPast) + Len(formsFuture) <= Limit
          /\ Limit \in Nat
      BY FormsAssumption DEF Forms!Assumptions, FormsInv, BuildHolds
    <2>2. Len(formsPast) \in Nat /\ Len(formsFuture) \in Nat
      BY <2>1
    <2> QED
      BY <2>1, <2>2
  <1>1. UNCHANGED <<files, formsSeen, model, formsAsks, values, sheet, formsAsked, formsJob,
                    formsBusy>>
    BY DEF Forms!Undo, Forms!Redo
  <1>2. SheetHolds' /\ AskedHolds'
    BY <1>1 DEF SheetHolds, AskedHolds
  <1>3. CASE Forms!Undo
    <2>1. formsPast # <<>> /\ ops' = formsPast[Len(formsPast)]
          /\ formsPast' = SubSeq(formsPast, 1, Len(formsPast) - 1)
          /\ formsFuture' = Append(formsFuture, ops)
      BY <1>3 DEF Forms!Undo
    <2>2. ops' \in Batches(Forms!Fields) /\ formsPast' \in Seq(Batches(Forms!Fields))
          /\ Len(formsPast') = Len(formsPast) - 1
      BY ONLY <1>0, <2>1, Pops
    <2>3. formsFuture' \in Seq(Batches(Forms!Fields)) /\ Len(formsFuture') = Len(formsFuture) + 1
      BY ONLY <1>0, <2>1, Pushes
    <2>4. model # 0
      BY <2>1 DEF FormsInv, Unread
    <2> QED
      BY <1>0, <1>1, <1>2, <2>2, <2>3, <2>4, Built
  <1>4. CASE Forms!Redo
    <2>1. formsFuture # <<>> /\ ops' = formsFuture[Len(formsFuture)]
          /\ formsFuture' = SubSeq(formsFuture, 1, Len(formsFuture) - 1)
          /\ formsPast' = Append(formsPast, ops)
      BY <1>4 DEF Forms!Redo
    <2>2. ops' \in Batches(Forms!Fields) /\ formsFuture' \in Seq(Batches(Forms!Fields))
          /\ Len(formsFuture') = Len(formsFuture) - 1
      BY ONLY <1>0, <2>1, Pops
    <2>3. formsPast' \in Seq(Batches(Forms!Fields)) /\ Len(formsPast') = Len(formsPast) + 1
      BY ONLY <1>0, <2>1, Pushes
    <2>4. model # 0
      BY <2>1 DEF FormsInv, Unread
    <2> QED
      BY <1>0, <1>1, <1>2, <2>2, <2>3, <2>4, Built
  <1> QED
    BY <1>3, <1>4

-----------------------------------------------------------------------------
(* Filling, sending, and what the server does.                              *)

\* What filling in, or a batch, makes of a file is a file, or nothing.
LEMMA MadeFile ==
  ASSUME NEW F \in Forms!File, NEW list \in Batches(F)
  PROVE  Forms!ApplyBatch(F, list) \in Forms!File /\ Forms!ApplyBatch(F, list) # Forms!Refused
  <1>0. /\ DOMAIN list = 1..Len(list)
        /\ \A i \in DOMAIN list : list[i].action = "delete" \/ list[i].def \in Defs
    BY BatchFacts
  <1>1. ASSUME NEW n \in Names
        PROVE  MadeBy(F, list, DOMAIN list)[n] \in Forms!Field \cup {None}
    <2>1. CASE \E i \in DOMAIN list : list[i].name = n
      <3>1. PICK k : k = (CHOOSE i \in DOMAIN list : list[i].name = n)
        OBVIOUS
      <3>2. k \in DOMAIN list
        BY <2>1, <3>1
      <3>3. MadeBy(F, list, DOMAIN list)[n]
            = IF list[k].action = "delete" THEN None ELSE [def |-> list[k].def, val |-> None]
        BY <2>1, <3>1 DEF MadeBy
      <3> QED
        BY <1>0, <3>2, <3>3, FieldIs
    <2>2. CASE ~\E i \in DOMAIN list : list[i].name = n
      BY <2>2 DEF MadeBy, Forms!File
    <2> QED
      BY <2>1, <2>2
  <1>2. MadeBy(F, list, DOMAIN list) \in Forms!File
    BY <1>1 DEF MadeBy, Forms!File
  <1>3. DOMAIN MadeBy(F, list, DOMAIN list) = Names
    BY DEF MadeBy
  <1> QED
    BY <1>2, <1>3, MadeIs, NotRefused

LEMMA FilledFile ==
  ASSUME NEW F \in Forms!File, NEW vals \in [Names -> Vals \cup {None}],
         Forms!Fill(F, vals) # Forms!Refused
  PROVE  Forms!Fill(F, vals) \in Forms!File
  <1>1. \A n \in Names : vals[n] # None => F[n] # None
    BY DEF Forms!Fill
  <1>2. Forms!Fill(F, vals) = [n \in Names |-> IF vals[n] = None THEN F[n]
                                               ELSE [F[n] EXCEPT !.val = vals[n]]]
    BY DEF Forms!Fill
  <1>3. ASSUME NEW n \in Names
        PROVE  (IF vals[n] = None THEN F[n] ELSE [F[n] EXCEPT !.val = vals[n]])
               \in Forms!Field \cup {None}
    <2>1. CASE vals[n] = None
      BY <2>1 DEF Forms!File
    <2>2. CASE vals[n] # None
      <3>1. F[n] \in Forms!Field /\ vals[n] \in Vals \cup {None}
        BY <1>1, <2>2 DEF Forms!File
      <3> QED
        BY <2>2, <3>1 DEF Forms!Field
    <2> QED
      BY <2>1, <2>2
  <1> QED
    BY <1>2, <1>3 DEF Forms!File

LEMMA FormsFilling ==
  ASSUME FormsInv, Forms!Filling
  PROVE  FormsInv'
  <1>1. PICK n \in Names, v \in Vals : Forms!SetValue(n, v)
    BY DEF Forms!Filling
  <1>2. UNCHANGED <<files, formsSeen, model, formsAsks, ops, formsPast, formsFuture, sheet,
                    formsAsked, formsJob, formsBusy>>
        /\ values' = [values EXCEPT ![n] = v]
    BY <1>1 DEF Forms!SetValue
  <1>3. Forms!Fields' = Forms!Fields
    BY <1>2 DEF Forms!Fields
  <1>4. values' \in [Names -> Vals \cup {None}]
    BY <1>2 DEF FormsInv, FilesHold
  <1>5. FilesHold'
    BY <1>2, <1>4 DEF FormsInv, FilesHold
  <1>6. BuildHolds' /\ SheetHolds' /\ AskedHolds' /\ Unread'
    BY <1>2, <1>3 DEF FormsInv, BuildHolds, SheetHolds, AskedHolds, Unread
  <1>7. FormJobHolds'
    BY <1>2 DEF FormsInv, FormJobHolds
  <1> QED
    BY <1>5, <1>6, <1>7 DEF FormsInv

LEMMA FormsKept ==
  ASSUME FormsInv,
         UNCHANGED <<files, formsSeen, model, formsAsks, values, ops, formsPast, formsFuture,
                     sheet, formsAsked>>
  PROVE  FilesHold' /\ BuildHolds' /\ Unread' /\ SheetHolds' /\ AskedHolds'
  <1>1. Forms!Fields' = Forms!Fields
    BY DEF Forms!Fields
  <1>2. FilesHold' /\ Unread'
    BY DEF FormsInv, FilesHold, Unread
  <1>3. BuildHolds'
    BY <1>1 DEF FormsInv, BuildHolds
  <1>4. SheetHolds' /\ AskedHolds'
    BY <1>1 DEF FormsInv, SheetHolds, AskedHolds
  <1> QED
    BY <1>2, <1>3, <1>4

LEMMA FormsSent ==
  ASSUME FormsInv, NEW kind \in {"fill", "flatten", "import", "batch"},
         NEW list \in Seq(Forms!Op),
         NEW vals \in [Names -> Vals \cup {None}], Forms!Send(kind, list, vals),
         kind = "batch" => list \in Batches(files[formsSeen]),
         kind = "fill" => \A n \in Names : vals[n] # None => files[formsSeen][n] # None
  PROVE  FormsInv'
  <1>1. UNCHANGED <<files, formsSeen, model, formsAsks, values, ops, formsPast, formsFuture,
                    sheet, formsAsked>>
        /\ formsBusy' = TRUE
    BY DEF Forms!Send
  <1>2. formsJob' = [st |-> "sent", kind |-> kind, base |-> formsSeen, ops |-> list,
                     values |-> vals]
    BY DEF Forms!Send
  <1>3. formsSeen \in 0..MaxVersion
    BY FormsAssumption DEF Forms!Assumptions, FormsInv, FilesHold, Forms!Versions
  <1>4. formsJob' \in FormJobs
    BY <1>2, <1>3 DEF FormJobs
  <1>5. FormJobHolds'
    BY <1>1, <1>2, <1>4 DEF FormJobHolds
  <1> QED
    BY <1>1, <1>5, FormsKept DEF FormsInv

LEMMA FormsSending ==
  ASSUME FormsInv, Forms!Sending \/ Forms!SaveFields
  PROVE  FormsInv'
  <1>0. /\ values \in [Names -> Vals \cup {None}] /\ ops \in Batches(Forms!Fields)
        /\ ops \in Seq(Forms!Op)
        /\ Forms!Fields \in Forms!File /\ (model # 0 => Forms!Fields = files[formsSeen])
        /\ <<>> \in Seq(Forms!Op)
        /\ (model = 0 => ops = <<>>)
    BY FieldsAre, BatchFacts DEF FormsInv, FilesHold, BuildHolds, Unread
  <1>1. Forms!Changed \in [Names -> Vals \cup {None}]
        /\ \A n \in Names : Forms!Changed[n] # None => Forms!Fields[n] # None
    BY <1>0 DEF Forms!Changed
  <1>2. CASE Forms!SaveFields
    <2>1. ops # <<>> /\ Forms!Send("batch", ops, Forms!NoFile)
      BY <1>2 DEF Forms!SaveFields
    <2>2. ops \in Batches(files[formsSeen])
      BY <1>0, <2>1
    <2> QED
      BY <1>0, <2>1, <2>2, NoFileIs, FormsSent
  <1>3. CASE Forms!Save
    <2>1. Forms!Changed # Forms!NoFile /\ Forms!Send("fill", <<>>, Forms!Changed)
      BY <1>3 DEF Forms!Save
    <2>2. model # 0
      <3> SUFFICES ASSUME model = 0 PROVE FALSE
        OBVIOUS
      <3>1. \A n \in Names : Forms!Fields[n] = None
        BY DEF Forms!Fields, Forms!NoFile
      <3> QED
        BY <2>1, <3>1 DEF Forms!Changed, Forms!NoFile
    <2>3. \A n \in Names : Forms!Changed[n] # None => files[formsSeen][n] # None
      BY <1>0, <1>1, <2>2
    <2> QED
      BY <1>0, <1>1, <2>1, <2>3, FormsSent
  <1>4. CASE Forms!Flatten
    BY <1>0, <1>1, <1>4, FormsSent DEF Forms!Flatten
  <1>5. ASSUME NEW n \in Names, NEW v \in Vals, Forms!Import([Forms!NoFile EXCEPT ![n] = v])
        PROVE  FormsInv'
    <2>1. PICK vs : vs = [Forms!NoFile EXCEPT ![n] = v]
      OBVIOUS
    <2>2. vs \in [Names -> Vals \cup {None}]
      BY <2>1 DEF Forms!NoFile
    <2>3. Forms!Send("import", <<>>, vs)
      BY <1>5, <2>1 DEF Forms!Import
    <2> QED
      BY <1>0, <2>2, <2>3, FormsSent
  <1> QED
    BY <1>2, <1>3, <1>4, <1>5 DEF Forms!Sending

\* Another version on the server leaves the fields shown.
LEMMA FormsGrown ==
  ASSUME FormsInv, NEW f \in Forms!File, files' = Append(files, f), Len(files) < MaxVersion,
         UNCHANGED <<formsSeen, model, formsAsks, values, ops, formsPast, formsFuture, sheet,
                     formsAsked>>
  PROVE  /\ FilesHold' /\ BuildHolds' /\ Unread' /\ SheetHolds' /\ AskedHolds'
         /\ Len(files') = Len(files) + 1 /\ files'[formsSeen] = files[formsSeen]
  <1>0. /\ files \in Seq(Forms!File) /\ Len(files) \in Nat \ {0} /\ formsSeen \in 1..Len(files)
        /\ model \in {0, formsSeen} /\ MaxVersion \in Nat
    BY FormsAssumption DEF Forms!Assumptions, FormsInv, FilesHold, Forms!Versions
  <1>1. /\ files' \in Seq(Forms!File) /\ Len(files') = Len(files) + 1
        /\ \A i \in 1..Len(files) : files'[i] = files[i]
    BY <1>0
  <1>2. Forms!Fields' = Forms!Fields
    BY <1>0, <1>1 DEF Forms!Fields
  <1>3. FilesHold'
    BY <1>0, <1>1 DEF FormsInv, FilesHold, Forms!Versions
  <1>4. BuildHolds' /\ Unread'
    BY <1>2 DEF FormsInv, BuildHolds, Unread
  <1>5. SheetHolds' /\ AskedHolds'
    BY <1>2 DEF FormsInv, SheetHolds, AskedHolds
  <1> QED
    BY <1>0, <1>1, <1>3, <1>4, <1>5

LEMMA FormsEnds ==
  ASSUME FormsInv, formsJob.st = "sent",
         NEW st \in {"succeeded", "conflict", "failed"}, formsJob' = Forms!Ended(st)
  PROVE  formsJob' \in FormJobs /\ formsJob'.st = st /\ formsJob'.base = formsJob.base
         /\ formsJob'.kind = "none"
  <1>1. formsJob' = [st |-> st, kind |-> "none", base |-> formsJob.base, ops |-> <<>>,
                     values |-> Forms!NoFile]
    BY DEF Forms!Ended, Forms!NoJob
  <1>2. formsJob.base \in 0..MaxVersion /\ <<>> \in Seq(Forms!Op)
    BY DEF FormsInv, FormJobHolds, FormJobs
  <1> QED
    BY <1>1, <1>2, NoFileIs DEF FormJobs

LEMMA FormsWorks ==
  ASSUME FormsInv, Forms!JobWorks
  PROVE  FormsInv'
  <1>1. /\ formsJob.st = "sent" /\ formsJob.base = Len(files) /\ Len(files) < MaxVersion
        /\ UNCHANGED <<formsSeen, model, formsAsks, values, ops, formsPast, formsFuture, sheet,
                       formsAsked, formsBusy>>
    BY DEF Forms!JobWorks
  <1>2. /\ formsJob \in FormJobs /\ formsJob.base = formsSeen /\ files[formsSeen] \in Forms!File
        /\ formsBusy \in BOOLEAN
        /\ formsJob.kind = "batch" => formsJob.ops \in Batches(files[formsSeen])
    BY <1>1 DEF FormsInv, FormJobHolds, FilesHold
  <1>3. CASE Forms!Result = Forms!Refused
    <2>1. formsJob' = Forms!Ended("failed") /\ UNCHANGED files
      BY <1>3 DEF Forms!JobWorks
    <2>2. formsJob' \in FormJobs /\ formsJob'.st = "failed" /\ formsJob'.base = formsJob.base
      BY <1>1, <2>1, FormsEnds
    <2>3. FormJobHolds'
      BY <1>1, <1>2, <2>2 DEF FormJobHolds
    <2> QED
      BY <1>1, <2>1, <2>3, FormsKept DEF FormsInv
  <1>4. CASE Forms!Result # Forms!Refused
    <2>1. formsJob' = Forms!Ended("succeeded") /\ files' = Append(files, Forms!Result)
      BY <1>4 DEF Forms!JobWorks
    <2>2. formsJob' \in FormJobs /\ formsJob'.st = "succeeded" /\ formsJob'.base = formsJob.base
      BY <1>1, <2>1, FormsEnds
    <2>3. Forms!Result \in Forms!File
      <3>0. formsJob.values \in [Names -> Vals \cup {None}]
        BY <1>2 DEF FormJobs
      <3>1. CASE formsJob.kind = "batch"
        BY <1>2, <3>1, MadeFile DEF Forms!Result
      <3>2. CASE formsJob.kind = "flatten"
        BY <1>4, <3>2, NoFileIs DEF Forms!Result
      <3>3. CASE formsJob.kind \notin {"batch", "flatten"}
        <4>1. Forms!Result = Forms!Fill(files[formsSeen], formsJob.values)
          BY <1>2, <3>3 DEF Forms!Result
        <4> QED
          BY <1>2, <1>4, <3>0, <4>1, FilledFile
      <3> QED
        BY <3>1, <3>2, <3>3
    <2>4. PICK f \in Forms!File : f = Forms!Result
      BY <2>3
    <2>5. /\ FilesHold' /\ BuildHolds' /\ Unread' /\ SheetHolds' /\ AskedHolds'
          /\ Len(files') = Len(files) + 1
      BY <1>1, <2>1, <2>4, FormsGrown
    <2>6. FormJobHolds'
      <3>0. Len(files) \in Nat /\ formsSeen = formsJob.base /\ formsJob.base \in Nat
            /\ formsJob.base <= Len(files)
        BY <1>1, <1>2 DEF FormsInv, FilesHold, FormJobHolds
      <3>1. formsSeen < Len(files')
        BY ONLY <2>5, <3>0
      <3> QED
        BY <1>1, <1>2, <2>2, <3>1 DEF FormJobHolds
    <2> QED
      BY <2>5, <2>6 DEF FormsInv
  <1> QED
    BY <1>3, <1>4

LEMMA FormsSee ==
  ASSUME FormsInv, NEW v \in 1..Len(files), Forms!See(v), formsAsks = {}, formsAsked = None,
         formsJob' = Forms!NoJob, formsBusy' = FALSE, UNCHANGED <<files, formsAsked>>
  PROVE  FormsInv'
  <1>0. 0 \in 0..MaxVersion /\ <<>> \in Seq(Forms!Op) /\ Limit \in Nat
    BY FormsAssumption DEF Forms!Assumptions
  <1>1. /\ formsSeen' = v /\ model' = 0 /\ formsAsks' = {v} /\ values' = Forms!NoFile
        /\ ops' = <<>>
        /\ formsPast' = <<>> /\ formsFuture' = <<>> /\ sheet' = None
    BY DEF Forms!See
  <1>2. FilesHold'
    BY <1>1, NoFileIs DEF FormsInv, FilesHold
  <1>3. BuildHolds'
    <2>1. <<>> \in Seq(Batches(Forms!Fields')) /\ Len(<<>>) = 0
      OBVIOUS
    <2>2. ops' \in Batches(Forms!Fields')
      BY <1>1, EmptyBatch
    <2> QED
      BY <1>0, <1>1, <2>1, <2>2 DEF BuildHolds
  <1>4. formsJob' \in FormJobs
    BY <1>0, NoFileIs DEF Forms!NoJob, FormJobs
  <1>5. FormJobHolds'
    BY <1>4 DEF FormJobHolds, Forms!NoJob
  <1> QED
    BY <1>1, <1>2, <1>3, <1>5 DEF FormsInv, Unread, SheetHolds, AskedHolds

LEMMA FormsServer ==
  ASSUME FormsInv, Forms!Server, formsSeen' # formsSeen => formsAsks = {} /\ formsAsked = None
  PROVE  FormsInv'
  <1>0. /\ files \in Seq(Forms!File) /\ Len(files) \in Nat \ {0} /\ formsSeen \in 1..Len(files)
        /\ formsJob \in FormJobs /\ formsBusy \in BOOLEAN
              /\ (formsJob.st # "idle" => formsJob.base = formsSeen)
    BY FormsAssumption DEF Forms!Assumptions, FormsInv, FilesHold, Forms!Versions, FormJobHolds
  <1>1. CASE Forms!OtherTab
    <2>1. /\ Len(files) < MaxVersion
          /\ UNCHANGED <<formsSeen, model, formsAsks, values, ops, formsPast, formsFuture, sheet,
                         formsAsked, formsJob, formsBusy>>
      BY <1>1 DEF Forms!OtherTab
    <2>2. PICK n \in Names : files' = Append(files, [files[Len(files)] EXCEPT ![n] = None])
      BY <1>1 DEF Forms!OtherTab
    <2>3. PICK f : f = [files[Len(files)] EXCEPT ![n] = None]
      OBVIOUS
    <2>4. f \in Forms!File
      BY <1>0, <2>3 DEF Forms!File
    <2>5. /\ FilesHold' /\ BuildHolds' /\ Unread' /\ SheetHolds' /\ AskedHolds'
          /\ Len(files') = Len(files) + 1 /\ files'[formsSeen] = files[formsSeen]
      BY <2>1, <2>2, <2>3, <2>4, FormsGrown
    <2>6. FormJobHolds'
      <3>1. formsJob.st = "succeeded" => formsJob.base < Len(files')
        BY <1>0, <2>5 DEF FormsInv, FormJobHolds
      <3>2. formsJob.st = "sent" => files'[formsJob.base] = files[formsJob.base]
        BY <1>0, <2>5
      <3> QED
        BY <1>0, <2>1, <3>1, <3>2 DEF FormsInv, FormJobHolds
    <2> QED
      BY <2>5, <2>6 DEF FormsInv
  <1>2. CASE Forms!OnJob
    <2>1. formsJob.st = "succeeded" /\ Forms!See(formsJob.base + 1) /\ formsJob' = Forms!NoJob
          /\ formsBusy' = FALSE
          /\ UNCHANGED <<files, formsAsked>>
      BY <1>2 DEF Forms!OnJob
    <2>2. formsJob.base = formsSeen /\ formsSeen + 1 \in 1..Len(files)
      BY <1>0, <2>1 DEF FormsInv, FormJobHolds
    <2>3. formsSeen' = formsSeen + 1
      BY <2>1, <2>2 DEF Forms!See
    <2>4. formsAsks = {} /\ formsAsked = None
      BY <1>0, <2>3
    <2> QED
      BY <2>1, <2>2, <2>4, FormsSee
  <1>3. CASE Forms!OnFailure
    <2>1. formsJob' = Forms!NoJob /\ formsBusy' = FALSE /\ UNCHANGED <<files, formsAsked>>
      BY <1>3 DEF Forms!OnFailure
    <2>2. CASE Forms!See(Len(files)) /\ formsSeen # Len(files)
      <3>1. formsAsks = {} /\ formsAsked = None /\ Len(files) \in 1..Len(files)
        BY <1>0, <2>2 DEF Forms!See
      <3> QED
        BY <2>1, <2>2, <3>1, FormsSee
    <2>3. CASE UNCHANGED <<formsSeen, model, formsAsks, values, ops, formsPast, formsFuture,
                           sheet>>
      <3>1. formsJob' \in FormJobs
        <4>1. 0 \in 0..MaxVersion /\ <<>> \in Seq(Forms!Op)
          BY FormsAssumption DEF Forms!Assumptions
        <4> QED
          BY <2>1, <4>1, NoFileIs DEF Forms!NoJob, FormJobs
      <3>2. FormJobHolds'
        BY <2>1, <3>1 DEF FormJobHolds, Forms!NoJob
      <3> QED
        BY <2>1, <2>3, <3>2, FormsKept DEF FormsInv
    <2> QED
      BY <1>3, <2>2, <2>3 DEF Forms!OnFailure
  <1>4. ASSUME NEW st \in {"conflict", "failed"}, Forms!JobRefused(st)
        PROVE  FormsInv'
    <2>1. /\ formsJob.st = "sent" /\ formsJob' = Forms!Ended(st)
          /\ UNCHANGED <<files, formsSeen, model, formsAsks, values, ops, formsPast, formsFuture,
                         sheet, formsAsked, formsBusy>>
      BY <1>4 DEF Forms!JobRefused
    <2>2. formsJob' \in FormJobs /\ formsJob'.st = st /\ formsJob'.base = formsJob.base
      BY <2>1, FormsEnds
    <2>3. FormJobHolds'
      BY <1>0, <2>1, <2>2 DEF FormJobHolds
    <2> QED
      BY <2>1, <2>3, FormsKept DEF FormsInv
  <1>5. ASSUME NEW v \in Forms!Versions, NEW ok \in BOOLEAN, Forms!Answer(v, ok)
        PROVE  FormsInv'
    <2>1. /\ v \in formsAsks /\ formsAsks' = formsAsks \ {v} /\ model' = IF ok THEN v ELSE 0
          /\ UNCHANGED <<files, formsSeen, values, ops, formsPast, formsFuture, sheet,
                         formsAsked, formsJob, formsBusy>>
      BY <1>5 DEF Forms!Answer
    <2>2. v = formsSeen /\ model = 0 /\ formsAsks' = {}
      BY <2>1 DEF FormsInv, FilesHold
    <2>3. ops = <<>> /\ formsPast = <<>> /\ formsFuture = <<>> /\ sheet = None
          /\ formsAsked = None
      BY <2>2 DEF FormsInv, Unread
    <2>4. FilesHold'
      BY <2>1, <2>2 DEF FormsInv, FilesHold
    <2>5. BuildHolds'
      <3>1. <<>> \in Seq(Batches(Forms!Fields')) /\ Len(<<>>) = 0 /\ Limit \in Nat
        BY FormsAssumption DEF Forms!Assumptions
      <3>2. ops' \in Batches(Forms!Fields')
        BY <2>1, <2>3, EmptyBatch
      <3> QED
        BY <2>1, <2>3, <3>1, <3>2 DEF BuildHolds
    <2>6. Unread' /\ SheetHolds' /\ AskedHolds'
      BY <2>1, <2>3 DEF Unread, SheetHolds, AskedHolds
    <2>7. FormJobHolds'
      BY <2>1 DEF FormsInv, FormJobHolds
    <2> QED
      BY <2>4, <2>5, <2>6, <2>7 DEF FormsInv
  <1> QED
    BY <1>1, <1>2, <1>3, <1>4, <1>5, FormsWorks DEF Forms!Server

LEMMA FormsStep == FormsInv /\ (Forms!OrderlyNext \/ UNCHANGED Forms!vars) => FormsInv'
  <1>1. ASSUME FormsInv, UNCHANGED Forms!vars PROVE FormsInv'
    <2>1. /\ UNCHANGED <<files, formsSeen, model, formsAsks, values, ops, formsPast, formsFuture,
                         sheet, formsAsked>>
          /\ UNCHANGED <<formsJob, formsBusy>>
      BY <1>1 DEF Forms!vars
    <2>2. FormJobHolds'
      BY <1>1, <2>1 DEF FormsInv, FormJobHolds
    <2> QED
      BY <1>1, <2>1, <2>2, FormsKept DEF FormsInv
  <1> QED
    BY <1>1, FormsBuilding, FormsHistory, FormsFilling, FormsSending, FormsServer
       DEF Forms!OrderlyNext

LEMMA FormsTypeOK == FormsInv => Forms!TypeOK
  <1> SUFFICES ASSUME FormsInv PROVE Forms!TypeOK
    OBVIOUS
  <1>0. MaxVersion \in Nat /\ Limit \in Nat
    BY FormsAssumption DEF Forms!Assumptions
  <1>1. /\ Len(files) \in Forms!Versions /\ \A v \in 1..Len(files) : files[v] \in Forms!File
        /\ values \in [Names -> Vals \union {None}]
    BY DEF FormsInv, FilesHold
  <1>2. formsSeen \in Forms!Versions /\ model \in Forms!Versions \union {0}
        /\ formsAsks \subseteq Forms!Versions
    BY <1>0 DEF FormsInv, FilesHold, Forms!Versions
  <1>3. \A i \in DOMAIN ops : ops[i] \in Forms!Op
    BY BatchFacts DEF FormsInv, BuildHolds
  <1>4. Len(formsPast) <= Limit
    <2>1. Len(formsPast) \in Nat /\ Len(formsFuture) \in Nat
      BY DEF FormsInv, BuildHolds
    <2> QED
      BY <1>0, <2>1 DEF FormsInv, BuildHolds
  <1>5. /\ formsAsked \in Names \union {None} /\ formsBusy \in BOOLEAN
        /\ formsJob.st \in {"idle", "sent", "succeeded", "conflict", "failed"}
    BY DEF FormsInv, AskedHolds, FormJobHolds, FormJobs
  <1> QED
    BY <1>1, <1>2, <1>3, <1>4, <1>5 DEF Forms!TypeOK

\* Of one change a field at most, the page shows what the server makes.
LEMMA FormsShown == FormsInv => Forms!ShownIsMade /\ Forms!NothingRefused
  <1> SUFFICES ASSUME FormsInv PROVE Forms!ShownIsMade /\ Forms!NothingRefused
    OBVIOUS
  <1>1. PICK F : F = Forms!Fields
    OBVIOUS
  <1>2. F \in Forms!File /\ ops \in Batches(F)
    BY <1>1, FieldsAre DEF FormsInv, BuildHolds
  <1>3. PICK made : made = Forms!ApplyBatch(F, ops)
    OBVIOUS
  <1>4. made = MadeBy(F, ops, DOMAIN ops) /\ made # Forms!Refused
    BY <1>2, <1>3, MadeIs, MadeFile
  <1>5. ASSUME NEW n \in Names
        PROVE  Forms!Shown(n) = IF made[n] = None THEN None ELSE made[n].def
    <2>0. /\ DOMAIN ops = 1..Len(ops) /\ Len(ops) \in Nat
          /\ \A i \in DOMAIN ops : ops[i] \in Forms!Op
          /\ \A i, k \in DOMAIN ops : ops[i].name = ops[k].name => i = k
          /\ \A i \in DOMAIN ops : ops[i].action = "delete" \/ ops[i].def \in Defs
      BY <1>2, BatchFacts
    <2>1. CASE \E i \in DOMAIN ops : ops[i].name = n
      <3>1. PICK j \in DOMAIN ops : ops[j].name = n
        BY <2>1
      <3>2. \A i \in DOMAIN ops : ops[i].name = n => i = j
        BY <2>0, <3>1
      <3>3. (CHOOSE i \in DOMAIN ops : ops[i].name = n) = j
        BY <3>1, <3>2
      <3>4. made[n] = IF ops[j].action = "delete" THEN None ELSE [def |-> ops[j].def, val |-> None]
        BY <1>4, <2>1, <3>3 DEF MadeBy
      <3>5. CASE ops[j].action = "delete"
        <4>1. Forms!Staged(ops, n) = {}
          BY <3>2, <3>5 DEF Forms!Staged
        <4>2. Forms!Shown(n) = None
          BY <2>1, <4>1 DEF Forms!Shown
        <4> QED
          BY <3>4, <3>5, <4>2
      <3>6. CASE ops[j].action # "delete"
        <4>1. j \in Forms!Staged(ops, n) /\ \A i \in Forms!Staged(ops, n) : i = j
          BY <3>1, <3>2, <3>6 DEF Forms!Staged
        <4>2. (CHOOSE i \in Forms!Staged(ops, n) : \A k \in Forms!Staged(ops, n) : k <= i) = j
          <5>1. j <= j
            BY <2>0, <3>1
          <5> QED
            BY <4>1, <5>1
        <4>3. Forms!Shown(n) = ops[j].def
          BY <4>1, <4>2 DEF Forms!Shown
        <4>4. made[n] = [def |-> ops[j].def, val |-> None] /\ made[n] # None
          BY <2>0, <3>1, <3>4, <3>6, FieldIs
        <4> QED
          BY <4>3, <4>4
      <3> QED
        BY <3>5, <3>6
    <2>2. CASE ~\E i \in DOMAIN ops : ops[i].name = n
      <3>1. Forms!Staged(ops, n) = {}
        BY <2>2 DEF Forms!Staged
      <3>2. Forms!Shown(n) = IF F[n] = None THEN None ELSE F[n].def
        BY <1>1, <2>2, <3>1 DEF Forms!Shown
      <3>3. made[n] = F[n]
        BY <1>4, <2>2 DEF MadeBy
      <3> QED
        BY <3>2, <3>3
    <2> QED
      BY <2>1, <2>2
  <1>6. Forms!ShownIsMade
    BY <1>1, <1>3, <1>5 DEF Forms!ShownIsMade
  <1>7. Forms!NothingRefused
    <2>1. Forms!ApplyBatch(Forms!Fields, ops) # Forms!Refused
      BY <1>1, <1>3, <1>4
    <2>2. ASSUME formsJob.st = "sent", formsJob.kind = "fill"
          PROVE  Forms!Fill(files[formsJob.base], formsJob.values) # Forms!Refused
      <3>1. \A n \in Names : formsJob.values[n] # None => files[formsJob.base][n] # None
        BY <2>2 DEF FormsInv, FormJobHolds
      <3>2. PICK g : g = Forms!Fill(files[formsJob.base], formsJob.values)
        OBVIOUS
      <3>3. DOMAIN g = Names
        BY <3>1, <3>2 DEF Forms!Fill
      <3> QED
        BY <3>2, <3>3, NotRefused
    <2> QED
      BY <2>1, <2>2 DEF Forms!NothingRefused
  <1> QED
    BY <1>6, <1>7

-----------------------------------------------------------------------------
(* The protect panel.                                                       *)

\* Areas drawn on d.
ProtOn(d) == {p \in Protect!Places : p.doc = d}
ProtDrawn == /\ areas \in SUBSET ProtOn(protectDoc)
             /\ protectPast \in Seq(SUBSET ProtOn(protectDoc))
             /\ protectFuture \in Seq(SUBSET ProtOn(protectDoc))

\* A review is of the document shown and of what is looked for.
ProtReview == report # None => report.doc = protectDoc /\ report.search = search

ProtTypes ==
    /\ seq \in [Docs -> 1..MaxVersion] /\ secret \in [Docs -> Passwords \cup {None}]
    /\ protectDoc \in Docs /\ shown \in 1..MaxVersion /\ protectLoading \in BOOLEAN
    /\ known \in [Docs -> Passwords \cup {None}]
    /\ search \in Searches \cup {None} /\ excluded \subseteq Matches
    /\ report # None => report.found \subseteq Matches /\ report.search \in Searches
    /\ protectAsked \in BOOLEAN /\ (protectJob = None \/ protectJob \in Protect!Jobs)

\* An operation under way is on the document shown; it was sent with what was drawn and found
\* on its base, and once it has made a version the server is past that base.
ProtJob ==
    protectJob # None =>
       /\ protectJob.on = protectDoc
       /\ protectJob.kind \in {"preview", "apply"} => protectJob.search = search
       /\ protectJob.kind = "preview" => search # None
       /\ protectJob.st = "ok" /\ Protect!Edits => protectJob.base < seq[protectDoc]
       /\ protectJob.st = "ok" /\ protectJob.kind = "encrypt"
             /\ seq[protectDoc] = protectJob.base + 1 => secret[protectDoc] = protectJob.new
       /\ protectJob.st = "sent" =>
             /\ \A a \in protectJob.areas : a.doc = protectDoc /\ a.seq = protectJob.base
             /\ protectJob.only # None =>
                   /\ protectJob.kind = "apply"
                   /\ report # None /\ report.seq = protectJob.base

ProtInv == ProtTypes /\ ProtDrawn /\ ProtReview /\ ProtJob

LEMMA ProtInit == Protect!Init => ProtInv
  <1> SUFFICES ASSUME Protect!Init PROVE ProtInv
    OBVIOUS
  <1>1. 1 \in 1..MaxVersion
    BY ProtAssumption DEF Protect!Assumptions
  <1>2. ProtTypes
    BY <1>1 DEF Protect!Init, ProtTypes
  <1> QED
    BY <1>2 DEF Protect!Init, ProtInv, ProtJob, ProtDrawn, ProtReview

LEMMA ProtWider ==
  ASSUME NEW S, NEW T, S \subseteq T, NEW q \in Seq(S) PROVE q \in Seq(T)
  <1>1. q = [i \in 1..Len(q) |-> q[i]] /\ Len(q) \in Nat /\ \A i \in 1..Len(q) : q[i] \in T
    OBVIOUS
  <1> QED
    BY <1>1

LEMMA ProtTypeOK == ProtInv => Protect!TypeOK
  <1> SUFFICES ASSUME ProtInv PROVE Protect!TypeOK
    OBVIOUS
  <1>1. SUBSET ProtOn(protectDoc) \subseteq SUBSET Protect!Places
    BY DEF ProtOn
  <1>2. /\ areas \subseteq Protect!Places /\ protectPast \in Seq(SUBSET Protect!Places)
        /\ protectFuture \in Seq(SUBSET Protect!Places)
    <2>1. \A q \in Seq(SUBSET ProtOn(protectDoc)) : q \in Seq(SUBSET Protect!Places)
      BY <1>1, ProtWider
    <2> QED
      BY <1>1, <2>1 DEF ProtInv, ProtDrawn
  <1> QED
    BY <1>2 DEF ProtInv, ProtTypes, Protect!TypeOK

LEMMA ProtPopped ==
  ASSUME NEW S, NEW q \in Seq(S), q # <<>>
  PROVE  q[Len(q)] \in S /\ SubSeq(q, 1, Len(q) - 1) \in Seq(S)
  <1>1. Len(q) \in Nat \ {0}
    OBVIOUS
  <1> QED
    BY <1>1

\* What a dispatch sends.
LEMMA ProtDispatched ==
  ASSUME ProtInv, NEW kind \in Protect!Kinds, NEW new \in Passwords \cup {None},
         NEW clean \in BOOLEAN, Protect!Dispatch(kind, new, clean)
  PROVE  /\ protectJob = None /\ protectJob' \in Protect!Jobs /\ protectJob' # None
         /\ protectJob'.st = "sent" /\ protectJob'.kind = kind
         /\ protectJob'.on = protectDoc /\ protectJob'.base = shown
         /\ kind \in {"preview", "apply"} => protectJob'.search = search
         /\ protectJob'.areas = IF kind = "apply" THEN areas ELSE {}
         /\ protectJob'.only # None => kind = "apply" /\ report # None
  <1>1. ProtTypes /\ ProtDrawn
    BY DEF ProtInv
  <1>2. Protect!Kept \in SUBSET Matches
    BY <1>1 DEF Protect!Kept, ProtTypes
  <1> DEFINE s == IF kind \in {"preview", "apply"} THEN search ELSE None
             o == IF kind = "apply" /\ search # None /\ report # None THEN Protect!Kept ELSE None
             a == IF kind = "apply" THEN areas ELSE {}
  <1>3. /\ s \in Searches \cup {None} /\ o \in (SUBSET Matches) \cup {None}
        /\ a \in SUBSET Protect!Places
        /\ kind \in {"preview", "apply"} => s = search
        /\ o # None => kind = "apply" /\ report # None
    BY <1>1, <1>2 DEF ProtTypes, ProtDrawn, ProtOn
  <1>4. /\ protectJob = None
        /\ protectJob' = [st |-> "sent", kind |-> kind, on |-> protectDoc, base |-> shown,
                          key |-> known[protectDoc], new |-> new, clean |-> clean,
                          search |-> s, only |-> o, areas |-> a]
    BY DEF Protect!Dispatch
  <1>5. a = IF kind = "apply" THEN areas ELSE {}
    OBVIOUS
  <1> HIDE DEF s, o, a
  <1>6. known[protectDoc] \in Passwords \cup {None}
    BY <1>1 DEF ProtTypes
  <1>7. protectJob' \in Protect!Jobs
    BY <1>1, <1>3, <1>4, <1>6 DEF Protect!Jobs, ProtTypes
  <1>8. protectJob' # None
    BY <1>7, ProtAssumption DEF Protect!Assumptions
  <1> QED
    BY <1>3, <1>4, <1>5, <1>7, <1>8

\* What the server's answer changes.
LEMMA ProtServed ==
  ASSUME ProtInv, NEW ok \in BOOLEAN, Protect!Serve(ok)
  PROVE  /\ protectJob # None /\ protectJob.st = "sent"
         /\ \E st \in {"ok", "wrong", "conflict", "failed"}, n \in 1..MaxVersion,
               to \in Passwords \cup {None} :
               /\ protectJob' = [protectJob EXCEPT !.st = st]
               /\ seq' = [seq EXCEPT ![protectDoc] = n]
               /\ secret' = [secret EXCEPT ![protectDoc] = to]
               /\ st = "ok" => protectJob.base = seq[protectDoc]
               /\ st = "ok" /\ Protect!Edits => n = seq[protectDoc] + 1
               /\ st = "ok" /\ protectJob.kind = "encrypt" => to = protectJob.new
         /\ UNCHANGED <<protectDoc, shown, protectLoading, known, search, report, excluded,
                        areas, protectPast, protectFuture, protectAsked>>
  <1>1. PICK st \in {"ok", "wrong", "conflict", "failed"} :
           /\ Protect!Answered(st)
           /\ st = "ok" => protectJob.base = seq[protectJob.on]
    BY DEF Protect!Serve
  <1>2. /\ protectJob # None /\ protectJob.st = "sent" /\ protectJob \in Protect!Jobs
        /\ protectJob.on = protectDoc /\ protectDoc \in Docs
        /\ Protect!Edits /\ protectJob.base = seq[protectDoc] => seq[protectDoc] < MaxVersion
        /\ seq[protectDoc] \in 1..MaxVersion /\ secret[protectDoc] \in Passwords \cup {None}
        /\ MaxVersion \in Nat
    BY ProtAssumption DEF Protect!Serve, ProtInv, ProtJob, ProtTypes, Protect!Assumptions
  <1>3. protectJob.new \in Passwords \cup {None}
    BY <1>2 DEF Protect!Jobs
  <1>4. protectJob.kind = "encrypt" => Protect!Edits
    BY DEF Protect!Edits, Protect!Copies
  <1> DEFINE does == st = "ok" /\ Protect!Edits
             n  == IF does THEN seq[protectDoc] + 1 ELSE seq[protectDoc]
             to == IF ~does THEN secret[protectDoc]
                   ELSE IF protectJob.kind \in {"encrypt", "permissions"} THEN protectJob.new
                   ELSE None
  <1>5. /\ protectJob' = [protectJob EXCEPT !.st = st]
        /\ seq' = [seq EXCEPT ![protectDoc] = n] /\ secret' = [secret EXCEPT ![protectDoc] = to]
        /\ UNCHANGED <<protectDoc, shown, protectLoading, known, search, report, excluded,
                       areas, protectPast, protectFuture, protectAsked>>
    BY <1>1, <1>2 DEF Protect!Answered, Protect!screen, Protect!review, Protect!drawing
  <1>6. n \in 1..MaxVersion /\ to \in Passwords \cup {None}
    BY <1>1, <1>2, <1>3
  <1>7. /\ st = "ok" /\ Protect!Edits => n = seq[protectDoc] + 1
        /\ st = "ok" /\ protectJob.kind = "encrypt" => to = protectJob.new
    BY <1>4
  <1> HIDE DEF does, n, to
  <1> QED
    BY <1>1, <1>2, <1>5, <1>6, <1>7

\* A version made elsewhere.
LEMMA ProtRemade ==
  ASSUME ProtInv, NEW d \in Docs, Protect!Remade(d)
  PROVE  /\ seq' \in [Docs -> 1..MaxVersion] /\ secret' \in [Docs -> Passwords \cup {None}]
         /\ seq'[d] = seq[d] + 1
         /\ UNCHANGED <<protectDoc, protectJob, search, report>> => ProtJob'
  <1>1. /\ seq[d] \in 1..MaxVersion /\ MaxVersion \in Nat /\ seq[d] < MaxVersion
        /\ seq' = [seq EXCEPT ![d] = seq[d] + 1]
        /\ \E p \in Passwords \cup {None} : secret' = [secret EXCEPT ![d] = p]
    BY ProtAssumption DEF ProtInv, ProtTypes, Protect!Assumptions, Protect!Remade
  <1>2. seq[d] + 1 \in 1..MaxVersion
    BY <1>1
  <1>3. /\ seq' \in [Docs -> 1..MaxVersion] /\ secret' \in [Docs -> Passwords \cup {None}]
        /\ seq'[d] = seq[d] + 1
        /\ \A e \in Docs : e # d => seq'[e] = seq[e] /\ secret'[e] = secret[e]
    BY <1>1, <1>2 DEF ProtInv, ProtTypes
  <1>4. ASSUME UNCHANGED <<protectDoc, protectJob, search, report>>, protectJob # None
        PROVE  ProtJob'
    <2>1. /\ protectJob.base \in Nat /\ seq[protectDoc] \in Nat
          /\ protectDoc \in Docs
      BY <1>4, <1>1 DEF ProtInv, ProtTypes, Protect!Jobs
    <2>2. protectDoc = d => seq'[protectDoc] = seq[protectDoc] + 1
      BY <1>3
    <2>3. protectDoc # d
             => seq'[protectDoc] = seq[protectDoc] /\ secret'[protectDoc] = secret[protectDoc]
      BY <1>3, <2>1
    <2>4. protectJob.st = "ok" /\ Protect!Edits => protectJob.base < seq'[protectDoc]
      BY <1>4, <2>1, <2>2, <2>3 DEF ProtInv, ProtJob
    <2>5. protectJob.kind = "encrypt" => Protect!Edits
      BY DEF Protect!Edits, Protect!Copies
    <2>6. protectJob.st = "ok" /\ protectJob.kind = "encrypt"
             /\ seq'[protectDoc] = protectJob.base + 1 => secret'[protectDoc] = protectJob.new
      <3>1. CASE protectDoc = d
        BY <1>4, <2>1, <2>2, <2>5, <3>1 DEF ProtInv, ProtJob
      <3>2. CASE protectDoc # d
        BY <1>4, <2>3, <3>2 DEF ProtInv, ProtJob
      <3> QED
        BY <3>1, <3>2
    <2> QED
      BY <1>4, <2>4, <2>6 DEF ProtInv, ProtJob, Protect!Edits, Protect!Copies
  <1> QED
    BY <1>3, <1>4 DEF ProtJob

\* The types.
LEMMA ProtTypesStep == ProtInv /\ Protect!Next => ProtTypes'
  <1> SUFFICES ASSUME ProtInv, Protect!Next PROVE ProtTypes'
    OBVIOUS
  <1>0. ProtTypes
    BY DEF ProtInv
  <1>1. ASSUME NEW s \in Searches \cup {None}, Protect!SetSearch(s) PROVE ProtTypes'
    BY <1>0, <1>1 DEF ProtTypes, Protect!SetSearch, Protect!screen
  <1>2. ASSUME NEW m \in Matches, Protect!Toggle(m) PROVE ProtTypes'
    BY <1>0, <1>2 DEF ProtTypes, Protect!Toggle, Protect!screen
  <1>3. CASE Protect!Draw \/ (\E a \in areas : Protect!RemoveArea(a))
             \/ Protect!UndoAreas \/ Protect!RedoAreas
    BY <1>0, <1>3 DEF ProtTypes, Protect!Draw, Protect!RemoveArea, Protect!UndoAreas,
       Protect!RedoAreas, Protect!screen, Protect!review
  <1>4. ASSUME NEW kind \in Protect!Kinds, NEW new \in Passwords \cup {None},
               NEW clean \in BOOLEAN, Protect!Dispatch(kind, new, clean),
               UNCHANGED <<seq, secret, Protect!screen, known, Protect!review>>,
               protectAsked' \in BOOLEAN
        PROVE  ProtTypes'
    <2>1. protectJob' \in Protect!Jobs
      BY <1>4, ProtDispatched
    <2> QED
      BY <1>0, <1>4, <2>1 DEF ProtTypes, Protect!screen, Protect!review
  <1>5. ASSUME NEW kind \in Protect!Kinds, NEW p \in Passwords, Protect!Operate(kind, p)
        PROVE  ProtTypes'
    BY <1>0, <1>4, <1>5 DEF Protect!Operate, ProtTypes
  <1>6. CASE Protect!Preview
    BY <1>0, <1>4, <1>6 DEF Protect!Preview, Protect!Kinds, ProtTypes
  <1>7. ASSUME NEW clean \in BOOLEAN, Protect!Apply(clean) PROVE ProtTypes'
    BY <1>0, <1>4, <1>7 DEF Protect!Apply, Protect!Kinds
  <1>8. CASE Protect!AskToApply \/ Protect!Decline
    BY <1>0, <1>8 DEF ProtTypes, Protect!AskToApply, Protect!Decline, Protect!screen,
       Protect!review
  <1>9. ASSUME NEW p \in Passwords, Protect!Remember(p) PROVE ProtTypes'
    BY <1>0, <1>9 DEF ProtTypes, Protect!Remember, Protect!screen, Protect!review
  <1>10. CASE Protect!SessionEnds
    BY <1>0, <1>10 DEF ProtTypes, Protect!SessionEnds, Protect!screen, Protect!review
  <1>11. ASSUME NEW ok \in BOOLEAN, Protect!Serve(ok) PROVE ProtTypes'
    <2>1. PICK st \in {"ok", "wrong", "conflict", "failed"}, n \in 1..MaxVersion,
               to \in Passwords \cup {None} :
             /\ protectJob' = [protectJob EXCEPT !.st = st]
             /\ seq' = [seq EXCEPT ![protectDoc] = n]
             /\ secret' = [secret EXCEPT ![protectDoc] = to]
      BY <1>11, ProtServed
    <2>2. /\ protectJob # None
          /\ UNCHANGED <<protectDoc, shown, protectLoading, known, search, report, excluded,
                         protectAsked>>
      BY <1>11, ProtServed
    <2>3. protectJob' \in Protect!Jobs
      BY <1>0, <2>1, <2>2 DEF ProtTypes, Protect!Jobs
    <2>4. seq' \in [Docs -> 1..MaxVersion] /\ secret' \in [Docs -> Passwords \cup {None}]
      BY <1>0, <2>1 DEF ProtTypes
    <2> QED
      BY <1>0, <2>2, <2>3, <2>4 DEF ProtTypes
  <1>12. CASE Protect!Succeeded
    <2>0. /\ protectJob # None /\ protectJob.st = "ok" /\ protectJob \in Protect!Jobs
          /\ protectJob' = None /\ UNCHANGED <<seq, secret, protectDoc, protectAsked>>
          /\ protectLoading' \in BOOLEAN
      BY <1>0, <1>12 DEF Protect!Succeeded, ProtTypes
    <2>1. known' \in [Docs -> Passwords \cup {None}]
      <3>1. protectJob.new \in Passwords \cup {None}
        BY <2>0 DEF Protect!Jobs
      <3>2. known' \in {known, [known EXCEPT ![protectDoc] = protectJob.new],
                        [known EXCEPT ![protectDoc] = None]}
        BY <1>12 DEF Protect!Succeeded
      <3> QED
        BY <1>0, <3>1, <3>2 DEF ProtTypes
    <2>2. shown' \in 1..MaxVersion
      <3>1. protectJob.base \in 1..MaxVersion /\ MaxVersion \in Nat
            /\ seq[protectDoc] \in 1..MaxVersion
        BY <1>0, <2>0, ProtAssumption DEF Protect!Jobs, ProtTypes, Protect!Assumptions
      <3>2. CASE Protect!Edits /\ protectJob.on = protectDoc
        <4>1. shown' = protectJob.base + 1 /\ protectJob.base < seq[protectDoc]
          BY <1>12, <2>0, <3>2 DEF Protect!Succeeded, ProtInv, ProtJob
        <4> QED
          BY <3>1, <4>1
      <3>3. CASE ~(Protect!Edits /\ protectJob.on = protectDoc)
        BY <1>0, <1>12, <3>3 DEF Protect!Succeeded, ProtTypes
      <3> QED
        BY <3>2, <3>3
    <2>3. /\ search' = search /\ excluded' \in SUBSET Matches
          /\ report' # None => report'.found \subseteq Matches /\ report'.search \in Searches
      <3>1. CASE protectJob.kind = "apply"
        BY <1>12, <3>1 DEF Protect!Succeeded, Protect!Clear
      <3>2. CASE protectJob.kind = "preview"
        <4>1. protectJob.search \in Searches
          BY <1>0, <2>0, <3>2 DEF ProtInv, ProtJob, ProtTypes
        <4> QED
          BY <1>12, <3>2, <4>1 DEF Protect!Succeeded, Protect!Reported
      <3>3. CASE protectJob.kind \notin {"apply", "preview"}
        BY <1>0, <1>12, <3>3 DEF Protect!Succeeded, Protect!review, ProtTypes
      <3> QED
        BY <3>1, <3>2, <3>3
    <2> QED
      BY <1>0, <2>0, <2>1, <2>2, <2>3 DEF ProtTypes
  <1>13. CASE Protect!Failed
    BY <1>0, <1>13 DEF ProtTypes, Protect!Failed, Protect!review
  <1>14. CASE Protect!Loaded
    BY <1>0, <1>14 DEF ProtTypes, Protect!Loaded, Protect!review
  <1>15. ASSUME NEW d \in Docs, Protect!Navigate(d) PROVE ProtTypes'
    BY <1>0, <1>15 DEF ProtTypes, Protect!Navigate, Protect!Clear
  <1>16. CASE Protect!Reopen
    BY <1>0, <1>16 DEF ProtTypes, Protect!Reopen, Protect!Clear, Protect!screen
  <1>19. CASE Protect!Copied
    <2>1. protectDoc' \in Docs /\ shown' \in 1..MaxVersion
      BY <1>0, <1>19 DEF ProtTypes, Protect!Copied
    <2> QED
      BY <1>0, <1>19, <2>1 DEF ProtTypes, Protect!Copied, Protect!Clear
  <1>17. ASSUME NEW d \in Docs, Protect!OtherVersion(d) PROVE ProtTypes'
    BY <1>0, <1>17, ProtRemade DEF ProtTypes, Protect!OtherVersion, Protect!screen,
       Protect!review
  <1>18. CASE Protect!BarUndo
    <2>1. Protect!Remade(protectDoc) /\ protectDoc \in Docs /\ shown' = seq'[protectDoc]
      BY <1>0, <1>18 DEF Protect!BarUndo, ProtTypes
    <2>2. seq' \in [Docs -> 1..MaxVersion] /\ secret' \in [Docs -> Passwords \cup {None}]
      BY <2>1, ProtRemade
    <2> QED
      BY <1>0, <1>18, <2>1, <2>2 DEF ProtTypes, Protect!BarUndo, Protect!review
  <1> QED
    BY <1>1, <1>2, <1>3, <1>5, <1>6, <1>7, <1>8, <1>9, <1>10, <1>11, <1>12, <1>13, <1>14,
       <1>15, <1>16, <1>17, <1>18, <1>19 DEF Protect!Next

\* Areas are of the document shown: drawn on it, or on the two stacks since it came.
LEMMA ProtDrawnStep == ProtInv /\ Protect!Next => ProtDrawn'
  <1> SUFFICES ASSUME ProtInv, Protect!Next PROVE ProtDrawn'
    OBVIOUS
  <1> DEFINE H == ProtOn(protectDoc)
  <1>0. /\ areas \in SUBSET H /\ protectPast \in Seq(SUBSET H) /\ protectFuture \in Seq(SUBSET H)
        /\ Protect!Here \in H
    BY DEF ProtInv, ProtDrawn, ProtTypes, ProtOn, Protect!Here, Protect!Places
  <1>1. ASSUME UNCHANGED protectDoc, areas' \in SUBSET H, protectPast' \in Seq(SUBSET H),
               protectFuture' \in Seq(SUBSET H)
        PROVE  ProtDrawn'
    BY <1>1 DEF ProtDrawn
  <1>2. ASSUME areas' = {}, protectPast' = <<>>, protectFuture' = <<>> PROVE ProtDrawn'
    BY <1>2 DEF ProtDrawn
  <1>3. CASE Protect!Draw
    <2>1. /\ areas' = areas \cup {Protect!Here} /\ protectPast' = Append(protectPast, areas)
          /\ protectFuture' = <<>> /\ UNCHANGED protectDoc
      BY <1>3 DEF Protect!Draw, Protect!Drawn, Protect!screen
    <2> HIDE DEF H
    <2> QED
      BY <1>0, <1>1, <2>1
  <1>4. ASSUME NEW a \in areas, Protect!RemoveArea(a) PROVE ProtDrawn'
    <2>1. /\ areas' = areas \ {a} /\ protectPast' = Append(protectPast, areas)
          /\ protectFuture' = <<>> /\ UNCHANGED protectDoc
      BY <1>4 DEF Protect!RemoveArea, Protect!Drawn, Protect!screen
    <2> HIDE DEF H
    <2> QED
      BY <1>0, <1>1, <2>1
  <1>5. CASE Protect!UndoAreas
    <2>1. /\ protectPast # <<>> /\ areas' = protectPast[Len(protectPast)]
          /\ protectPast' = SubSeq(protectPast, 1, Len(protectPast) - 1)
          /\ protectFuture' = Append(protectFuture, areas) /\ UNCHANGED protectDoc
      BY <1>5 DEF Protect!UndoAreas, Protect!screen
    <2> HIDE DEF H
    <2>2. /\ protectPast[Len(protectPast)] \in SUBSET H
          /\ SubSeq(protectPast, 1, Len(protectPast) - 1) \in Seq(SUBSET H)
      BY <1>0, <2>1, ProtPopped
    <2> QED
      BY <1>0, <1>1, <2>1, <2>2
  <1>6. CASE Protect!RedoAreas
    <2>1. /\ protectFuture # <<>> /\ areas' = protectFuture[Len(protectFuture)]
          /\ protectFuture' = SubSeq(protectFuture, 1, Len(protectFuture) - 1)
          /\ protectPast' = Append(protectPast, areas) /\ UNCHANGED protectDoc
      BY <1>6 DEF Protect!RedoAreas, Protect!screen
    <2> HIDE DEF H
    <2>2. /\ protectFuture[Len(protectFuture)] \in SUBSET H
          /\ SubSeq(protectFuture, 1, Len(protectFuture) - 1) \in Seq(SUBSET H)
      BY <1>0, <2>1, ProtPopped
    <2> QED
      BY <1>0, <1>1, <2>1, <2>2
  <1>7. CASE (\E d \in Docs : Protect!Navigate(d)) \/ Protect!Reopen \/ Protect!Copied
    BY <1>2, <1>7 DEF Protect!Navigate, Protect!Reopen, Protect!Copied, Protect!Clear
  <1>8. CASE Protect!Succeeded
    <2>1. CASE protectJob.kind = "apply"
      BY <1>2, <1>8, <2>1 DEF Protect!Succeeded, Protect!Clear
    <2>2. CASE protectJob.kind # "apply"
      <3>1. UNCHANGED <<protectDoc, areas, protectPast, protectFuture>>
        BY <1>8, <2>2 DEF Protect!Succeeded, Protect!Reported, Protect!drawing
      <3> QED
        BY <1>0, <1>1, <3>1
    <2> QED
      BY <2>1, <2>2
  <1>9. ASSUME UNCHANGED <<protectDoc, Protect!drawing>> PROVE ProtDrawn'
    BY <1>0, <1>1, <1>9 DEF Protect!drawing
  <1>10. ASSUME NEW ok \in BOOLEAN, Protect!Serve(ok) PROVE ProtDrawn'
    BY <1>9, <1>10, ProtServed DEF Protect!drawing
  <1> QED
    BY <1>3, <1>4, <1>5, <1>6, <1>7, <1>8, <1>9, <1>10 DEF Protect!Next, Protect!SetSearch,
       Protect!Toggle, Protect!Operate, Protect!Preview, Protect!AskToApply, Protect!Decline,
       Protect!Apply, Protect!Remember, Protect!Failed, Protect!Loaded, Protect!OtherVersion,
       Protect!BarUndo, Protect!SessionEnds, Protect!screen

\* The review: the answer to a search still looked for, or none.
LEMMA ProtReviewStep == ProtInv /\ Protect!Next => ProtReview'
  <1> SUFFICES ASSUME ProtInv, Protect!Next PROVE ProtReview'
    OBVIOUS
  <1>1. ASSUME report' = None PROVE ProtReview'
    BY <1>1 DEF ProtReview
  <1>2. ASSUME UNCHANGED <<protectDoc, search, report>> PROVE ProtReview'
    BY <1>2 DEF ProtInv, ProtReview
  <1>3. CASE Protect!Succeeded
    <2>1. CASE protectJob.kind = "apply"
      BY <1>1, <1>3, <2>1 DEF Protect!Succeeded, Protect!Clear
    <2>2. CASE protectJob.kind = "preview"
      BY <1>3, <2>2 DEF Protect!Succeeded, Protect!Reported, ProtInv, ProtJob, ProtReview
    <2>3. CASE protectJob.kind \notin {"apply", "preview"}
      BY <1>2, <1>3, <2>3 DEF Protect!Succeeded, Protect!review
    <2> QED
      BY <2>1, <2>2, <2>3
  <1>4. ASSUME NEW ok \in BOOLEAN, Protect!Serve(ok) PROVE ProtReview'
    BY <1>2, <1>4, ProtServed
  <1> QED
    BY <1>1, <1>2, <1>3, <1>4 DEF Protect!Next, Protect!SetSearch, Protect!Toggle, Protect!Draw,
       Protect!RemoveArea, Protect!UndoAreas, Protect!RedoAreas, Protect!Operate,
       Protect!Preview, Protect!AskToApply, Protect!Decline, Protect!Apply, Protect!Remember,
       Protect!Copied, Protect!Failed, Protect!Loaded, Protect!Navigate, Protect!Reopen,
       Protect!Clear, Protect!OtherVersion, Protect!BarUndo, Protect!SessionEnds, Protect!screen,
       Protect!review

\* The operation under way, used as Patient says.
LEMMA ProtJobStep == ProtInv /\ Protect!Next /\ Protect!Patient => ProtJob'
  <1> SUFFICES ASSUME ProtInv, Protect!Next, Protect!Patient PROVE ProtJob'
    OBVIOUS
  <1>0. ProtTypes /\ ProtDrawn /\ ProtJob
    BY DEF ProtInv
  <1>1. ASSUME protectJob' = None PROVE ProtJob'
    BY <1>1 DEF ProtJob
  <1>2. ASSUME UNCHANGED <<seq, secret, protectDoc, search, report, protectJob>> PROVE ProtJob'
    BY <1>0, <1>2 DEF ProtJob, Protect!Edits, Protect!Copies
  <1>3. ASSUME NEW s \in Searches \cup {None}, Protect!SetSearch(s) PROVE ProtJob'
    BY <1>1, <1>3 DEF Protect!SetSearch, Protect!Patient
  <1>4. ASSUME NEW d \in Docs, Protect!Navigate(d) PROVE ProtJob'
    BY <1>1, <1>4 DEF Protect!Navigate, Protect!Patient
  <1>5. ASSUME NEW kind \in Protect!Kinds, NEW new \in Passwords \cup {None},
               NEW clean \in BOOLEAN, Protect!Dispatch(kind, new, clean),
               UNCHANGED <<protectDoc, search, report>>, kind = "preview" => search # None
        PROVE  ProtJob'
    <2>1. /\ protectJob = None /\ protectJob' # None /\ protectJob'.st = "sent"
          /\ protectJob'.kind = kind /\ protectJob'.on = protectDoc /\ protectJob'.base = shown
          /\ kind \in {"preview", "apply"} => protectJob'.search = search
          /\ protectJob'.areas = IF kind = "apply" THEN areas ELSE {}
          /\ protectJob'.only # None => kind = "apply" /\ report # None
      BY <1>5, ProtDispatched
    <2>2. kind = "apply" => /\ \A a \in areas : a.seq = shown
                            /\ report # None => report.seq = shown
      BY <2>1 DEF Protect!Patient
    <2>3. \A a \in areas : a.doc = protectDoc
      BY <1>0 DEF ProtDrawn, ProtOn
    <2> QED
      BY <1>5, <2>1, <2>2, <2>3 DEF ProtJob
  <1>6. ASSUME NEW kind \in Protect!Kinds, NEW p \in Passwords, Protect!Operate(kind, p)
        PROVE  ProtJob'
    BY <1>5, <1>6 DEF Protect!Operate, Protect!screen, Protect!review
  <1>7. CASE Protect!Preview
    BY <1>5, <1>7 DEF Protect!Preview, Protect!Kinds, Protect!screen, Protect!review
  <1>8. ASSUME NEW clean \in BOOLEAN, Protect!Apply(clean) PROVE ProtJob'
    BY <1>5, <1>8 DEF Protect!Apply, Protect!Kinds, Protect!screen, Protect!review
  <1>9. ASSUME NEW ok \in BOOLEAN, Protect!Serve(ok) PROVE ProtJob'
    <2>1. PICK st \in {"ok", "wrong", "conflict", "failed"}, n \in 1..MaxVersion,
               to \in Passwords \cup {None} :
             /\ protectJob' = [protectJob EXCEPT !.st = st]
             /\ seq' = [seq EXCEPT ![protectDoc] = n]
             /\ secret' = [secret EXCEPT ![protectDoc] = to]
             /\ st = "ok" => protectJob.base = seq[protectDoc]
             /\ st = "ok" /\ Protect!Edits => n = seq[protectDoc] + 1
             /\ st = "ok" /\ protectJob.kind = "encrypt" => to = protectJob.new
      BY <1>9, ProtServed
    <2>2. protectJob # None /\ UNCHANGED <<protectDoc, search, report>>
      BY <1>9, ProtServed
    <2>3. protectJob \in Protect!Jobs /\ protectDoc \in Docs /\ seq[protectDoc] \in Nat
          /\ seq'[protectDoc] = n /\ secret'[protectDoc] = to
      BY <1>0, <2>1, <2>2 DEF ProtTypes
    <2>4. /\ protectJob'.st = st /\ protectJob'.kind = protectJob.kind
          /\ protectJob'.on = protectJob.on /\ protectJob'.base = protectJob.base
          /\ protectJob'.search = protectJob.search /\ protectJob'.new = protectJob.new
          /\ protectJob'.clean = protectJob.clean
      BY <2>1, <2>3 DEF Protect!Jobs
    <2>5. Protect!Edits' <=> Protect!Edits
      BY <2>4 DEF Protect!Edits, Protect!Copies
    <2>6. protectJob'.st = "ok" /\ Protect!Edits' => protectJob'.base < seq'[protectDoc']
      BY <2>1, <2>2, <2>3, <2>4, <2>5
    <2>7. protectJob'.st = "ok" /\ protectJob'.kind = "encrypt"
             => secret'[protectDoc'] = protectJob'.new
      BY <2>1, <2>2, <2>3, <2>4
    <2> QED
      BY <1>0, <2>1, <2>2, <2>4, <2>6, <2>7 DEF ProtJob
  <1>10. ASSUME NEW d \in Docs, Protect!OtherVersion(d) PROVE ProtJob'
    BY <1>10, ProtRemade DEF Protect!OtherVersion, Protect!screen, Protect!review
  <1>11. CASE Protect!BarUndo
    BY <1>0, <1>11, ProtRemade DEF Protect!BarUndo, Protect!review, ProtTypes
  <1>12. CASE Protect!Succeeded \/ Protect!Copied \/ Protect!Failed \/ Protect!Reopen
    BY <1>1, <1>12 DEF Protect!Succeeded, Protect!Copied, Protect!Failed, Protect!Reopen
  <1> QED
    BY <1>2, <1>3, <1>4, <1>6, <1>7, <1>8, <1>9, <1>10, <1>11, <1>12 DEF Protect!Next,
       Protect!Toggle, Protect!Draw, Protect!RemoveArea, Protect!UndoAreas, Protect!RedoAreas,
       Protect!AskToApply, Protect!Decline, Protect!Remember, Protect!Loaded,
       Protect!SessionEnds, Protect!screen, Protect!review

LEMMA ProtStep ==
  ProtInv /\ ((Protect!Next /\ Protect!Patient) \/ UNCHANGED Protect!vars) => ProtInv'
  <1>1. ProtInv /\ UNCHANGED Protect!vars => ProtInv'
    BY DEF ProtInv, ProtTypes, ProtDrawn, ProtReview, ProtJob, Protect!Edits,
       Protect!Copies, Protect!vars
  <1> QED
    BY <1>1, ProtTypesStep, ProtDrawnStep, ProtReviewStep, ProtJobStep DEF ProtInv

\* Only the server makes an operation that was sent one that is done.
LEMMA ProtRemoves == ProtInv /\ Protect!Next => Protect!Removed
  <1> SUFFICES ASSUME ProtInv, Protect!Next, protectJob # None, protectJob' # None,
                      protectJob.st = "sent", protectJob'.st = "ok", protectJob.kind = "apply"
               PROVE  /\ \A a \in protectJob.areas : /\ a.doc = protectJob.on
                                                   /\ a.seq = seq[protectJob.on]
                      /\ protectJob.only # None => /\ report.doc = protectJob.on
                                                   /\ report.seq = seq[protectJob.on]
                                                   /\ report.search = protectJob.search
    BY DEF Protect!Removed
  <1>1. protectJob' # protectJob
    OBVIOUS
  <1>2. PICK ok \in BOOLEAN : Protect!Serve(ok)
    BY <1>1 DEF Protect!Next, Protect!SetSearch, Protect!Toggle, Protect!Draw,
       Protect!UndoAreas, Protect!RedoAreas, Protect!RemoveArea, Protect!Operate,
       Protect!Preview, Protect!AskToApply, Protect!Decline, Protect!Apply, Protect!Dispatch,
       Protect!Remember, Protect!Succeeded, Protect!Copied, Protect!Failed, Protect!Loaded,
       Protect!Navigate,
       Protect!OtherVersion, Protect!BarUndo, Protect!Reopen, Protect!SessionEnds
  <1>3. protectJob.base = seq[protectDoc]
    <2>1. PICK st \in {"ok", "wrong", "conflict", "failed"} :
             /\ protectJob' = [protectJob EXCEPT !.st = st]
             /\ st = "ok" => protectJob.base = seq[protectDoc]
      BY <1>2, ProtServed
    <2>2. protectJob \in Protect!Jobs
      BY DEF ProtInv, ProtTypes
    <2>3. protectJob'.st = st
      BY <2>1, <2>2 DEF Protect!Jobs
    <2> QED
      BY <2>1, <2>3
  <1> QED
    BY <1>3 DEF ProtInv, ProtJob, ProtReview

LEMMA ProtOpens == ProtInv /\ Protect!Next => Protect!KeptOpens
  <1> SUFFICES ASSUME ProtInv, Protect!Next, protectJob # None, protectJob' = None,
                      NEW d \in Docs, known'[d] \notin {known[d], None}
               PROVE  /\ d = protectJob.on
                      /\ seq[d] <= protectJob.base + 1 => secret[d] = known'[d]
    BY DEF Protect!KeptOpens
  <1>1. known' # known
    OBVIOUS
  <1>2. Protect!Succeeded
    BY <1>1 DEF Protect!Next, Protect!SetSearch, Protect!Toggle, Protect!Draw, Protect!UndoAreas,
       Protect!RedoAreas, Protect!RemoveArea, Protect!AskToApply, Protect!Decline,
       Protect!Serve, Protect!Answered, Protect!Remember, Protect!Copied, Protect!Failed,
       Protect!Loaded, Protect!Navigate, Protect!OtherVersion, Protect!BarUndo, Protect!Reopen,
       Protect!SessionEnds, Protect!Operate, Protect!Preview, Protect!Apply, Protect!Dispatch,
       Protect!review, Protect!drawing
  <1>3. ProtTypes /\ ProtJob
    BY DEF ProtInv
  <1>4. protectJob.kind = "encrypt" /\ known' = [known EXCEPT ![protectDoc] = protectJob.new]
        /\ d = protectDoc
    <2>1. CASE protectJob.kind = "encrypt"
      BY <1>2, <1>3, <2>1 DEF Protect!Succeeded, ProtTypes
    <2>2. CASE protectJob.kind = "decrypt"
      BY <1>2, <1>3, <2>2 DEF Protect!Succeeded, ProtTypes
    <2>3. CASE protectJob.kind \notin {"encrypt", "decrypt"}
      BY <1>1, <1>2, <2>3 DEF Protect!Succeeded
    <2> QED
      BY <2>1, <2>2, <2>3
  <1>5. known'[d] = protectJob.new /\ protectJob.st = "ok" /\ Protect!Edits
    BY <1>2, <1>3, <1>4 DEF Protect!Succeeded, ProtTypes, Protect!Edits, Protect!Copies
  <1>6. protectJob.base \in Nat /\ seq[d] \in Nat /\ protectJob.base < seq[d]
    <2>1. protectJob.base \in 1..MaxVersion /\ seq[d] \in 1..MaxVersion
      BY <1>3 DEF ProtTypes, Protect!Jobs
    <2> QED
      BY <1>3, <1>4, <1>5, <2>1, ProtAssumption DEF ProtJob, Protect!Assumptions
  <1>7. seq[d] <= protectJob.base + 1 => seq[d] = protectJob.base + 1
    BY <1>6
  <1> QED
    BY <1>3, <1>4, <1>5, <1>7 DEF ProtJob

-----------------------------------------------------------------------------
(* The parts together.                                                      *)

\* Each part in a state of its own; which it is does not change.
EditorInv == /\ part \in {"annotate", "anyhow"} => AnnoInv /\ AnnoSized
             /\ part = "annotate" => AnnoWaits
             /\ part \in {"bar", "history"} => BarInv /\ BarOld
             /\ part = "history" => BarReads
             /\ part = "edit" => EditInv
             /\ part = "forms" => FormsInv
             /\ part = "gesture" => GestInv
             /\ part = "protect" => ProtInv

LEMMA EditorInit == Init => EditorInv
  <1> SUFFICES ASSUME Init PROVE EditorInv
    OBVIOUS
  <1>1. AnnoInv /\ AnnoSized /\ AnnoWaits
    BY PartsAssumption, AnnoInit, AnnoSizedInit
    DEF Init, Anno!Init, AnnoWaits, HasStored, Anno!NoJob
  <1>2. BarInv /\ BarOld /\ BarReads /\ EditInv /\ FormsInv /\ GestInv /\ ProtInv
    BY BarInit, BarOldInit, BarReadsInit, EditInit, FormsInit, GestInit, ProtInit DEF Init
  <1> QED
    BY <1>1, <1>2 DEF EditorInv

\* What a step of the editor is to the part it is of.
LEMMA PartMoves ==
  ASSUME [Next]_vars
  PROVE  /\ UNCHANGED part
         /\ part \in {"annotate", "anyhow"} => Anno!Next \/ UNCHANGED Anno!vars
         /\ part = "annotate"
              => (Anno!PatientNext /\ Anno!Retries) \/ UNCHANGED Anno!vars
         /\ part \in {"bar", "history"} => Bar!Next \/ UNCHANGED Bar!vars
         /\ part = "history" => (Bar!Next /\ Bar!Reads) \/ UNCHANGED Bar!vars
         /\ part = "edit" => Edit!OrderlyNext \/ UNCHANGED Edit!vars
         /\ part = "forms" => Forms!OrderlyNext \/ UNCHANGED Forms!vars
         /\ part = "gesture" => Gesture!Next \/ UNCHANGED Gesture!vars
         /\ part = "protect" => (Protect!Next /\ Protect!Patient) \/ UNCHANGED Protect!vars
  <1>1. CASE UNCHANGED vars
    BY <1>1 DEF vars, annoVars, barVars, editVars, formsVars, gestureVars, protectVars,
       Anno!vars, Bar!vars, Edit!vars, Forms!vars, Gesture!vars, Protect!vars
  <1>2. CASE Next
    <2>1. Bar!Bar => Bar!Next
      BY DEF Bar!Next
    <2> QED
      BY <1>2, <2>1, PatientIsNext DEF Next
  <1> QED
    BY <1>1, <1>2

LEMMA EditorStep == EditorInv /\ [Next]_vars => EditorInv'
  <1> SUFFICES ASSUME EditorInv, [Next]_vars PROVE EditorInv'
    OBVIOUS
  <1>0. UNCHANGED part /\ Anno!Assumptions
    BY PartMoves, PartsAssumption
  <1>1. ASSUME part \in {"annotate", "anyhow"} PROVE (AnnoInv /\ AnnoSized)'
    <2>1. AnnoInv /\ AnnoSized
      BY <1>1 DEF EditorInv
    <2>2. CASE Anno!Next
      BY <1>0, <2>1, <2>2, AnnoStep, AnnoSizedStep
    <2>3. CASE UNCHANGED Anno!vars
      BY <2>1, <2>3 DEF Anno!vars, AnnoInv, AnnoTypes, AnnoSized, DepthFits, Anno!Newest
    <2> QED
      BY <1>1, <2>2, <2>3, PartMoves
  <1>2. ASSUME part = "annotate" PROVE AnnoWaits'
    <2>1. AnnoInv /\ AnnoWaits
      BY <1>2 DEF EditorInv
    <2> QED
      BY <1>2, <2>1, PartMoves, AnnoWaitsStep
  <1>3. ASSUME part \in {"bar", "history"} PROVE (BarInv /\ BarOld)'
    BY <1>3, PartMoves, BarStep, BarOldStep DEF EditorInv
  <1>4. ASSUME part = "history" PROVE BarReads'
    BY <1>4, PartMoves, BarReadsStep DEF EditorInv
  <1>5. ASSUME part = "edit" PROVE EditInv'
    BY <1>5, PartMoves, EditStep DEF EditorInv
  <1>6. ASSUME part = "forms" PROVE FormsInv'
    BY <1>6, PartMoves, FormsStep DEF EditorInv
  <1>7. ASSUME part = "gesture" PROVE GestInv'
    BY <1>7, PartMoves, GestStep DEF EditorInv
  <1>8. ASSUME part = "protect" PROVE ProtInv'
    BY <1>8, PartMoves, ProtStep DEF EditorInv
  <1> QED
    BY <1>0, <1>1, <1>2, <1>3, <1>4, <1>5, <1>6, <1>7, <1>8 DEF EditorInv

\* Each part stays in its invariant.
THEOREM InvCorrect == Spec => []EditorInv
  BY EditorInit, EditorStep, PTL DEF Spec

\* The types of each part.
THEOREM TypeCorrect == Spec => []TypeOK
  <1>1. EditorInv => TypeOK
    BY PartsAssumption, AnnoTypeOK, BarTypeOK, EditTypeOK, FormsTypeOK, GestTypeOK, ProtTypeOK
    DEF EditorInv, TypeOK
  <1> QED
    BY <1>1, InvCorrect, PTL

\* No batch writes and deletes the same mark, whatever was undone, redone, saved, refused
\* or reloaded, in whatever order.
THEOREM OneFateCorrect == Spec => []OneFatePerMark
  <1>1. EditorInv => OneFatePerMark
    BY AnnoOneFate DEF EditorInv, OneFatePerMark
  <1> QED
    BY <1>1, InvCorrect, PTL

\* What is drawn, changed or deleted is in the file before a reload takes it from the stores.
THEOREM KeptCorrect == Spec => KeptUntilStored
  <1>1. EditorInv /\ [Next]_vars => [part = "annotate" => Anno!Kept]_vars
    BY AnnoKeeps DEF EditorInv
  <1> QED
    BY <1>1, InvCorrect, PTL DEF Spec, KeptUntilStored

\* Undo and redo lose no state of the marks between them, the bar steps from the version whose
\* content is shown, and the History tab lists the versions of the document that is shown,
\* which is the one the address names.
THEOREM HistoryCorrect == Spec => HistoryIsTrue
  <1>1. EditorInv /\ [Next]_vars
        => [/\ part = "anyhow" => Anno!Walked
            /\ part \in {"bar", "history"} => Bar!CursorTellsTruth'
            /\ part = "history" => (Bar!ShownIsNamed /\ Bar!RowsAreOfDocument)']_vars
    <2> SUFFICES ASSUME EditorInv, [Next]_vars
                 PROVE  /\ part = "anyhow" => Anno!Walked
                        /\ part \in {"bar", "history"} => Bar!CursorTellsTruth'
                        /\ part = "history" => (Bar!ShownIsNamed /\ Bar!RowsAreOfDocument)'
      OBVIOUS
    <2>1. EditorInv' /\ part' = part
      BY EditorStep, PartMoves
    <2>2. (BarInv /\ BarOld)' => Bar!CursorTellsTruth'
      BY BarCursorTrue, PTL
    <2>3. BarReads' => (Bar!ShownIsNamed /\ Bar!RowsAreOfDocument)'
      BY BarReadsTrue, PTL
    <2> QED
      BY <2>1, <2>2, <2>3, AnnoWalks DEF EditorInv
  <1> QED
    BY <1>1, InvCorrect, PTL DEF Spec, HistoryIsTrue

\* What is done to a file is what was on screen when it was asked for, and the password kept
\* is one that opens the file.
THEOREM SentCorrect == Spec => SentIsSeen
  <1>1. EditorInv /\ [Next]_vars
        => [/\ part \in {"bar", "history"} => Bar!Aimed
            /\ part = "edit" => (Edit!ReviewedIsReplaced /\ Edit!StagedWhereRead)'
            /\ part = "protect" => Protect!Removed /\ Protect!KeptOpens]_vars
    <2> SUFFICES ASSUME EditorInv, Next
                 PROVE  /\ part \in {"bar", "history"} => Bar!Aimed
                        /\ part = "edit" => (Edit!ReviewedIsReplaced /\ Edit!StagedWhereRead)'
                        /\ part = "protect" => Protect!Removed /\ Protect!KeptOpens
      OBVIOUS
    <2>1. EditorInv' /\ part' = part
      BY EditorStep, PartMoves
    <2>2. EditInv' => (Edit!ReviewedIsReplaced /\ Edit!StagedWhereRead)'
      BY EditIsTrue, PTL
    <2> QED
      BY <2>1, <2>2, BarAims, ProtRemoves, ProtOpens DEF EditorInv, Next
  <1> QED
    BY <1>1, InvCorrect, PTL DEF Spec, SentIsSeen

\* A shape is made whole and on its page, and a form with the fields the page shows.
THEOREM ShownCorrect == Spec => []ShownIsMade
  <1>1. EditorInv => ShownIsMade
    BY GestShapes, FormsShown DEF EditorInv, ShownIsMade
  <1> QED
    BY <1>1, InvCorrect, PTL
=============================================================================
