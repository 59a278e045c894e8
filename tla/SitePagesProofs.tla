---------------------------- MODULE SitePagesProofs ----------------------------
(***************************************************************************)
(* Facts about the parts of SitePages, for any number of requests,          *)
(* documents, places, files and runs.  First come lemmas about sequences    *)
(* and the places a filter lets through; then each part with its inductive  *)
(* invariant, which begins true, is kept by every step the part takes under *)
(* the discipline its module names, and carries what the part promises.     *)
(* PagesProofs draws the theorems about the parts together.                 *)
(***************************************************************************)
EXTENDS SitePages, Lists, SequencesExt, FiniteSets, FiniteSetTheorems, FunctionTheorems,
        TLAPS

-----------------------------------------------------------------------------
(* Sequences, and the places a filter lets through.                         *)

\* One sequence after another.
LEMMA ConcatIs ==
  ASSUME NEW S, NEW a \in Seq(S), NEW b \in Seq(S)
  PROVE  /\ a \o b \in Seq(S) /\ Len(a \o b) = Len(a) + Len(b)
         /\ \A j \in 1..Len(a) : (a \o b)[j] = a[j]
         /\ \A j \in 1..Len(b) : (a \o b)[Len(a) + j] = b[j]
  <1>1. a \o b \in Seq(S)
    OBVIOUS
  <1>2. Len(a \o b) = Len(a) + Len(b)
    OBVIOUS
  <1>3. \A j \in 1..Len(a) : (a \o b)[j] = a[j]
    OBVIOUS
  <1>4. \A j \in 1..Len(b) : (a \o b)[Len(a) + j] = b[j]
    OBVIOUS
  <1> QED
    BY <1>1, <1>2, <1>3, <1>4

\* An element taken out of a sequence leaves the others.
LEMMA RemoveAtIs ==
  ASSUME NEW S, NEW s \in Seq(S), NEW i \in 1..Len(s)
  PROVE  /\ RemoveAt(s, i) \in Seq(S) /\ Len(RemoveAt(s, i)) = Len(s) - 1
         /\ \A j \in 1..(Len(s) - 1) :
               RemoveAt(s, i)[j] = IF j < i THEN s[j] ELSE s[j + 1]
  <1>1. /\ SubSeq(s, 1, i - 1) \in Seq(S) /\ Len(SubSeq(s, 1, i - 1)) = i - 1
        /\ \A j \in 1..(i - 1) : SubSeq(s, 1, i - 1)[j] = s[j]
    OBVIOUS
  <1>2. /\ SubSeq(s, i + 1, Len(s)) \in Seq(S) /\ Len(SubSeq(s, i + 1, Len(s))) = Len(s) - i
        /\ \A j \in 1..(Len(s) - i) : SubSeq(s, i + 1, Len(s))[j] = s[i + j]
    OBVIOUS
  <1> HIDE DEF RemoveAt
  <1> DEFINE before == SubSeq(s, 1, i - 1)
             after == SubSeq(s, i + 1, Len(s))
  <1>3. RemoveAt(s, i) = before \o after
    BY DEF RemoveAt
  <1> HIDE DEF before, after
  <1>4. before \in Seq(S) /\ after \in Seq(S) /\ Len(before) = i - 1 /\ Len(after) = Len(s) - i
    BY <1>1, <1>2 DEF before, after
  <1>5. /\ RemoveAt(s, i) \in Seq(S) /\ Len(RemoveAt(s, i)) = Len(s) - 1
        /\ \A j \in 1..(i - 1) : RemoveAt(s, i)[j] = before[j]
        /\ \A j \in 1..(Len(s) - i) : RemoveAt(s, i)[i - 1 + j] = after[j]
    <2>1. /\ before \o after \in Seq(S) /\ Len(before \o after) = Len(before) + Len(after)
          /\ \A j \in 1..Len(before) : (before \o after)[j] = before[j]
          /\ \A j \in 1..Len(after) : (before \o after)[Len(before) + j] = after[j]
      <3>1. \A a, b \in Seq(S) :
              /\ a \o b \in Seq(S) /\ Len(a \o b) = Len(a) + Len(b)
              /\ \A j \in 1..Len(a) : (a \o b)[j] = a[j]
              /\ \A j \in 1..Len(b) : (a \o b)[Len(a) + j] = b[j]
        BY ONLY ConcatIs
      <3> QED
        BY <1>4, <3>1, Zenon
    <2>2. i \in Nat /\ Len(s) \in Nat /\ i - 1 + (Len(s) - i) = Len(s) - 1
      OBVIOUS
    <2> QED
      BY ONLY <1>3, <1>4, <2>1, <2>2
  <1>6. \A j \in 1..(i - 1) : before[j] = s[j]
    BY <1>1 DEF before
  <1>7. \A j \in 1..(Len(s) - i) : after[j] = s[i + j]
    BY <1>2 DEF after
  <1>8. ASSUME NEW j \in 1..(Len(s) - 1)
        PROVE  RemoveAt(s, i)[j] = IF j < i THEN s[j] ELSE s[j + 1]
    <2>1. CASE j < i
      BY <2>1, <1>5, <1>6
    <2>2. CASE ~(j < i)
      <3>1. /\ j - (i - 1) \in 1..(Len(s) - i) /\ i + (j - (i - 1)) = j + 1
            /\ i - 1 + (j - (i - 1)) = j
        BY <2>2
      <3> DEFINE k == j - (i - 1)
      <3>2. RemoveAt(s, i)[i - 1 + k] = after[k] /\ after[k] = s[i + k]
        BY <3>1, <1>5, <1>7
      <3> QED
        BY <2>2, <3>1, <3>2
    <2> QED
      BY <2>1, <2>2
  <1> QED
    BY <1>5, <1>8

\* The k-th place of a set of places is one of them, and the places follow each other.
LEMMA NthIs ==
  ASSUME NEW n \in Nat, NEW S \in SUBSET (1..n)
  PROVE  /\ IsFiniteSet(S) /\ Cardinality(S) \in 0..n
         /\ \A k \in 1..Cardinality(S) : Nth(S, k) \in S
         /\ \A k, l \in 1..Cardinality(S) : k < l => Nth(S, k) < Nth(S, l)
         /\ \A i \in S : \E k \in 1..Cardinality(S) : Nth(S, k) = i
  <1> DEFINE Upto(i) == {j \in S : j <= i}
             rank == [i \in S |-> Cardinality(Upto(i))]
             c == Cardinality(S)
  <1>1. IsFiniteSet(S) /\ c \in Nat /\ c <= n
    <2>1. IsFiniteSet(1..n) /\ Cardinality(1..n) = n
      BY FS_Interval
    <2>2. IsFiniteSet(S) /\ Cardinality(S) <= Cardinality(1..n)
      BY <2>1, FS_Subset
    <2> QED
      BY <2>1, <2>2, FS_CardinalityType
  <1>2. \A i \in S : IsFiniteSet(Upto(i)) /\ Cardinality(Upto(i)) \in 1..c
    <2> SUFFICES ASSUME NEW i \in S PROVE IsFiniteSet(Upto(i)) /\ Cardinality(Upto(i)) \in 1..c
      OBVIOUS
    <2>1. Upto(i) \in SUBSET S
      OBVIOUS
    <2>2. IsFiniteSet(Upto(i)) /\ Cardinality(Upto(i)) <= c
      BY ONLY <1>1, <2>1, FS_Subset
    <2>3. Cardinality(Upto(i)) \in Nat
      BY ONLY <2>2, FS_CardinalityType
    <2>4. i \in Upto(i)
      OBVIOUS
    <2>5. Cardinality(Upto(i)) # 0
      BY ONLY <2>2, <2>4, FS_EmptySet
    <2> QED
      BY <1>1, <2>2, <2>3, <2>5
  <1>3. \A i, j \in S : i < j => Cardinality(Upto(i)) < Cardinality(Upto(j))
    <2> SUFFICES ASSUME NEW i \in S, NEW j \in S, i < j
                 PROVE  Cardinality(Upto(i)) < Cardinality(Upto(j))
      OBVIOUS
    <2>0. i \in Int /\ j \in Int /\ \A k \in S : k \in Int
      OBVIOUS
    <2>a. ASSUME NEW k \in Upto(i) PROVE k \in Upto(j)
      <3>1. k \in S /\ k <= i
        OBVIOUS
      <3>2. k <= j
        BY <2>0, <3>1
      <3> QED
        BY <3>1, <3>2
    <2>b. j \in Upto(j) /\ j \notin Upto(i)
      BY <2>0
    <2>1. Upto(i) \in SUBSET Upto(j) /\ j \in Upto(j) /\ j \notin Upto(i)
      BY <2>a, <2>b
    <2>2. IsFiniteSet(Upto(j)) /\ Cardinality(Upto(j)) \in Nat /\ Cardinality(Upto(i)) \in Nat
      BY <1>1, <1>2
    <2>3. /\ Cardinality(Upto(i)) <= Cardinality(Upto(j))
          /\ Cardinality(Upto(j)) # Cardinality(Upto(i))
      BY ONLY <2>1, <2>2, FS_Subset
    <2> QED
      BY <2>2, <2>3
  <1> HIDE DEF Upto
  <1>4. rank \in Injection(S, 1..c)
    <2>1. rank \in [S -> 1..c]
      BY <1>2
    <2>2. \A i, j \in S : rank[i] = rank[j] => i = j
      <3> SUFFICES ASSUME NEW i \in S, NEW j \in S, i # j PROVE rank[i] # rank[j]
        OBVIOUS
      <3>1. i \in Int /\ j \in Int
        OBVIOUS
      <3>2. CASE i < j
        BY <1>1, <1>2, <1>3, <3>2
      <3>3. CASE j < i
        BY <1>1, <1>2, <1>3, <3>3
      <3> QED
        BY <3>1, <3>2, <3>3
    <2> QED
      BY <2>1, <2>2 DEF Injection, IsInjective
  <1>5. rank \in Surjection(S, 1..c)
    <2>1. IsFiniteSet(1..c) /\ Cardinality(1..c) = c
      BY <1>1, FS_Interval
    <2> QED
      BY ONLY <1>4, <2>1, FS_Injection
  <1>6. \A k \in 1..c : \E i \in S : Cardinality(Upto(i)) = k
    BY <1>5 DEF Surjection
  <1>7. \A k \in 1..c : Nth(S, k) \in S /\ Cardinality(Upto(Nth(S, k))) = k
    BY <1>6 DEF Nth, Upto
  <1>8. \A k, l \in 1..c : k < l => Nth(S, k) < Nth(S, l)
    <2> SUFFICES ASSUME NEW k \in 1..c, NEW l \in 1..c, k < l PROVE Nth(S, k) < Nth(S, l)
      OBVIOUS
    <2> DEFINE x == Nth(S, k)
               y == Nth(S, l)
    <2>1. x \in S /\ y \in S /\ Cardinality(Upto(x)) = k /\ Cardinality(Upto(y)) = l
      BY <1>7
    <2> HIDE DEF x, y
    <2>2. x \in Int /\ y \in Int
      BY <2>1
    <2>3. ~(y < x) /\ x # y
      BY <1>1, <1>3, <2>1, <2>2
    <2> QED
      BY <2>2, <2>3 DEF x, y
  <1>9. \A i \in S : \E k \in 1..c : Nth(S, k) = i
    <2> SUFFICES ASSUME NEW i \in S PROVE \E k \in 1..c : Nth(S, k) = i
      OBVIOUS
    <2> DEFINE k == Cardinality(Upto(i))
               j == Nth(S, k)
    <2>1. k \in 1..c
      BY <1>2
    <2>2. j \in S /\ Cardinality(Upto(j)) = k
      BY <1>7, <2>1
    <2> HIDE DEF j
    <2>3. j \in Int /\ i \in Int
      BY <2>2
    <2>4. ~(i < j) /\ ~(j < i)
      BY <1>1, <1>3, <2>1, <2>2
    <2> QED
      BY <2>1, <2>3, <2>4 DEF j
  <1> QED
    BY <1>1, <1>7, <1>8, <1>9

\* What a filter lets through are the elements asked for, in their order.
LEMMA FilteredIs ==
  ASSUME NEW E, NEW s \in Seq(E), NEW T
  PROVE  LET left == Filtered(s, T)
         IN  /\ left \in Seq(E) /\ Len(left) <= Len(s) /\ Len(left) \in Nat
             /\ \E to \in [1..Len(left) -> DOMAIN s] :
                   /\ \A k \in 1..Len(left) : left[k] = s[to[k]] /\ left[k] \in T
                   /\ \A k, l \in 1..Len(left) : k < l => to[k] < to[l]
                   /\ \A i \in DOMAIN s : s[i] \in T => \E k \in 1..Len(left) : to[k] = i
  <1> DEFINE S == {i \in DOMAIN s : s[i] \in T}
             left == Filtered(s, T)
             to == InOrder(S)
             c == Cardinality(S)
  <1>1. Len(s) \in Nat /\ DOMAIN s = 1..Len(s) /\ S \in SUBSET (1..Len(s))
        /\ \A i \in 1..Len(s) : s[i] \in E
    OBVIOUS
  <1> HIDE DEF S
  <1>2. /\ c \in 0..Len(s)
        /\ \A k \in 1..c : Nth(S, k) \in S
        /\ \A k, l \in 1..c : k < l => Nth(S, k) < Nth(S, l)
        /\ \A i \in S : \E k \in 1..c : Nth(S, k) = i
    BY ONLY <1>1, NthIs
  <1> HIDE DEF c
  <1>3. /\ DOMAIN to = 1..c
        /\ \A k \in 1..c : to[k] \in S
        /\ \A k, l \in 1..c : k < l => to[k] < to[l]
        /\ \A i \in S : \E k \in 1..c : to[k] = i
    BY <1>2 DEF InOrder, c
  <1>4. left = [k \in 1..c |-> s[to[k]]]
    BY <1>3 DEF Filtered, S
  <1>5. \A k \in 1..c : to[k] \in DOMAIN s /\ s[to[k]] \in T /\ s[to[k]] \in E
    BY <1>1, <1>3 DEF S
  <1> HIDE DEF to, left
  <1>6. left \in Seq(E) /\ Len(left) = c
    <2>1. left \in [1..c -> E] /\ c \in Nat
      BY <1>2, <1>4, <1>5
    <2> QED
      BY <2>1
  <1>7. to \in [1..c -> DOMAIN s]
    BY <1>3, <1>5 DEF to, InOrder, c
  <1>8. \A k \in 1..c : left[k] = s[to[k]] /\ left[k] \in T
    BY <1>4, <1>5
  <1>9. \A i \in DOMAIN s : s[i] \in T => \E k \in 1..c : to[k] = i
    BY <1>3 DEF S
  <1>10. \E t \in [1..c -> DOMAIN s] :
            /\ \A k \in 1..c : left[k] = s[t[k]] /\ left[k] \in T
            /\ \A k, l \in 1..c : k < l => t[k] < t[l]
            /\ \A i \in DOMAIN s : s[i] \in T => \E k \in 1..c : t[k] = i
    BY <1>3, <1>7, <1>8, <1>9
  <1>11. left \in Seq(E) /\ Len(left) <= Len(s) /\ Len(left) \in Nat
    BY <1>1, <1>2, <1>6
  <1> QED
    BY <1>6, <1>10, <1>11 DEF left

-----------------------------------------------------------------------------
(* The visitor.  A script that runs is one the page can take back, until a *)
(* reload is on its way; and nobody works while an update is activated.    *)

VisitInv == /\ Visit!TypeOK
            /\ running => latch \/ leaving # None
            /\ activating => ~Visit!Busy(place)
            /\ Visit!WithdrawnIsGone /\ Visit!UpdateLosesNothing
VisitMoves == Visit!Next /\ Visit!Still

LEMMA VisitInit == Visit!Init => VisitInv
  BY SiteAssumption DEF VisitInv, Visit!Init, Visit!TypeOK, Visit!Fresh, Visit!Choices,
                          Visit!Assumptions,
     Visit!WithdrawnIsGone, Visit!UpdateLosesNothing

LEMMA VisitStep == ASSUME VisitInv, VisitMoves PROVE VisitInv'
  <1> USE DEF VisitInv, VisitMoves, Visit!TypeOK, Visit!WithdrawnIsGone,
              Visit!UpdateLosesNothing, Visit!Choices, Visit!Busy, Visit!Still,
              Visit!given, Visit!consent, Visit!tag, Visit!update
  <1>0. /\ None \notin {"granted", "denied", "consent", "update"}
        /\ Unsafe \subseteq Places
    BY SiteAssumption DEF Visit!Assumptions
  <1>1. ASSUME NEW a \in {"on", "off"}, Visit!ConfigArrives(a) PROVE VisitInv'
    BY <1>1 DEF Visit!ConfigArrives
  <1>2. CASE Visit!Fill
    BY <1>0, <1>2 DEF Visit!Fill, Visit!LoadProviderScript, Visit!Visible, Visit!CanLoadAds
  <1>3. CASE Visit!Push
    BY <1>3 DEF Visit!Push
  <1>4. CASE Visit!VersionReady
    BY <1>4 DEF Visit!VersionReady
  <1>5. CASE Visit!Activated
    BY <1>0, <1>5 DEF Visit!Activated
  <1>6. CASE Visit!Reload
    BY <1>6 DEF Visit!Reload
  <1>7. ASSUME NEW c \in {"granted", "denied"}, Visit!Say(c) PROVE VisitInv'
    BY <1>0, <1>7 DEF Visit!Say, Visit!Teardown, Visit!UnloadProviderScript
  <1>8. ASSUME NEW c \in {"granted", "denied"}, Visit!SaidElsewhere(c) PROVE VisitInv'
    BY <1>8 DEF Visit!SaidElsewhere
  <1>9. ASSUME NEW p \in Places, Visit!Navigate(p) PROVE VisitInv'
    BY <1>9 DEF Visit!Navigate
  <1>10. ASSUME NEW f \in Uploads, Visit!UploadFile(f) PROVE VisitInv'
    BY <1>10 DEF Visit!UploadFile
  <1>11. ASSUME NEW f \in Uploads, Visit!Uploaded(f) PROVE VisitInv'
    BY <1>11 DEF Visit!Uploaded
  <1> QED
    BY <1>1, <1>2, <1>3, <1>4, <1>5, <1>6, <1>7, <1>8, <1>9, <1>10, <1>11
       DEF Visit!Next

LEMMA VisitStays == VisitInv /\ UNCHANGED visitVars => VisitInv'
  BY DEF visitVars, VisitInv, Visit!TypeOK, Visit!Busy, Visit!WithdrawnIsGone,
         Visit!UpdateLosesNothing

-----------------------------------------------------------------------------
(* The Convert and Compare panels.  A comparison under way is with the      *)
(* document chosen, so its report is, which goes when another is chosen,    *)
(* in whatever panel it was shown; an export is of the document on screen.  *)

ComparisonsSent == [st : Panels!Ends, doc : PanelDocs, other : PanelDocs, offset : Offsets]
ConversionsSent == [st : Panels!Ends, doc : PanelDocs, kind : {"export", "ocr", "repair"}]

PanelTypes ==
  /\ Panels!TypeOK
  /\ compare # None => compare \in ComparisonsSent
  /\ convert # None => convert \in ConversionsSent
  /\ report # None => report.rows \subseteq 0..(report.count - 1)

PanelsInv ==
  /\ PanelTypes
  /\ compare # None => compare.other = other
  /\ convert # None => convert.doc = panelsDoc
  /\ report # None => /\ report.other = other
                      /\ panelsPage < report.count
                      /\ panelsSelected # None => panelsSelected \in report.rows
  /\ panelsMode = "convert" /\ lastExport # None => lastExport.doc = panelsDoc
PanelsMoves == Panels!Next /\ Panels!Waits

LEMMA PanelsInit == Panels!Init => PanelsInv
  <1> SUFFICES ASSUME Panels!Init PROVE PanelsInv
    OBVIOUS
  <1>1. 0 \in Offsets
    BY SiteAssumption DEF Panels!Assumptions
  <1>2. panelsPage \in Nat /\ force \in BOOLEAN
    BY DEF Panels!Init
  <1> QED
    BY <1>1, <1>2, Zenon DEF PanelsInv, PanelTypes, Panels!Init, Panels!TypeOK

LEMMA PanelsStep == ASSUME PanelsInv, PanelsMoves PROVE PanelsInv'
  <1> USE DEF PanelsInv, PanelTypes, Panels!TypeOK, ComparisonsSent, ConversionsSent,
              Panels!Ends, Panels!Reports, Panels!Pairs, Panels!comparing, Panels!converting
  <1>0. None \notin PanelDocs \cup Formats /\ 0 \in Offsets /\ MaxPages \in Nat \ {0}
    BY SiteAssumption DEF Panels!Assumptions
  <1>w. Panels!Waits /\ PanelsInv
    BY DEF PanelsMoves
  <1>1. ASSUME NEW ok \in BOOLEAN, Panels!Listed(ok) PROVE PanelsInv'
    BY <1>1 DEF Panels!Listed
  <1>2. ASSUME NEW ok \in BOOLEAN, Panels!CompareServed(ok) PROVE PanelsInv'
    BY <1>2 DEF Panels!CompareServed
  <1>3. ASSUME NEW o \in PanelDocs \cup {None}, Panels!SetOther(o) PROVE PanelsInv'
    BY <1>3, <1>w DEF Panels!SetOther, Panels!Waits
  <1>4. ASSUME NEW n \in Offsets, Panels!SetOffset(n) PROVE PanelsInv'
    BY <1>4 DEF Panels!SetOffset
  <1>5. CASE Panels!RunCompare
    BY <1>5 DEF Panels!RunCompare
  <1>6. CASE Panels!CompareAnswer
    <2>1. CASE compare.st = "ok"
      <3>1. PICK n \in 1..MaxPages : \E rows \in SUBSET (0..(n - 1)) :
               report' = [doc |-> compare.doc, other |-> compare.other,
                          offset |-> compare.offset, count |-> n, rows |-> rows]
        BY <1>6, <2>1 DEF Panels!CompareAnswer
      <3>3. PICK rows \in SUBSET (0..(n - 1)) :
               report' = [doc |-> compare.doc, other |-> compare.other,
                          offset |-> compare.offset, count |-> n, rows |-> rows]
        BY <3>1
      <3>2. report' \in Panels!Reports
        BY <1>0, <1>6, <3>3 DEF Panels!CompareAnswer
      <3> QED
        BY <1>0, <1>6, <2>1, <3>3, <3>2 DEF Panels!CompareAnswer
    <2>2. CASE compare.st # "ok"
      BY <1>6, <2>2 DEF Panels!CompareAnswer
    <2> QED
      BY <2>1, <2>2
  <1>7. ASSUME NEW row \in 0..(MaxPages - 1), Panels!GoTo(row) PROVE PanelsInv'
    BY <1>0, <1>7 DEF Panels!GoTo
  <1>8. CASE Panels!PrevPage
    BY <1>8 DEF Panels!PrevPage
  <1>9. CASE Panels!NextPage
    BY <1>9 DEF Panels!NextPage
  <1>10. ASSUME NEW format \in Formats, Panels!RunExport(format) PROVE PanelsInv'
    BY <1>10 DEF Panels!RunExport, Panels!Started
  <1>11. ASSUME NEW kind \in {"ocr", "repair"}, Panels!RunOperation(kind) PROVE PanelsInv'
    BY <1>11 DEF Panels!RunOperation, Panels!Started
  <1>12. ASSUME NEW end \in Panels!Ends \ {"sent"}, Panels!ConvertServed(end)
         PROVE  PanelsInv'
    BY <1>12 DEF Panels!ConvertServed
  <1>13. CASE Panels!ConvertAnswer
    BY <1>13 DEF Panels!ConvertAnswer
  <1>14. CASE Panels!ToggleForce
    BY <1>14 DEF Panels!ToggleForce
  <1>15. ASSUME NEW m \in {"view", "compare", "convert"}, Panels!Open(m) PROVE PanelsInv'
    <2>1. PanelTypes'
      <3>1. force' \in BOOLEAN
        BY <1>15, Zenon DEF Panels!Open
      <3>2. /\ panelsPage' \in Nat
            /\ pending' \in {pending, None} /\ candidates' \in {candidates, None}
        BY <1>15 DEF Panels!Open, Panels!Forget
      <3> QED
        BY <1>15, <3>1, <3>2, Zenon DEF Panels!Open
    <2>2. report # None => panelsPage' < report.count
      BY <1>0, <1>15 DEF Panels!Open
    <2> QED
      BY <1>15, <2>1, <2>2 DEF Panels!Open, Panels!Forget
  <1>16. ASSUME NEW d \in PanelDocs, Panels!Navigate(d) PROVE PanelsInv'
    BY <1>w, <1>16 DEF Panels!Navigate, Panels!Waits, Panels!Forget
  <1>17. ASSUME NEW d \in PanelDocs, NEW o \in PanelDocs, Panels!OpenCompared(d, o)
         PROVE  PanelsInv'
    BY <1>w, <1>17 DEF Panels!OpenCompared, Panels!Waits
  <1> QED
    BY <1>1, <1>2, <1>3, <1>4, <1>5, <1>6, <1>7, <1>8, <1>9, <1>10, <1>11, <1>12, <1>13,
       <1>14, <1>15, <1>16, <1>17
       DEF PanelsMoves, Panels!Next

LEMMA PanelsListsAreTrue == ASSUME PanelsInv PROVE Panels!AnswersAreOfDocument
  BY DEF PanelsInv, PanelTypes, Panels!TypeOK, Panels!AnswersAreOfDocument, Panels!Pairs,
         Panels!Reports

LEMMA PanelsStays == PanelsInv /\ UNCHANGED panelsVars => PanelsInv'
  BY DEF panelsVars, PanelsInv, PanelTypes, Panels!TypeOK, Panels!Pairs

-----------------------------------------------------------------------------
(* The credentials.  The tab lets go of a guest token only when its session *)
(* is over, so a live session that a request carries, or that has work in   *)
(* it, is the tab's; and the pair in the tab can be spent unless a renewal  *)
(* that has spent it is still to be answered.                               *)

Stages == {"idle", "sent", "ok", "failed", "gone", "refused", "minting", "renewing"}
Asked == [st : Stages, write : BOOLEAN, access : 0..issued, guest : 0..Len(guests),
          replay : {"no", "guest", "renewed"}, got : 0..Len(guests)]
Legs == {"no", "sent", "ok", "failed"}

SessionTypes ==
  /\ issued \in 0..MaxToken
  /\ alive \subseteq 1..issued /\ usable \subseteq 1..issued
  /\ guests \in Seq({"live", "over", "claimed"}) /\ Len(guests) <= MaxGuest
  /\ works \subseteq 1..Len(guests)
  /\ jwt \in 0..issued /\ guest \in 0..Len(guests) /\ notice \in BOOLEAN
  /\ req \in [Reqs -> Asked]
  /\ mint \in [st : Legs, key : {0}, got : 0..Len(guests)]
  /\ renewal \in [st : Legs, key : 0..issued, got : 0..issued]
  /\ login \in [st : Legs, key : 0..Len(guests), got : 0..issued]
  /\ goodbye \in 0..issued

Live(g) == g # 0 /\ guests[g] = "live"
GuestInv ==
  /\ \A r \in Reqs : /\ req[r].got = 0
                     /\ req[r].st # "idle" => req[r].access # 0 \/ req[r].guest # 0
                     /\ Live(req[r].guest) => req[r].guest = guest
                     /\ req[r].st = "gone" => ~Live(req[r].guest) /\ req[r].access = 0
                     /\ req[r].replay = "renewed" => req[r].access # 0
  /\ \A g \in works : Live(g) => g = guest
  /\ mint.st # "no" => guest = 0
  /\ login.st # "no" => login.key = guest
  /\ login.st = "ok" => ~Live(guest)

TokenInv ==
  /\ renewal.st \in {"no", "sent"} => jwt = 0 \/ jwt \in usable
  /\ renewal.st = "failed" =>
        jwt = 0 \/ jwt \in usable \/ \E r \in Reqs : req[r].st = "renewing"
  /\ renewal.st = "sent" => renewal.key \in usable
  /\ renewal.st = "ok" => renewal.got \in usable
  /\ login.st = "ok" => /\ login.got \in usable /\ login.got # jwt
                        /\ renewal.st # "no" => login.got \notin {renewal.key, renewal.got}
  /\ goodbye # 0 => jwt = 0 /\ renewal.st = "no" /\ login.st = "no"

SessionInv == SessionTypes /\ GuestInv /\ TokenInv
SessionMoves == Session!Next /\ Session!InTurn

LEMMA SessionBounds == MaxToken \in Nat /\ MaxGuest \in Nat
  BY SiteAssumption DEF Session!Assumptions

LEMMA SessionTypesAre == SessionTypes => Session!TypeOK
  <1> SUFFICES ASSUME SessionTypes PROVE Session!TypeOK
    OBVIOUS
  <1> USE SessionBounds DEF SessionTypes
  <1>1. Len(guests) \in Nat /\ issued \in Nat
    OBVIOUS
  <1>2. Asked \subseteq Session!Requests
    BY <1>1 DEF Asked, Stages, Session!Requests, Session!Tokens, Session!Guests
  <1>3. {mint, renewal, login} \subseteq Session!Flights
    BY <1>1 DEF Legs, Session!Flights
  <1> QED
    BY <1>1, <1>2, <1>3 DEF Session!TypeOK, Session!Tokens

LEMMA SessionInit == Session!Init => SessionInv
  <1> SUFFICES ASSUME Session!Init PROVE SessionInv
    OBVIOUS
  <1> USE SessionBounds DEF Session!Init, Session!NoFlight, Session!Idle
  <1>1. SessionTypes
    <2>1. Len(guests) = 0 /\ guests \in Seq({"live", "over", "claimed"})
      OBVIOUS
    <2>2. Session!Idle \in Asked
      BY <2>1 DEF Asked, Stages
    <2>3. notice \in BOOLEAN
      OBVIOUS
    <2>4. {mint, renewal, login} \subseteq [st : Legs, key : {0}, got : {0}]
      BY DEF Legs
    <2> QED
      BY <2>1, <2>2, <2>3, <2>4 DEF SessionTypes
  <1>2. GuestInv
    BY DEF GuestInv, Live
  <1>3. TokenInv
    <2>1. /\ jwt = 0 /\ goodbye = 0
          /\ renewal.st = "no" /\ mint.st = "no" /\ login.st = "no"
      OBVIOUS
    <2> QED
      BY ONLY <2>1 DEF TokenInv
  <1> QED
    BY <1>1, <1>2, <1>3 DEF SessionInv

\* A request stays one in whatever is changed of it.
LEMMA AskedChanged ==
  ASSUME SessionTypes
  PROVE  /\ Session!Idle \in Asked
         /\ \A q \in Asked, s \in Stages :
               /\ [q EXCEPT !.st = s] \in Asked
               /\ \A g \in 0..Len(guests) :
                     /\ [q EXCEPT !.st = s, !.got = g] \in Asked
                     /\ \A p \in {"no", "guest", "renewed"} :
                           /\ [q EXCEPT !.st = s, !.guest = g, !.replay = p] \in Asked
                           /\ \A x \in 0..issued :
                                 [q EXCEPT !.st = s, !.access = x, !.guest = g, !.replay = p] \in Asked
               /\ \A x \in 0..issued, p \in {"no", "guest", "renewed"} :
                     [q EXCEPT !.st = s, !.access = x, !.replay = p] \in Asked
               /\ \A w \in BOOLEAN, x \in 0..issued, g \in 0..Len(guests) :
                     [q EXCEPT !.st = s, !.write = w, !.access = x, !.guest = g] \in Asked
  <1>1. 0 \in 0..issued /\ 0 \in 0..Len(guests)
    BY SessionBounds DEF SessionTypes
  <1>2. Session!Idle \in Asked
    BY <1>1 DEF Session!Idle, Asked, Stages
  <1>3. ASSUME NEW q \in Asked, NEW s \in Stages PROVE [q EXCEPT !.st = s] \in Asked
    BY DEF Asked
  <1>4. ASSUME NEW q \in Asked, NEW s \in Stages, NEW g \in 0..Len(guests)
        PROVE  [q EXCEPT !.st = s, !.got = g] \in Asked
    BY DEF Asked
  <1>5. ASSUME NEW q \in Asked, NEW s \in Stages, NEW g \in 0..Len(guests),
               NEW p \in {"no", "guest", "renewed"}
        PROVE  [q EXCEPT !.st = s, !.guest = g, !.replay = p] \in Asked
    BY DEF Asked
  <1>6. ASSUME NEW q \in Asked, NEW s \in Stages, NEW g \in 0..Len(guests),
               NEW p \in {"no", "guest", "renewed"}, NEW x \in 0..issued
        PROVE  [q EXCEPT !.st = s, !.access = x, !.guest = g, !.replay = p] \in Asked
    BY DEF Asked
  <1>7. ASSUME NEW q \in Asked, NEW s \in Stages,
               NEW p \in {"no", "guest", "renewed"}, NEW x \in 0..issued
        PROVE  [q EXCEPT !.st = s, !.access = x, !.replay = p] \in Asked
    BY DEF Asked
  <1>8. ASSUME NEW q \in Asked, NEW s \in Stages, NEW g \in 0..Len(guests),
               NEW w \in BOOLEAN, NEW x \in 0..issued
        PROVE  [q EXCEPT !.st = s, !.write = w, !.access = x, !.guest = g] \in Asked
    BY DEF Asked
  <1> QED
    BY <1>2, <1>3, <1>4, <1>5, <1>6, <1>7, <1>8, Zenon

Mints    == [st : Legs, key : {0}, got : 0..Len(guests)]
Renewals == [st : Legs, key : 0..issued, got : 0..issued]
Logins   == [st : Legs, key : 0..Len(guests), got : 0..issued]
\* A flight begins, ends, and is over.
LEMMA FlightsChanged ==
  ASSUME SessionTypes
  PROVE  /\ Session!NoFlight \in Mints \cap Renewals \cap Logins
         /\ Session!Asking(0) \in Mints
         /\ \A x \in 0..issued : Session!Asking(x) \in Renewals
         /\ \A g \in 0..Len(guests) : Session!Asking(g) \in Logins
         /\ \A l \in Legs : /\ [mint EXCEPT !.st = l] \in Mints
                            /\ [renewal EXCEPT !.st = l] \in Renewals
                            /\ [login EXCEPT !.st = l] \in Logins
  <1>1. 0 \in 0..issued /\ 0 \in 0..Len(guests)
    BY SessionBounds DEF SessionTypes
  <1>2. mint \in Mints /\ renewal \in Renewals /\ login \in Logins
    BY DEF SessionTypes, Mints, Renewals, Logins
  <1>3. \A l \in Legs : /\ [mint EXCEPT !.st = l] \in Mints
                        /\ [renewal EXCEPT !.st = l] \in Renewals
                        /\ [login EXCEPT !.st = l] \in Logins
    BY <1>2 DEF Mints, Renewals, Logins
  <1>4. \A x \in 0..issued : Session!Asking(x) \in Renewals
    BY <1>1 DEF Session!Asking, Renewals, Legs
  <1>5. \A g \in 0..Len(guests) : Session!Asking(g) \in Logins
    BY <1>1 DEF Session!Asking, Logins, Legs
  <1> QED
    BY <1>1, <1>3, <1>4, <1>5 DEF Session!NoFlight, Session!Asking, Mints, Renewals, Logins, Legs

\* Nothing is issued: each credential stays in range.
LEMMA SessionTypesKept ==
  ASSUME SessionTypes, UNCHANGED <<issued, alive, guests, works>>, usable' \subseteq usable,
         jwt' \in 0..issued, guest' \in 0..Len(guests), notice' \in BOOLEAN,
         req' \in [Reqs -> Asked], mint' \in Mints, renewal' \in Renewals, login' \in Logins,
         goodbye' \in 0..issued
  PROVE  SessionTypes'
  <1>1. Asked' = Asked
    BY DEF Asked
  <1> QED
    BY <1>1 DEF SessionTypes, Mints, Renewals, Logins

LEMMA SessionTypesStep == ASSUME SessionTypes, GuestInv, Session!Next PROVE SessionTypes'
  <1> USE SessionBounds DEF Session!server
  <1>0. /\ issued \in Nat /\ Len(guests) \in Nat
        /\ \A r \in Reqs : req[r] \in Asked
        /\ req \in [Reqs -> Asked]
        /\ guests \in Seq({"live", "over", "claimed"})
        /\ mint \in Mints /\ renewal \in Renewals /\ login \in Logins
        /\ jwt \in 0..issued /\ guest \in 0..Len(guests) /\ notice \in BOOLEAN
        /\ goodbye \in 0..issued
        /\ 0 \in 0..issued /\ 0 \in 0..Len(guests)
    BY DEF SessionTypes, Mints, Renewals, Logins
  <1>s. /\ Stages = {"idle", "sent", "ok", "failed", "gone", "refused", "minting", "renewing"}
        /\ Legs = {"no", "sent", "ok", "failed"}
    BY Zenon DEF Stages, Legs
  <1>a. /\ Session!Idle \in Asked
        /\ \A q \in Asked, s \in Stages : [q EXCEPT !.st = s] \in Asked
    BY AskedChanged, Zenon
  <1>1. ASSUME NEW r \in Reqs, NEW yes \in BOOLEAN, Session!Send(r, yes) PROVE SessionTypes'
    <2>1. [Session!Idle EXCEPT !.st = "sent", !.write = yes, !.access = jwt, !.guest = guest]
            \in Asked
      BY <1>0, <1>s, AskedChanged, Zenon
    <2>2. req' \in [Reqs -> Asked]
      BY <1>0, <1>1, <2>1 DEF Session!Send
    <2>3. UNCHANGED <<issued, alive, usable, guests, works, jwt, guest, notice, mint, renewal,
                      login, goodbye>>
      BY <1>1 DEF Session!Send
    <2> QED
      BY <1>0, <2>2, <2>3, SessionTypesKept
  <1>2. ASSUME NEW r \in Reqs, NEW yes \in BOOLEAN, Session!Serve(r, yes) PROVE SessionTypes'
    <2>0. UNCHANGED <<issued, alive, usable, jwt, guest, notice, mint, renewal, login, goodbye>>
      BY <1>2 DEF Session!Serve
    <2>1. CASE ~(req[r].access = 0 /\ req[r].guest = 0)
      <3>1. PICK s \in Stages : req' = [req EXCEPT ![r].st = s]
        BY <1>2, <1>s, <2>1 DEF Session!Serve
      <3>2. req' \in [Reqs -> Asked]
        BY <1>0, <1>a, <3>1
      <3>3. works' \subseteq 1..Len(guests) /\ guests' = guests
        <4>1. req[r].guest \in 0..Len(guests) /\ works \subseteq 1..Len(guests)
          BY <1>0 DEF Asked, SessionTypes
        <4>2. CASE req[r].access # 0
          BY <1>2, <4>1, <4>2 DEF Session!Serve
        <4>3. CASE req[r].access = 0 /\ req[r].guest # 0
          <5>1. guests' = guests /\ works' \subseteq works \cup {req[r].guest}
            BY <1>2, <4>3 DEF Session!Serve
          <5>2. req[r].guest \in 1..Len(guests)
            BY <1>0, <4>1, <4>3
          <5> QED
            BY <4>1, <5>1, <5>2
        <4> QED
          BY <2>1, <4>2, <4>3
      <3>4. Asked' = Asked
        BY <2>0, <3>3 DEF Asked
      <3> QED
        BY <2>0, <3>2, <3>3, <3>4 DEF SessionTypes
    <2>3. CASE req[r].access = 0 /\ req[r].guest = 0
      <3>1. CASE yes /\ req[r].write /\ Len(guests) < MaxGuest
        <4>1. /\ guests' = Append(guests, "live") /\ works' = works \cup {Len(guests) + 1}
              /\ req' = [req EXCEPT ![r].st = "ok", ![r].got = Len(guests) + 1]
          BY <1>2, <2>3, <3>1 DEF Session!Serve
        <4>2. /\ guests' \in Seq({"live", "over", "claimed"})
              /\ Len(guests') = Len(guests) + 1
          BY <1>0, <4>1
        <4>4. req' \in [Reqs -> Asked']
          BY <1>0, <2>0, <4>1, <4>2 DEF Asked, Stages
        <4>5. Len(guests) + 1 <= MaxGuest
          BY <1>0, <3>1
        <4> QED
          BY <1>0, <4>5, <4>1, <4>2, <2>0, <4>4 DEF SessionTypes
      <3>2. CASE ~(yes /\ req[r].write /\ Len(guests) < MaxGuest)
        <4>1. req' = [req EXCEPT ![r].st = "failed"] /\ UNCHANGED <<guests, works>>
          BY <1>2, <2>3, <3>2 DEF Session!Serve
        <4>2. req' \in [Reqs -> Asked]
          BY <1>0, <1>a, <1>s, <4>1
        <4> QED
          BY <1>0, <2>0, <4>1, <4>2, SessionTypesKept
      <3> QED
        BY <3>1, <3>2
    <2> QED
      BY <2>1, <2>3
  <1>3. ASSUME NEW r \in Reqs, Session!Succeeds(r) PROVE SessionTypes'
    <2>1. req' \in [Reqs -> Asked]
      BY <1>0, <1>a, <1>3 DEF Session!Succeeds
    <2>2. req[r].got \in 0..Len(guests)
      BY <1>0 DEF Asked
    <2> QED
      BY <1>0, <1>3, <2>1, <2>2, SessionTypesKept DEF Session!Succeeds
  <1>4. ASSUME NEW r \in Reqs, Session!Fails(r) PROVE SessionTypes'
    <2>1. req' \in [Reqs -> Asked]
      BY <1>0, <1>a, <1>4 DEF Session!Fails
    <2> QED
      BY <1>0, <1>4, <2>1, SessionTypesKept DEF Session!Fails
  <1>5. ASSUME NEW r \in Reqs, Session!Recover(r) PROVE SessionTypes'
    <2>1. UNCHANGED <<issued, alive, usable, guests, works, jwt, renewal, login, goodbye>>
      BY <1>5 DEF Session!Recover
    <2>0. req[r].replay \in {"no", "guest"}
      BY <1>0, <1>5 DEF Session!Recover, GuestInv, Asked
    <2>2. /\ guest' \in {guest, 0} /\ notice' \in {notice, TRUE}
          /\ mint' \in {mint, Session!Asking(0)}
      BY <1>5, <2>0 DEF Session!Recover
    <2>3. req' \in [Reqs -> Asked]
      <3>1. PICK g \in 0..Len(guests) :
              \/ req' = [req EXCEPT ![r] = Session!Idle]
              \/ req' = [req EXCEPT ![r].st = "minting"]
              \/ req' = [req EXCEPT ![r].st = "sent", ![r].guest = g, ![r].replay = "guest"]
        BY <1>0, <1>5, <2>0 DEF Session!Recover
      <3>2. [req[r] EXCEPT !.st = "sent", !.guest = g, !.replay = "guest"] \in Asked
        BY <1>0, <1>s, AskedChanged, Zenon
      <3> QED
        BY <1>0, <1>a, <1>s, <3>1, <3>2, Zenon
    <2>4. mint' \in Mints
      BY <1>0, <2>2, FlightsChanged
    <2> QED
      BY <1>0, <2>1, <2>2, <2>3, <2>4, SessionTypesKept
  <1>6. ASSUME NEW r \in Reqs, Session!Renew(r) PROVE SessionTypes'
    <2>1. req' \in [Reqs -> Asked]
      BY <1>0, <1>a, <1>s, <1>6 DEF Session!Renew
    <2>2. renewal' \in Renewals
      BY <1>0, <1>6, FlightsChanged DEF Session!Renew
    <2> QED
      BY <1>0, <1>6, <2>1, <2>2, SessionTypesKept DEF Session!Renew
  <1>7. ASSUME NEW yes \in BOOLEAN, Session!MintServed(yes) PROVE SessionTypes'
    <2>1. CASE yes /\ Len(guests) < MaxGuest
      <3>1. /\ guests' = Append(guests, "live")
            /\ mint' = [mint EXCEPT !.st = "ok", !.got = Len(guests) + 1]
        BY <1>7, <2>1 DEF Session!MintServed
      <3>2. guests' \in Seq({"live", "over", "claimed"}) /\ Len(guests') = Len(guests) + 1
        BY <1>0, <3>1
      <3>3. UNCHANGED <<issued, alive, usable, works, jwt, guest, notice, req, renewal,
                        login, goodbye>>
        BY <1>7 DEF Session!MintServed
      <3>4. Asked \subseteq Asked'
        BY <1>0, <3>2, <3>3 DEF Asked
      <3>5. mint' \in [st : Legs, key : {0}, got : 0..Len(guests')]
        <4>1. mint' = [st |-> "ok", key |-> mint.key, got |-> Len(guests) + 1]
          BY <1>0, <3>1 DEF Mints
        <4> QED
          BY <1>0, <1>s, <3>2, <4>1 DEF Mints
      <3>6. req' \in [Reqs -> Asked']
        BY <1>0, <3>3, <3>4
      <3>7. login' \in [st : Legs, key : 0..Len(guests'), got : 0..issued']
        BY <1>0, <3>2, <3>3 DEF Logins
      <3> QED
        BY <1>0, <2>1, <3>2, <3>3, <3>5, <3>6, <3>7 DEF SessionTypes
    <2>2. CASE ~(yes /\ Len(guests) < MaxGuest)
      <3>1. mint' \in Mints
        BY <1>7, <1>s, <2>2, FlightsChanged DEF Session!MintServed
      <3> QED
        BY <1>0, <1>7, <2>2, <3>1, SessionTypesKept DEF Session!MintServed
    <2> QED
      BY <2>1, <2>2
  <1>8. ASSUME NEW yes \in BOOLEAN, Session!LoginServed(yes) PROVE SessionTypes'
    <2>1. CASE yes /\ issued < MaxToken
      <3>1. /\ issued' = issued + 1
            /\ alive' = alive \cup {issued + 1} /\ usable' = usable \cup {issued + 1}
            /\ guests' = IF Session!Honoured(login.key)
                         THEN [guests EXCEPT ![login.key] = "claimed"] ELSE guests
            /\ login' = [login EXCEPT !.st = "ok", !.got = issued + 1]
        BY <1>8, <2>1 DEF Session!LoginServed
      <3>2. guests' \in Seq({"live", "over", "claimed"}) /\ Len(guests') = Len(guests)
        <4>1. login.key \in 0..Len(guests)
          BY <1>0 DEF Logins
        <4> QED
          BY <1>0, <3>1, <4>1 DEF Session!Honoured
      <3>3. UNCHANGED <<works, jwt, guest, notice, req, mint, renewal, goodbye>>
        BY <1>8 DEF Session!LoginServed
      <3>4. Asked \subseteq Asked'
        BY <1>0, <3>1, <3>2 DEF Asked
      <3>5. req' \in [Reqs -> Asked']
        BY <1>0, <3>3, <3>4
      <3>6. /\ login' \in [st : Legs, key : 0..Len(guests'), got : 0..issued']
            /\ renewal' \in [st : Legs, key : 0..issued', got : 0..issued']
        <4>1. login' = [st |-> "ok", key |-> login.key, got |-> issued + 1]
          BY <1>0, <3>1 DEF Logins
        <4>2. login.key \in 0..Len(guests)
          BY <1>0 DEF Logins
        <4>3. login' \in [st : Legs, key : 0..Len(guests'), got : 0..issued']
          BY <1>0, <1>s, <3>1, <3>2, <4>1, <4>2
        <4> QED
          BY <1>0, <3>1, <3>3, <4>3 DEF Renewals
      <3>7. /\ mint' \in [st : Legs, key : {0}, got : 0..Len(guests')]
            /\ works' \subseteq 1..Len(guests') /\ guest' \in 0..Len(guests')
            /\ Len(guests') <= MaxGuest /\ notice' \in BOOLEAN
        BY <3>2, <3>3 DEF SessionTypes
      <3>8. /\ issued' \in 0..MaxToken /\ alive' \subseteq 1..issued'
            /\ usable' \subseteq 1..issued' /\ jwt' \in 0..issued' /\ goodbye' \in 0..issued'
        BY <1>0, <2>1, <3>1, <3>3 DEF SessionTypes
      <3> QED
        BY <3>2, <3>5, <3>6, <3>7, <3>8 DEF SessionTypes
    <2>2. CASE ~(yes /\ issued < MaxToken)
      <3>1. login' \in Logins
        BY <1>8, <1>s, <2>2, FlightsChanged DEF Session!LoginServed
      <3> QED
        BY <1>0, <1>8, <2>2, <3>1, SessionTypesKept DEF Session!LoginServed
    <2> QED
      BY <2>1, <2>2
  <1>9. ASSUME NEW yes \in BOOLEAN, Session!LogoutServed(yes) PROVE SessionTypes'
    BY <1>0, <1>9, SessionTypesKept DEF Session!LogoutServed
  <1>10. CASE Session!EnsureSession
    BY <1>0, <1>10, FlightsChanged, SessionTypesKept DEF Session!EnsureSession
  <1>11. CASE Session!MintAnswer
    <2>1. UNCHANGED <<issued, alive, usable, guests, works, jwt, renewal, login, goodbye>>
      BY <1>11 DEF Session!MintAnswer
    <2>2. guest' \in 0..Len(guests) /\ mint' = Session!NoFlight /\ notice' \in BOOLEAN
      BY <1>0, <1>11 DEF Session!MintAnswer, Mints
    <2>3. req' \in [Reqs -> Asked]
      <3>1. req' = [r \in Reqs |-> req'[r]]
        BY <1>11 DEF Session!MintAnswer
      <3>2. ASSUME NEW r \in Reqs
            PROVE  req'[r] \in {req[r], Session!Idle,
                     [req[r] EXCEPT !.st = "sent", !.access = 0, !.guest = guest',
                                    !.replay = "guest"]}
        BY <1>11 DEF Session!MintAnswer
      <3>3. ASSUME NEW r \in Reqs PROVE req'[r] \in Asked
        <4>1. [req[r] EXCEPT !.st = "sent", !.access = 0, !.guest = guest', !.replay = "guest"]
                \in Asked
          BY <1>0, <1>s, <2>2, AskedChanged, Zenon
        <4>2. req[r] \in Asked /\ Session!Idle \in Asked
          BY <1>0, <1>a, Zenon
        <4> QED
          BY ONLY <3>2, <4>1, <4>2
      <3> QED
        BY <3>1, <3>3
    <2> QED
      BY <1>0, <2>1, <2>2, <2>3, FlightsChanged, SessionTypesKept
  <1>12. CASE Session!RefreshAccess
    BY <1>0, <1>12, FlightsChanged, SessionTypesKept DEF Session!RefreshAccess
  <1>13. CASE Session!RenewalServed
    <2>1. CASE renewal.key \in usable /\ issued < MaxToken
      <3>1. /\ issued' = issued + 1 /\ alive' = alive \cup {issued + 1}
            /\ usable' = (usable \ {renewal.key}) \cup {issued + 1}
            /\ renewal' = [renewal EXCEPT !.st = "ok", !.got = issued + 1]
        BY <1>13, <2>1 DEF Session!RenewalServed
      <3>3. UNCHANGED <<guests, works, jwt, guest, notice, req, mint, login, goodbye>>
        BY <1>13 DEF Session!RenewalServed
      <3>4. Asked \subseteq Asked'
        BY <1>0, <3>1, <3>3 DEF Asked
      <3>5. req' \in [Reqs -> Asked']
        BY <1>0, <3>3, <3>4
      <3>6. /\ login' \in [st : Legs, key : 0..Len(guests'), got : 0..issued']
            /\ renewal' \in [st : Legs, key : 0..issued', got : 0..issued']
        <4>1. renewal' = [st |-> "ok", key |-> renewal.key, got |-> issued + 1]
          BY <1>0, <3>1 DEF Renewals
        <4>2. renewal.key \in 0..issued
          BY <1>0 DEF Renewals
        <4>3. renewal' \in [st : Legs, key : 0..issued', got : 0..issued']
          BY <1>0, <1>s, <3>1, <4>1, <4>2
        <4> QED
          BY <1>0, <3>1, <3>3, <4>3 DEF Logins
      <3>8. /\ issued' \in 0..MaxToken /\ alive' \subseteq 1..issued'
            /\ usable' \subseteq 1..issued' /\ jwt' \in 0..issued' /\ goodbye' \in 0..issued'
        BY <1>0, <2>1, <3>1, <3>3 DEF SessionTypes
      <3> QED
        BY <3>3, <3>5, <3>6, <3>8 DEF SessionTypes
    <2>2. CASE ~(renewal.key \in usable /\ issued < MaxToken)
      <3>1. renewal' \in Renewals
        BY <1>13, <1>s, <2>2, FlightsChanged DEF Session!RenewalServed
      <3> QED
        BY <1>0, <1>13, <2>2, <3>1, SessionTypesKept DEF Session!RenewalServed
    <2> QED
      BY <2>1, <2>2
  <1>14. CASE Session!RenewalLost
    BY <1>0, <1>14, <1>s, FlightsChanged, SessionTypesKept DEF Session!RenewalLost
  <1>15. CASE Session!RenewalAnswer
    <2>1. UNCHANGED <<issued, alive, usable, guests, works, guest, notice, mint, login, goodbye>>
      BY <1>15 DEF Session!RenewalAnswer
    <2>2. renewal' = Session!NoFlight /\ renewal.got \in 0..issued
      BY <1>0, <1>15 DEF Session!RenewalAnswer, Renewals
    <2>3. jwt' \in 0..issued
      <3>1. jwt' \in {jwt, 0, renewal.got}
        BY <1>15 DEF Session!RenewalAnswer
      <3> QED
        BY <1>0, <2>2, <3>1
    <2>4. req' \in [Reqs -> Asked]
      <3>1. req' = [r \in Reqs |-> req'[r]]
        BY <1>15 DEF Session!RenewalAnswer
      <3>2. ASSUME NEW r \in Reqs
            PROVE  req'[r] \in {req[r], Session!Idle,
                     [req[r] EXCEPT !.st = "sent", !.access = renewal.got,
                                    !.replay = "renewed"]}
        BY <1>15 DEF Session!RenewalAnswer
      <3>3. ASSUME NEW r \in Reqs PROVE req'[r] \in Asked
        <4>1. [req[r] EXCEPT !.st = "sent", !.access = renewal.got, !.replay = "renewed"]
                \in Asked
          BY <1>0, <1>s, <2>2, AskedChanged, Zenon
        <4>2. req[r] \in Asked /\ Session!Idle \in Asked
          BY <1>0, <1>a, Zenon
        <4> QED
          BY ONLY <3>2, <4>1, <4>2
      <3> QED
        BY <3>1, <3>3
    <2> QED
      BY <1>0, <2>1, <2>2, <2>3, <2>4, FlightsChanged, SessionTypesKept
  <1>16. CASE Session!Login
    BY <1>0, <1>16, FlightsChanged, SessionTypesKept DEF Session!Login
  <1>17. CASE Session!LoginAnswer
    <2>1. login.got \in 0..issued
      BY <1>0 DEF Logins
    <2> QED
      BY <1>0, <1>17, <2>1, FlightsChanged, SessionTypesKept
         DEF Session!LoginAnswer, Session!OnClaimed
  <1>18. CASE Session!Logout
    BY <1>0, <1>18, SessionTypesKept DEF Session!Logout, Session!ClearSession
  <1>19. CASE Session!DismissNotice
    BY <1>0, <1>19, SessionTypesKept DEF Session!DismissNotice
  <1>20. CASE Session!AccessExpires
    <2>1. Asked' = Asked
      BY <1>20 DEF Session!AccessExpires, Asked
    <2> QED
      BY <1>0, <1>20, <2>1 DEF Session!AccessExpires, SessionTypes
  <1>21. ASSUME NEW g \in 1..Len(guests), Session!GuestExpires(g) PROVE SessionTypes'
    <2>1. guests' \in Seq({"live", "over", "claimed"}) /\ Len(guests') = Len(guests)
      BY <1>0, <1>21 DEF Session!GuestExpires
    <2>2. Asked' = Asked
      BY <1>21, <2>1 DEF Session!GuestExpires, Asked
    <2> QED
      BY <1>0, <1>21, <2>1, <2>2 DEF Session!GuestExpires, SessionTypes
  <1> QED
    BY <1>1, <1>2, <1>3, <1>4, <1>5, <1>6, <1>7, <1>8, <1>9, <1>10, <1>11, <1>12, <1>13,
       <1>14, <1>15, <1>16, <1>17, <1>18, <1>19, <1>20, <1>21
       DEF Session!Next

\* What is true of each request.
Good(q) == /\ q.got = 0
           /\ q.st # "idle" => q.access # 0 \/ q.guest # 0
           /\ Live(q.guest) => q.guest = guest
           /\ q.st = "gone" => ~Live(q.guest) /\ q.access = 0
           /\ q.replay = "renewed" => q.access # 0
TabInv == /\ \A g \in works : Live(g) => g = guest
          /\ mint.st # "no" => guest = 0
          /\ login.st # "no" => login.key = guest
          /\ login.st = "ok" => ~Live(guest)

LEMMA GuestInvIs == GuestInv <=> (\A r \in Reqs : Good(req[r])) /\ TabInv
  BY DEF GuestInv, Good, TabInv

\* One request changes and the guest session does not.
LEMMA OneGood ==
  ASSUME SessionTypes, GuestInv, UNCHANGED <<guests, guest, works>>,
         NEW r \in Reqs, NEW q, req' = [req EXCEPT ![r] = q], Good(q),
         mint'.st # "no" => guest = 0, UNCHANGED login
  PROVE  GuestInv'
  <1>1. \A p \in Reqs : req'[p] = IF p = r THEN q ELSE req[p]
    BY DEF SessionTypes
  <1> QED
    BY <1>1 DEF GuestInv, Good, Live

\* The requests stay; what is held and what is over may change.
LEMMA AllGood ==
  ASSUME SessionTypes, GuestInv, UNCHANGED <<req, works>>,
         \A g \in 0..Len(guests) : Live(g)' => Live(g),
         guest # guest' => ~Live(guest),
         TabInv'
  PROVE  GuestInv'
  <1>1. \A r \in Reqs : req[r].guest \in 0..Len(guests)
    BY DEF SessionTypes, Asked
  <1> QED
    BY <1>1 DEF GuestInv, TabInv

LEMMA GuestSame ==
  ASSUME SessionTypes, GuestInv, UNCHANGED <<guests, guest, works, req>>,
         mint'.st # "no" => guest = 0, login'.st # "no" => login'.key = guest,
         login'.st = "ok" => login.st = "ok"
  PROVE  GuestInv' /\ guest' = guest
  <1>1. \A g \in 0..Len(guests) : Live(g)' => Live(g)
    BY DEF Live
  <1>2. TabInv'
    <2>1. TabInv
      BY GuestInvIs
    <2> QED
      BY <2>1 DEF TabInv, Live
  <1> QED
    BY <1>1, <1>2, AllGood

LEMMA GuestStep ==
  ASSUME SessionTypes, GuestInv, TokenInv, SessionMoves
  PROVE  GuestInv' /\ Session!GuestIsKept
  <1> USE DEF Session!server
  <1>0. /\ issued \in Nat /\ Len(guests) \in Nat
        /\ req \in [Reqs -> Asked] /\ \A r \in Reqs : req[r] \in Asked
        /\ mint \in Mints /\ renewal \in Renewals /\ login \in Logins
        /\ jwt \in 0..issued /\ guest \in 0..Len(guests)
        /\ works \subseteq 1..Len(guests) /\ usable \subseteq 1..issued
    BY SessionBounds DEF SessionTypes, Mints, Renewals, Logins
  <1>g. (\A r \in Reqs : Good(req[r])) /\ TabInv
    BY GuestInvIs
  <1>t. Session!InTurn
    BY DEF SessionMoves
  <1>u. login.st # "no" => req' = req /\ mint' = mint
    BY <1>t DEF Session!InTurn
  <1>i. Good(Session!Idle)
    BY DEF Good, Session!Idle, Live
  <1>k. ASSUME guest' = guest PROVE Session!GuestIsKept
    BY <1>k DEF Session!GuestIsKept
  <1>1. ASSUME NEW r \in Reqs, NEW yes \in BOOLEAN, Session!Send(r, yes)
        PROVE  GuestInv' /\ guest' = guest
    <2> DEFINE q == [Session!Idle EXCEPT !.st = "sent", !.write = yes, !.access = jwt,
                                         !.guest = guest]
    <2>1. req' = [req EXCEPT ![r] = q] /\ req[r].st = "idle"
      BY <1>1 DEF Session!Send
    <2>2. Session!Principal
      <3>1. req'[r].st = "sent"
        BY <1>0, <2>1 DEF Session!Idle
      <3> QED
        BY <1>t, <2>1, <3>1 DEF Session!InTurn
    <2>3. Good(q)
      BY <2>2 DEF Good, Session!Idle, Session!Principal, Live
    <2> HIDE DEF q
    <2> QED
      BY <1>1, <1>g, <2>1, <2>3, OneGood DEF Session!Send, TabInv
  <1>2. ASSUME NEW r \in Reqs, NEW yes \in BOOLEAN, Session!Serve(r, yes)
        PROVE  GuestInv' /\ guest' = guest
    <2>1. req[r].st = "sent" /\ Good(req[r]) /\ req[r] \in Asked
      BY <1>0, <1>2, <1>g DEF Session!Serve
    <2>2. UNCHANGED <<guest, mint, login>>
      BY <1>2 DEF Session!Serve
    <2>3. CASE req[r].access # 0
      <3>1. PICK s \in {"refused", "ok", "failed"} : req' = [req EXCEPT ![r].st = s]
        BY <1>2, <2>3 DEF Session!Serve
      <3>2. Good([req[r] EXCEPT !.st = s])
        BY <2>1, <2>3, <3>1 DEF Good, Asked
      <3>3. req' = [req EXCEPT ![r] = [req[r] EXCEPT !.st = s]]
        BY <3>1
      <3>4. UNCHANGED <<guests, works>>
        BY <1>2, <2>3 DEF Session!Serve
      <3> QED
        BY <1>g, <2>2, <3>2, <3>3, <3>4, OneGood DEF TabInv
    <2>4. CASE req[r].access = 0
      <3>0. req[r].guest # 0 /\ req[r].guest \in 0..Len(guests)
        BY <2>1, <2>4 DEF Good, Asked
      <3>1. PICK s \in {"gone", "ok", "failed"} :
               /\ req' = [req EXCEPT ![r].st = s]
               /\ s = "gone" <=> ~Session!Honoured(req[r].guest)
        BY <1>2, <2>4, <3>0 DEF Session!Serve
      <3>2. Good([req[r] EXCEPT !.st = s])
        BY <2>1, <2>4, <3>0, <3>1 DEF Good, Asked, Session!Honoured, Live
      <3>3. \A p \in Reqs : req'[p] = IF p = r THEN [req[r] EXCEPT !.st = s] ELSE req[p]
        BY <1>0, <3>1
      <3>4. /\ guests' = guests
            /\ works' = works \/ (works' = works \cup {req[r].guest})
        BY <1>2, <2>4, <3>0 DEF Session!Serve
      <3>5. Live(req[r].guest) => req[r].guest = guest
        BY <2>1 DEF Good
      <3>6. \A p \in Reqs : Good(req[p])'
        BY <1>g, <2>2, <3>2, <3>3, <3>4 DEF Good, Live
      <3>7. TabInv'
        BY <1>g, <2>2, <3>4, <3>5 DEF TabInv, Live
      <3> QED
        BY <2>2, <3>6, <3>7 DEF GuestInv, Good, TabInv
    <2> QED
      BY <2>3, <2>4
  <1>3. ASSUME NEW r \in Reqs, Session!Succeeds(r) PROVE GuestInv' /\ guest' = guest
    <2>1. req[r].got = 0
      BY <1>g DEF Good
    <2> QED
      BY <1>3, <1>g, <1>i, <2>1, OneGood DEF Session!Succeeds, TabInv
  <1>4. ASSUME NEW r \in Reqs, Session!Fails(r) PROVE GuestInv' /\ guest' = guest
    BY <1>4, <1>g, <1>i, OneGood DEF Session!Fails, TabInv
  <1>5. ASSUME NEW r \in Reqs, Session!Recover(r) PROVE GuestInv' /\ Session!GuestIsKept
    <2>1. /\ req[r].st = "gone" /\ Good(req[r]) /\ req[r] \in Asked
          /\ req[r].access = 0 /\ req[r].guest # 0 /\ ~Live(req[r].guest)
          /\ req[r].replay \in {"no", "guest"}
      BY <1>0, <1>5, <1>g DEF Session!Recover, Good, Asked
    <2>2. UNCHANGED <<guests, works, jwt, renewal, login, goodbye>>
      BY <1>5 DEF Session!Recover
    <2> DEFINE now == IF Session!Superseded(r) THEN guest ELSE 0
    <2>a. \/ req' = [req EXCEPT ![r] = Session!Idle]
          \/ req' = [req EXCEPT ![r].st = "minting"]
          \/ /\ now # 0 /\ guest' = guest
             /\ req' = [req EXCEPT ![r].st = "sent", ![r].guest = now, ![r].replay = "guest"]
      BY <1>5, <2>1 DEF Session!Recover
    <2>3. login.st = "no"
      <3>1. req'[r].st # "gone"
        <4>1. \A q : req' = [req EXCEPT ![r] = q] => req'[r] = q
          BY <1>0
        <4>2. CASE req' = [req EXCEPT ![r] = Session!Idle]
          <5>1. req'[r] = Session!Idle
            BY <4>1, <4>2
          <5> QED
            BY <5>1 DEF Session!Idle
        <4>3. CASE req' = [req EXCEPT ![r].st = "minting"]
          BY <1>0, <2>1, <4>3 DEF Asked
        <4>4. CASE req' = [req EXCEPT ![r].st = "sent", ![r].guest = now, ![r].replay = "guest"]
          BY <1>0, <2>1, <4>4 DEF Asked
        <4> QED
          BY <2>a, <4>2, <4>3, <4>4
      <3>2. req' # req
        BY <2>1, <3>1
      <3> QED
        BY <1>u, <3>2
    <2>4. guest' # guest => guest' = 0 /\ guest = req[r].guest
      BY <1>5, <2>1 DEF Session!Recover, Session!Superseded
    <2>5. Session!GuestIsKept
      BY <2>1, <2>4 DEF Session!GuestIsKept, Live
    <2>6. mint'.st # "no" => guest' = 0
      BY <1>5, <1>g, <2>1 DEF Session!Recover, TabInv
    <2>7. TabInv'
      BY <1>g, <2>1, <2>2, <2>3, <2>4, <2>6 DEF TabInv, Live
    <2>8. now # 0 => now = guest
      OBVIOUS
    <2>9. PICK q : /\ req' = [req EXCEPT ![r] = q]
                   /\ \/ q = Session!Idle \/ q = [req[r] EXCEPT !.st = "minting"]
                      \/ /\ guest' # 0
                         /\ q = [req[r] EXCEPT !.st = "sent", !.guest = guest', !.replay = "guest"]
      <3>1. CASE req' = [req EXCEPT ![r] = Session!Idle]
        BY <3>1
      <3>2. CASE req' = [req EXCEPT ![r].st = "minting"]
        BY <3>2
      <3>3. CASE /\ now # 0 /\ guest' = guest
                 /\ req' = [req EXCEPT ![r].st = "sent", ![r].guest = now, ![r].replay = "guest"]
        BY <2>8, <3>3
      <3> QED
        BY <2>a, <3>1, <3>2, <3>3
    <2>10. \A p \in Reqs : req'[p] = IF p = r THEN q ELSE req[p]
      BY <1>0, <2>9
    <2>12. /\ q.got = 0
           /\ q.st # "idle" => q.access # 0 \/ q.guest # 0
           /\ q.st # "gone" /\ q.replay # "renewed"
           /\ q.guest = 0 \/ q.guest = guest' \/ q.guest = req[r].guest
      <3>1. CASE q = Session!Idle
        BY <3>1 DEF Session!Idle
      <3>2. CASE q = [req[r] EXCEPT !.st = "minting"]
        BY <2>1, <3>2 DEF Good, Asked
      <3>3. CASE /\ guest' # 0
                 /\ q = [req[r] EXCEPT !.st = "sent", !.guest = guest', !.replay = "guest"]
        BY <2>1, <3>3 DEF Good, Asked
      <3> QED
        BY <2>9, <3>1, <3>2, <3>3
    <2>13. Good(req[r])'
      BY <2>1, <2>2, <2>10, <2>12 DEF Good, Live
    <2>14. ASSUME NEW p \in Reqs, p # r PROVE Good(req[p])'
      BY <1>g, <2>1, <2>2, <2>4, <2>10, <2>14 DEF Good, Live
    <2> QED
      BY <2>5, <2>7, <2>13, <2>14 DEF GuestInv, Good, TabInv
  <1>6. ASSUME NEW r \in Reqs, Session!Renew(r) PROVE GuestInv' /\ guest' = guest
    <2>1. Good([req[r] EXCEPT !.st = "renewing"])
      BY <1>0, <1>6, <1>g DEF Session!Renew, Good, Asked
    <2> QED
      BY <1>6, <1>g, <1>i, <2>1, OneGood DEF Session!Renew, TabInv
  <1>7. ASSUME NEW yes \in BOOLEAN, Session!MintServed(yes) PROVE GuestInv' /\ guest' = guest
    <2>1. UNCHANGED <<works, guest, req, login>> /\ guest = 0
      BY <1>7, <1>g DEF Session!MintServed, TabInv
    <2>2. \A g \in 0..Len(guests) : Live(g)' => Live(g)
      <3>1. guests \in Seq({"live", "over", "claimed"})
        BY <1>0 DEF SessionTypes
      <3>2. guests' = guests \/ guests' = Append(guests, "live")
        BY <1>7 DEF Session!MintServed
      <3>3. ASSUME NEW g \in 0..Len(guests), g # 0 PROVE guests'[g] = guests[g]
        BY ONLY <3>1, <3>2, <3>3
      <3> QED
        BY <3>3 DEF Live
    <2>3. TabInv'
      BY <1>0, <1>g, <2>1, <2>2 DEF TabInv, Live
    <2> QED
      BY <2>1, <2>2, <2>3, AllGood
  <1>8. ASSUME NEW yes \in BOOLEAN, Session!LoginServed(yes) PROVE GuestInv' /\ guest' = guest
    <2>1. UNCHANGED <<works, guest, req, mint>> /\ login.key = guest /\ login'.key = guest
      BY <1>0, <1>8, <1>g DEF Session!LoginServed, TabInv, Logins
    <2>2. \A g \in 0..Len(guests) : Live(g)' => Live(g)
      BY <1>0, <1>8 DEF Session!LoginServed, Live, SessionTypes, Session!Honoured
    <2>3. login'.st = "ok" => ~Live(guest)'
      BY <1>0, <1>8, <2>1 DEF Session!LoginServed, Live, SessionTypes, Session!Honoured, Logins
    <2>4. TabInv'
      BY <1>0, <1>g, <2>1, <2>2, <2>3 DEF TabInv
    <2> QED
      BY <2>1, <2>2, <2>4, AllGood
  <1>9. ASSUME NEW yes \in BOOLEAN, Session!LogoutServed(yes) PROVE GuestInv' /\ guest' = guest
    BY <1>9, <1>g, GuestSame DEF Session!LogoutServed, TabInv
  <1>10. CASE Session!EnsureSession
    BY <1>10, <1>g, <1>k, GuestSame DEF Session!EnsureSession, Session!Principal, TabInv
  <1>11. CASE Session!MintAnswer
    <2>1. UNCHANGED <<guests, works, login>> /\ guest = 0 /\ mint' = Session!NoFlight
      BY <1>11, <1>g DEF Session!MintAnswer, TabInv
    <2>2. login.st = "no"
      <3>1. mint' # mint
        <4>1. mint.st \in {"ok", "failed"}
          BY <1>11 DEF Session!MintAnswer
        <4>2. mint'.st = "no"
          BY <2>1 DEF Session!NoFlight
        <4> QED
          BY <4>1, <4>2
      <3> QED
        BY <1>u, <3>1
    <2>3. TabInv'
      BY <1>0, <1>g, <2>1, <2>2 DEF TabInv, Live, Session!NoFlight
    <2>4. ASSUME NEW r \in Reqs
          PROVE  \/ req'[r] = req[r]
                 \/ req'[r] = Session!Idle
                 \/ /\ guest' # 0
                    /\ req'[r] = [req[r] EXCEPT !.st = "sent", !.access = 0, !.guest = guest',
                                                !.replay = "guest"]
      BY <1>11 DEF Session!MintAnswer
    <2>5. ASSUME NEW r \in Reqs PROVE Good(req[r])'
      <3>1. CASE req'[r] = req[r]
        BY <1>g, <2>1, <3>1 DEF Good, Live
      <3>2. CASE req'[r] = Session!Idle
        BY <3>2 DEF Good, Live, Session!Idle
      <3>3. CASE /\ guest' # 0
                 /\ req'[r] = [req[r] EXCEPT !.st = "sent", !.access = 0, !.guest = guest',
                                             !.replay = "guest"]
        BY <1>0, <1>g, <3>3 DEF Good, Asked
      <3> QED
        BY <2>4, <3>1, <3>2, <3>3
    <2> QED
      BY <2>1, <2>3, <2>5 DEF GuestInv, Good, TabInv, Session!GuestIsKept
  <1>12. CASE Session!RefreshAccess
    BY <1>12, <1>g, <1>k, GuestSame DEF Session!RefreshAccess, TabInv
  <1>13. CASE Session!RenewalServed
    BY <1>13, <1>g, <1>k, GuestSame DEF Session!RenewalServed, TabInv
  <1>14. CASE Session!RenewalLost
    BY <1>14, <1>g, <1>k, GuestSame DEF Session!RenewalLost, TabInv
  <1>15. CASE Session!RenewalAnswer
    <2>1. UNCHANGED <<guests, works, guest, mint, login>>
      BY <1>15 DEF Session!RenewalAnswer
    <2>2. renewal.st = "ok" => renewal.got # 0
      BY <1>0 DEF TokenInv
    <2>3. ASSUME NEW r \in Reqs
          PROVE  \/ req'[r] = req[r]
                 \/ req'[r] = Session!Idle
                 \/ /\ renewal.got # 0
                    /\ req'[r] = [req[r] EXCEPT !.st = "sent", !.access = renewal.got,
                                                !.replay = "renewed"]
      BY <1>15, <2>2 DEF Session!RenewalAnswer
    <2>4. ASSUME NEW r \in Reqs PROVE Good(req[r])'
      <3>1. CASE req'[r] = req[r]
        BY <1>g, <2>1, <3>1 DEF Good, Live
      <3>2. CASE req'[r] = Session!Idle
        BY <3>2 DEF Good, Live, Session!Idle
      <3>3. CASE /\ renewal.got # 0
                 /\ req'[r] = [req[r] EXCEPT !.st = "sent", !.access = renewal.got,
                                             !.replay = "renewed"]
        BY <1>0, <1>g, <2>1, <3>3 DEF Good, Asked, Live
      <3> QED
        BY <2>3, <3>1, <3>2, <3>3
    <2> QED
      <3>1. TabInv'
        BY <1>g, <2>1 DEF TabInv, Live
      <3> QED
        BY <1>k, <2>1, <2>4, <3>1 DEF GuestInv, Good, TabInv
  <1>16. CASE Session!Login
    BY <1>16, <1>g, <1>k, GuestSame DEF Session!Login, Session!Asking, TabInv
  <1>17. CASE Session!LoginAnswer
    <2>1. UNCHANGED <<guests, works, req, mint>> /\ login'.st = "no"
      BY <1>17 DEF Session!LoginAnswer, Session!NoFlight
    <2>2. guest' # guest => guest' = 0 /\ ~Live(guest)
      BY <1>17, <1>g DEF Session!LoginAnswer, Session!OnClaimed, TabInv
    <2>3. TabInv'
      BY <1>g, <2>1, <2>2 DEF TabInv, Live
    <2>4. \A r \in Reqs : Good(req[r])'
      BY <1>g, <2>1, <2>2 DEF Good, Live
    <2> QED
      BY <2>2, <2>3, <2>4 DEF GuestInv, Good, TabInv, Session!GuestIsKept, Live
  <1>18. CASE Session!Logout
    BY <1>18, <1>g, <1>k, GuestSame DEF Session!Logout, TabInv
  <1>19. CASE Session!DismissNotice
    BY <1>19, <1>g, <1>k, GuestSame DEF Session!DismissNotice, TabInv
  <1>20. CASE Session!AccessExpires
    BY <1>20, <1>g, <1>k, GuestSame DEF Session!AccessExpires, TabInv
  <1>21. ASSUME NEW g \in 1..Len(guests), Session!GuestExpires(g)
         PROVE  GuestInv' /\ guest' = guest
    <2>1. UNCHANGED <<works, guest, req, mint, login>>
      BY <1>21 DEF Session!GuestExpires
    <2>2. \A h \in 0..Len(guests) : Live(h)' => Live(h)
      BY <1>0, <1>21 DEF Session!GuestExpires, Live, SessionTypes
    <2>3. TabInv'
      BY <1>0, <1>g, <2>1, <2>2 DEF TabInv
    <2> QED
      BY <2>1, <2>2, <2>3, AllGood
  <1>22. GuestInv' /\ (guest' = guest \/ Session!GuestIsKept)
    <2> HIDE DEF Session!server
    <2> QED
      BY <1>1, <1>2, <1>3, <1>4, <1>5, <1>6, <1>7, <1>8, <1>9, <1>10, <1>11, <1>12, <1>13,
         <1>14, <1>15, <1>16, <1>17, <1>18, <1>19, <1>20, <1>21
         DEF SessionMoves, Session!Next
  <1> QED
    BY <1>22, <1>k

\* The pair is there or gone, and whoever waits for a renewal still does.
Waits == \E r \in Reqs : req[r].st = "renewing"
LEMMA TokenSame ==
  ASSUME SessionTypes, TokenInv, UNCHANGED <<usable, renewal, login, goodbye>>,
         jwt' \in {jwt, 0}, Waits => Waits'
  PROVE  TokenInv' /\ Session!SpentOnce
  BY DEF TokenInv, SessionTypes, Waits, Session!SpentOnce

LEMMA TokenStep ==
  ASSUME SessionTypes, TokenInv, SessionMoves, GuestInv
  PROVE  TokenInv' /\ Session!SpentOnce
  <1> USE DEF Session!server
  <1>0. /\ issued \in Nat /\ Len(guests) \in Nat
        /\ req \in [Reqs -> Asked] /\ \A r \in Reqs : req[r] \in Asked
        /\ mint \in Mints /\ renewal \in Renewals /\ login \in Logins
        /\ jwt \in 0..issued /\ usable \subseteq 1..issued /\ goodbye \in 0..issued
    BY SessionBounds DEF SessionTypes, Mints, Renewals, Logins
  <1>t. Session!InTurn
    BY DEF SessionMoves
  <1>w. ASSUME NEW r \in Reqs, req[r].st # "renewing", NEW q, req' = [req EXCEPT ![r] = q]
        PROVE  Waits => Waits'
    BY <1>0, <1>w DEF Waits
  <1>f. /\ renewal.st \in {"no", "sent", "ok", "failed"}
        /\ renewal.key \in 0..issued /\ renewal.got \in 0..issued
        /\ login.got \in 0..issued
    BY <1>0 DEF Renewals, Logins, Legs
  <1>1. ASSUME NEW r \in Reqs, NEW yes \in BOOLEAN, Session!Send(r, yes)
        PROVE  TokenInv' /\ Session!SpentOnce
    BY <1>1, <1>w, TokenSame DEF Session!Send
  <1>2. ASSUME NEW r \in Reqs, NEW yes \in BOOLEAN, Session!Serve(r, yes)
        PROVE  TokenInv' /\ Session!SpentOnce
    <2>1. req[r].st = "sent"
      BY <1>2 DEF Session!Serve
    <2>2. \E q : req' = [req EXCEPT ![r] = q]
      <3>1. CASE req[r].access # 0
        BY <1>2, <3>1 DEF Session!Serve
      <3>2. CASE req[r].access = 0 /\ req[r].guest # 0
        BY <1>2, <3>2 DEF Session!Serve
      <3>3. CASE req[r].access = 0 /\ req[r].guest = 0
        BY <2>1, <3>3 DEF GuestInv
      <3> QED
        BY <3>1, <3>2, <3>3
    <2> QED
      BY <1>2, <1>w, <2>1, <2>2, TokenSame DEF Session!Serve
  <1>3. ASSUME NEW r \in Reqs, Session!Succeeds(r) PROVE TokenInv' /\ Session!SpentOnce
    BY <1>3, <1>w, TokenSame DEF Session!Succeeds
  <1>4. ASSUME NEW r \in Reqs, Session!Fails(r) PROVE TokenInv' /\ Session!SpentOnce
    BY <1>4, <1>w, TokenSame DEF Session!Fails
  <1>5. ASSUME NEW r \in Reqs, Session!Recover(r) PROVE TokenInv' /\ Session!SpentOnce
    <2>1. req[r].st = "gone" /\ req[r].replay \in {"no", "guest"}
      BY <1>0, <1>5 DEF Session!Recover, GuestInv, Asked
    <2>2. \E q : req' = [req EXCEPT ![r] = q]
      BY <1>5, <2>1 DEF Session!Recover
    <2> QED
      BY <1>5, <1>w, <2>1, <2>2, TokenSame DEF Session!Recover
  <1>6. ASSUME NEW r \in Reqs, Session!Renew(r) PROVE TokenInv' /\ Session!SpentOnce
    <2>1. UNCHANGED <<usable, jwt, login, goodbye>> /\ req[r].st = "refused"
      BY <1>6 DEF Session!Renew
    <2>2. CASE jwt # 0 /\ renewal.st = "no"
      <3>1. renewal' = [st |-> "sent", key |-> jwt, got |-> 0] /\ jwt \in usable
        BY <1>6, <2>2 DEF Session!Renew, Session!Asking, TokenInv
      <3> QED
        BY <1>0, <2>1, <2>2, <3>1 DEF TokenInv, Session!SpentOnce
    <2>3. CASE ~(jwt # 0 /\ renewal.st = "no")
      <3>1. renewal' = renewal /\ \E q : req' = [req EXCEPT ![r] = q]
        BY <1>6, <2>3 DEF Session!Renew
      <3> QED
        BY <1>w, <2>1, <3>1, TokenSame
    <2> QED
      BY <2>2, <2>3
  <1>7. ASSUME NEW yes \in BOOLEAN, Session!MintServed(yes) PROVE TokenInv' /\ Session!SpentOnce
    BY <1>7, TokenSame DEF Session!MintServed, Waits
  <1>8. ASSUME NEW yes \in BOOLEAN, Session!LoginServed(yes)
        PROVE  TokenInv' /\ Session!SpentOnce
    <2>1. UNCHANGED <<jwt, renewal, req, goodbye>> /\ login.st = "sent"
      BY <1>8 DEF Session!LoginServed
    <2>2. CASE yes /\ issued < MaxToken
      <3>1. usable' = usable \cup {issued + 1} /\ login'.st = "ok" /\ login'.got = issued + 1
        BY <1>0, <1>8, <2>2 DEF Session!LoginServed, Logins
      <3>2. /\ issued + 1 \notin 0..issued /\ login'.got \in usable'
            /\ login'.got \notin {jwt', renewal'.key, renewal'.got}
        BY <1>0, <1>f, <2>1, <3>1
      <3>3. goodbye = 0
        BY <2>1 DEF TokenInv
      <3> QED
        BY <2>1, <3>1, <3>2, <3>3 DEF TokenInv, Session!SpentOnce
    <2>3. CASE ~(yes /\ issued < MaxToken)
      <3>1. usable' = usable /\ login'.st = "failed"
        BY <1>0, <1>8, <2>3 DEF Session!LoginServed, Logins
      <3> QED
        BY <2>1, <3>1 DEF TokenInv, Session!SpentOnce
    <2> QED
      BY <2>2, <2>3
  <1>9. ASSUME NEW yes \in BOOLEAN, Session!LogoutServed(yes)
        PROVE  TokenInv' /\ Session!SpentOnce
    BY <1>0, <1>9 DEF Session!LogoutServed, TokenInv, Session!SpentOnce
  <1>10. CASE Session!EnsureSession
    BY <1>10, TokenSame DEF Session!EnsureSession, Waits
  <1>11. CASE Session!MintAnswer
    <2>1. Waits => Waits'
      <3>1. ASSUME NEW r \in Reqs, req[r].st = "renewing" PROVE req'[r] = req[r]
        BY <1>11, <3>1 DEF Session!MintAnswer, Session!Waiting
      <3> QED
        BY <3>1 DEF Waits
    <2> QED
      BY <1>11, <2>1, TokenSame DEF Session!MintAnswer
  <1>12. CASE Session!RefreshAccess
    <2>1. renewal' = [st |-> "sent", key |-> jwt, got |-> 0] /\ jwt \in usable
      BY <1>12 DEF Session!RefreshAccess, Session!Asking, TokenInv
    <2> QED
      BY <1>0, <1>12, <2>1 DEF Session!RefreshAccess, TokenInv, Session!SpentOnce
  <1>13. CASE Session!RenewalServed
    <2>1. UNCHANGED <<jwt, req, login, goodbye>> /\ renewal.st = "sent" /\ renewal.key \in usable
      BY <1>13 DEF Session!RenewalServed, TokenInv
    <2>2. CASE issued < MaxToken
      <3>1. /\ usable' = (usable \ {renewal.key}) \cup {issued + 1}
            /\ renewal'.st = "ok" /\ renewal'.got = issued + 1 /\ renewal'.key = renewal.key
        BY <1>0, <1>13, <2>1, <2>2 DEF Session!RenewalServed, Renewals
      <3>2. login.got # issued + 1
        BY <1>0, <1>f
      <3> QED
        BY <2>1, <3>1, <3>2 DEF TokenInv, Session!SpentOnce
    <2>3. CASE ~(issued < MaxToken)
      <3>1. /\ usable' = usable /\ renewal'.st = "failed"
            /\ renewal'.got = renewal.got /\ renewal'.key = renewal.key
        BY <1>0, <1>13, <2>1, <2>3 DEF Session!RenewalServed, Renewals
      <3> QED
        BY <2>1, <3>1 DEF TokenInv, Session!SpentOnce
    <2> QED
      BY <2>2, <2>3
  <1>14. CASE Session!RenewalLost
    <2>1. /\ renewal'.st = "failed" /\ renewal'.key = renewal.key /\ renewal'.got = renewal.got
          /\ UNCHANGED <<usable, jwt, req, login, goodbye>> /\ renewal.st \in {"sent", "ok"}
      BY <1>0, <1>14 DEF Session!RenewalLost, Renewals
    <2>2. renewal.st = "ok" => Waits
      BY <1>t, <2>1 DEF Session!InTurn, Session!Waiting, Waits
    <2> QED
      BY <2>1, <2>2 DEF TokenInv, Session!SpentOnce, Waits
  <1>15. CASE Session!RenewalAnswer
    <2>1. /\ UNCHANGED <<usable, login, goodbye>>
          /\ renewal'.st = "no" /\ renewal.st \in {"ok", "failed"}
      BY <1>15 DEF Session!RenewalAnswer, Session!NoFlight
    <2>2. CASE renewal.st = "ok"
      <3>1. jwt' = renewal.got
        BY <1>15, <2>2 DEF Session!RenewalAnswer
      <3> QED
        BY <2>1, <2>2, <3>1 DEF TokenInv, Session!SpentOnce
    <2>3. CASE renewal.st = "failed" /\ Waits
      <3>1. jwt' = 0
        BY <1>15, <2>3 DEF Session!RenewalAnswer, Session!Waiting, Waits
      <3> QED
        BY <1>0, <2>1, <2>3, <3>1 DEF TokenInv, Session!SpentOnce
    <2>4. CASE renewal.st = "failed" /\ ~Waits
      <3>1. jwt' = jwt
        BY <1>15, <2>4 DEF Session!RenewalAnswer, Session!Waiting, Waits
      <3> QED
        BY <2>1, <2>4, <3>1 DEF TokenInv, Session!SpentOnce, Waits
    <2> QED
      BY <2>1, <2>2, <2>3, <2>4
  <1>16. CASE Session!Login
    <2>1. login'.st = "sent" /\ UNCHANGED <<usable, jwt, req, renewal, goodbye>>
      BY <1>16 DEF Session!Login, Session!Asking
    <2>2. goodbye = 0
      BY <1>t, <1>16, <2>1 DEF Session!Login, Session!InTurn, Session!Quiet
    <2> QED
      BY <2>1, <2>2 DEF TokenInv, Session!SpentOnce
  <1>17. CASE Session!LoginAnswer
    <2>1. login'.st = "no" /\ UNCHANGED <<usable, req, renewal, goodbye>>
      BY <1>17 DEF Session!LoginAnswer, Session!NoFlight
    <2>2. jwt' = IF login.st = "ok" THEN login.got ELSE jwt
      BY <1>17 DEF Session!LoginAnswer
    <2>3. login.st # "no"
      BY <1>17 DEF Session!LoginAnswer
    <2> QED
      BY <2>1, <2>2, <2>3 DEF TokenInv, Session!SpentOnce
  <1>18. CASE Session!Logout
    <2>1. jwt' = 0 /\ UNCHANGED <<usable, req, renewal, login>> /\ goodbye = 0 /\ goodbye' # 0
      BY <1>18 DEF Session!Logout, Session!ClearSession
    <2>2. renewal.st = "no" /\ login.st = "no"
      BY <1>t, <2>1 DEF Session!InTurn, Session!Quiet
    <2> QED
      BY <2>1, <2>2 DEF TokenInv, Session!SpentOnce
  <1>19. CASE Session!DismissNotice
    BY <1>19, TokenSame DEF Session!DismissNotice, Waits
  <1>20. CASE Session!AccessExpires
    BY <1>20, TokenSame DEF Session!AccessExpires, Waits
  <1>21. ASSUME NEW g \in 1..Len(guests), Session!GuestExpires(g)
         PROVE  TokenInv' /\ Session!SpentOnce
    BY <1>21, TokenSame DEF Session!GuestExpires, Waits
  <1> HIDE DEF Session!server
  <1> QED
    BY <1>1, <1>2, <1>3, <1>4, <1>5, <1>6, <1>7, <1>8, <1>9, <1>10, <1>11, <1>12, <1>13,
       <1>14, <1>15, <1>16, <1>17, <1>18, <1>19, <1>20, <1>21
       DEF SessionMoves, Session!Next

LEMMA SessionStep ==
  ASSUME SessionInv, SessionMoves
  PROVE  SessionInv' /\ Session!GuestIsKept /\ Session!SpentOnce
  BY SessionTypesStep, GuestStep, TokenStep DEF SessionInv, SessionMoves

LEMMA SessionReaches == ASSUME SessionInv PROVE Session!WorkIsInReach
  BY DEF SessionInv, SessionTypes, GuestInv, Session!WorkIsInReach, Live

LEMMA SessionStays ==
  SessionInv /\ UNCHANGED sessionVars =>
     SessionInv' /\ Session!GuestIsKept /\ Session!SpentOnce
  <1> SUFFICES ASSUME SessionInv, UNCHANGED sessionVars
               PROVE  SessionInv' /\ Session!GuestIsKept /\ Session!SpentOnce
    OBVIOUS
  <1>1. SessionTypes'
    BY DEF sessionVars, SessionInv, SessionTypes, Asked
  <1>2. GuestInv' /\ TokenInv'
    BY DEF sessionVars, SessionInv, GuestInv, TokenInv, Live
  <1>3. Session!GuestIsKept /\ Session!SpentOnce
    BY DEF sessionVars, Session!GuestIsKept, Session!SpentOnce
  <1> QED
    BY <1>1, <1>2, <1>3 DEF SessionInv

-----------------------------------------------------------------------------
(* The library.                                                            *)

Ahead(s, y, x) == \E i, j \in DOMAIN s : i <= j /\ s[i] = y /\ s[j] = x

\* A filter keeps the order, and what is put in front is ahead of all.
LEMMA FilteredKeeps ==
  ASSUME NEW E, NEW s \in Seq(E), IsInjective(s), NEW T
  PROVE  LET left == Filtered(s, T)
         IN  /\ left \in Seq(E) /\ IsInjective(left) /\ ToSet(left) = ToSet(s) \cap T
             /\ \A x, y \in T : Ahead(left, y, x) <=> Ahead(s, y, x)
  <1> DEFINE left == Filtered(s, T)
  <1>0. s \in Seq(E)
    OBVIOUS
  <1>1. left \in Seq(E) /\ Len(left) \in Nat
    BY ONLY <1>0, FilteredIs
  <1>2. PICK to \in [1..Len(left) -> DOMAIN s] :
              /\ \A k \in 1..Len(left) : left[k] = s[to[k]] /\ left[k] \in T
              /\ \A k, l \in 1..Len(left) : k < l => to[k] < to[l]
              /\ \A i \in DOMAIN s : s[i] \in T => \E k \in 1..Len(left) : to[k] = i
    BY ONLY <1>0, FilteredIs
  <1> HIDE DEF left
  <1>3. /\ DOMAIN left = 1..Len(left) /\ DOMAIN s = 1..Len(s) /\ Len(s) \in Nat
        /\ \A k \in 1..Len(left) : to[k] \in 1..Len(s)
    BY <1>1
  <1>4. \A k, l \in 1..Len(left) : to[k] = to[l] => k = l
    <2> SUFFICES ASSUME NEW k \in 1..Len(left), NEW l \in 1..Len(left), k # l PROVE to[k] # to[l]
      OBVIOUS
    <2>1. k < l \/ l < k
      BY <1>1
    <2> QED
      BY <1>2, <1>3, <2>1
  <1>5. IsInjective(left)
    BY <1>2, <1>3, <1>4 DEF IsInjective
  <1>6. ToSet(left) = ToSet(s) \cap T
    BY <1>2, <1>3 DEF ToSet
  <1>7. ASSUME NEW x \in T, NEW y \in T PROVE Ahead(left, y, x) <=> Ahead(s, y, x)
    <2>1. ASSUME Ahead(left, y, x) PROVE Ahead(s, y, x)
      <3>1. PICK i \in 1..Len(left), j \in 1..Len(left) : i <= j /\ left[i] = y /\ left[j] = x
        BY <1>3, <2>1 DEF Ahead
      <3>2. to[i] <= to[j]
        BY <1>2, <1>3, <3>1
      <3> QED
        BY <1>2, <1>3, <3>1, <3>2 DEF Ahead
    <2>2. ASSUME Ahead(s, y, x) PROVE Ahead(left, y, x)
      <3>1. PICK i \in DOMAIN s, j \in DOMAIN s : i <= j /\ s[i] = y /\ s[j] = x
        BY <2>2 DEF Ahead
      <3>2. PICK k \in 1..Len(left) : to[k] = i
        BY <1>2, <3>1
      <3>3. PICK l \in 1..Len(left) : to[l] = j
        BY <1>2, <3>1
      <3>4. k <= l
        BY <1>2, <1>3, <3>1, <3>2, <3>3
      <3> QED
        BY <1>2, <1>3, <3>1, <3>2, <3>3, <3>4 DEF Ahead
    <2> QED
      BY <2>1, <2>2
  <1> QED
    BY <1>1, <1>5, <1>6, <1>7 DEF left

LEMMA InFrontIs ==
  ASSUME NEW E, NEW s \in Seq(E), IsInjective(s), NEW d \in E, d \notin ToSet(s)
  PROVE  LET t == <<d>> \o s
         IN  /\ t \in Seq(E) /\ IsInjective(t) /\ ToSet(t) = ToSet(s) \cup {d}
             /\ \A x, y : x # d /\ y # d => (Ahead(t, y, x) <=> Ahead(s, y, x))
             /\ \A x \in ToSet(t) : Ahead(t, d, x)
  <1> DEFINE t == <<d>> \o s
  <1>1. /\ t \in Seq(E) /\ Len(t) = Len(s) + 1 /\ t[1] = d
        /\ \A j \in 1..Len(s) : t[j + 1] = s[j]
    <2>1. <<d>> \in Seq(E) /\ Len(<<d>>) = 1 /\ <<d>>[1] = d
      OBVIOUS
    <2>2. /\ t \in Seq(E) /\ Len(t) = 1 + Len(s) /\ \A j \in 1..1 : t[j] = <<d>>[j]
          /\ \A j \in 1..Len(s) : t[1 + j] = s[j]
      BY <2>1, ConcatIs
    <2> HIDE DEF t
    <2>3. Len(s) \in Nat /\ \A j \in 1..Len(s) : 1 + j = j + 1
      OBVIOUS
    <2> QED
      BY <2>1, <2>2, <2>3
  <1> HIDE DEF t
  <1>2. /\ DOMAIN s = 1..Len(s) /\ DOMAIN t = 1..(Len(s) + 1) /\ Len(s) \in Nat
        /\ \A i \in DOMAIN t : \/ i = 1
                               \/ i - 1 \in DOMAIN s /\ i = (i - 1) + 1
        /\ \A j \in DOMAIN s : j + 1 \in DOMAIN t /\ j + 1 > 1
    BY <1>1
  <1>3. \A i \in DOMAIN t : i # 1 => i - 1 \in DOMAIN s /\ t[i] = s[i - 1] /\ t[i] # d
    <2> SUFFICES ASSUME NEW i \in DOMAIN t, i # 1
                 PROVE  i - 1 \in DOMAIN s /\ t[i] = s[i - 1] /\ t[i] # d
      OBVIOUS
    <2>1. i - 1 \in 1..Len(s) /\ i = (i - 1) + 1
      BY <1>2
    <2>2. t[i] = s[i - 1]
      BY <1>1, <2>1
    <2> QED
      BY <1>2, <2>1, <2>2 DEF ToSet
  <1>4. IsInjective(t)
    BY <1>1, <1>2, <1>3 DEF IsInjective
  <1>5. ToSet(t) = ToSet(s) \cup {d}
    <2>1. \A j \in DOMAIN s : t[j + 1] = s[j] /\ j + 1 \in DOMAIN t
      BY <1>1, <1>2
    <2>2. 1 \in DOMAIN t
      BY <1>2
    <2>3. ASSUME NEW x \in ToSet(t) PROVE x \in ToSet(s) \cup {d}
      <3>1. PICK i \in DOMAIN t : t[i] = x
        BY DEF ToSet
      <3>2. CASE i = 1
        BY <1>1, <3>1, <3>2
      <3>3. CASE i # 1
        BY <1>3, <3>1, <3>3 DEF ToSet
      <3> QED
        BY <3>2, <3>3
    <2>4. ASSUME NEW x \in ToSet(s) \cup {d} PROVE x \in ToSet(t)
      <3>1. x = d => x = t[1]
        BY <1>1
      <3>2. CASE x = d
        BY <2>2, <3>1, <3>2 DEF ToSet
      <3>3. CASE x # d
        <4>1. PICK j \in DOMAIN s : s[j] = x
          BY <3>3 DEF ToSet
        <4> QED
          BY <2>1, <4>1 DEF ToSet
      <3> QED
        BY <3>2, <3>3
    <2> QED
      BY <2>3, <2>4
  <1>6. ASSUME NEW x, NEW y, x # d, y # d PROVE Ahead(t, y, x) <=> Ahead(s, y, x)
    <2>1. ASSUME Ahead(t, y, x) PROVE Ahead(s, y, x)
      <3>1. PICK i \in DOMAIN t, j \in DOMAIN t : i <= j /\ t[i] = y /\ t[j] = x
        BY <2>1 DEF Ahead
      <3>2. i # 1 /\ j # 1
        BY <1>1, <1>6, <3>1
      <3>3. /\ i - 1 \in DOMAIN s /\ j - 1 \in DOMAIN s /\ i - 1 <= j - 1
            /\ s[i - 1] = y /\ s[j - 1] = x
        BY <1>2, <1>3, <3>1, <3>2
      <3> QED
        BY <3>3 DEF Ahead
    <2>2. ASSUME Ahead(s, y, x) PROVE Ahead(t, y, x)
      <3>1. PICK i \in DOMAIN s, j \in DOMAIN s : i <= j /\ s[i] = y /\ s[j] = x
        BY <2>2 DEF Ahead
      <3>2. /\ i + 1 \in DOMAIN t /\ j + 1 \in DOMAIN t /\ i + 1 <= j + 1
            /\ t[i + 1] = y /\ t[j + 1] = x
        BY <1>1, <1>2, <3>1
      <3> QED
        BY <3>2 DEF Ahead
    <2> QED
      BY <2>1, <2>2
  <1>7. ASSUME NEW x \in ToSet(t) PROVE Ahead(t, d, x)
    <2>1. PICK j \in DOMAIN t : t[j] = x
      BY DEF ToSet
    <2>2. 1 \in DOMAIN t /\ 1 <= j
      BY <1>2
    <2> QED
      BY <1>1, <2>1, <2>2 DEF Ahead
  <1> QED
    BY <1>1, <1>4, <1>5, <1>6, <1>7 DEF t

\* Two lists with nothing in common, one after the other.
LEMMA JoinedIs ==
  ASSUME NEW E, NEW a \in Seq(E), NEW b \in Seq(E), IsInjective(a), IsInjective(b),
         ToSet(a) \cap ToSet(b) = {}
  PROVE  a \o b \in Seq(E) /\ IsInjective(a \o b) /\ ToSet(a \o b) = ToSet(a) \cup ToSet(b)
  <1> DEFINE t == a \o b
  <1>1. /\ t \in Seq(E) /\ Len(t) = Len(a) + Len(b)
        /\ \A j \in 1..Len(a) : t[j] = a[j]
        /\ \A j \in 1..Len(b) : t[Len(a) + j] = b[j]
    BY ConcatIs
  <1> HIDE DEF t
  <1>2. /\ DOMAIN a = 1..Len(a) /\ DOMAIN b = 1..Len(b) /\ DOMAIN t = 1..(Len(a) + Len(b))
        /\ Len(a) \in Nat /\ Len(b) \in Nat
    BY <1>1
  <1>3. /\ \A j \in DOMAIN a : j \in DOMAIN t /\ t[j] = a[j]
        /\ \A j \in DOMAIN b : Len(a) + j \in DOMAIN t /\ t[Len(a) + j] = b[j]
    BY <1>1, <1>2
  <1>4. \A i \in DOMAIN t : \/ i \in DOMAIN a /\ t[i] = a[i]
                            \/ i - Len(a) \in DOMAIN b /\ t[i] = b[i - Len(a)]
    <2> SUFFICES ASSUME NEW i \in DOMAIN t, i \notin DOMAIN a
                 PROVE  i - Len(a) \in DOMAIN b /\ t[i] = b[i - Len(a)]
      BY <1>3
    <2>1. i - Len(a) \in 1..Len(b) /\ Len(a) + (i - Len(a)) = i
      BY <1>2
    <2> QED
      BY <1>2, <1>3, <2>1
  <1>5. ToSet(t) = ToSet(a) \cup ToSet(b)
    BY <1>3, <1>4 DEF ToSet
  <1>6. ASSUME NEW i \in DOMAIN t, NEW j \in DOMAIN t, t[i] = t[j] PROVE i = j
    <2>1. CASE i \in DOMAIN a /\ j \in DOMAIN a
      BY <1>3, <1>6, <2>1 DEF IsInjective
    <2>a. \A k \in DOMAIN a, l \in DOMAIN b : a[k] # b[l]
      BY DEF ToSet
    <2>2. CASE i \in DOMAIN a /\ j \notin DOMAIN a
      <3>1. t[i] = a[i] /\ j - Len(a) \in DOMAIN b /\ t[j] = b[j - Len(a)]
        BY <1>3, <1>4, <2>2
      <3> QED
        BY <1>6, <2>2, <2>a, <3>1
    <2>3. CASE i \notin DOMAIN a /\ j \in DOMAIN a
      <3>1. t[j] = a[j] /\ i - Len(a) \in DOMAIN b /\ t[i] = b[i - Len(a)]
        BY <1>3, <1>4, <2>3
      <3> QED
        BY <1>6, <2>3, <2>a, <3>1
    <2>4. CASE i \notin DOMAIN a /\ j \notin DOMAIN a
      <3>1. i - Len(a) = j - Len(a)
        BY <1>4, <1>6, <2>4 DEF IsInjective
      <3> QED
        BY <1>2, <3>1
    <2> QED
      BY <2>1, <2>2, <2>3, <2>4
  <1>7. IsInjective(t)
    BY <1>6 DEF IsInjective
  <1> QED
    BY <1>1, <1>5, <1>7 DEF t

\* The k-th of a list has k ahead of it, itself among them.
Upto(s, x) == {y \in ToSet(s) : Ahead(s, y, x)}

LEMMA UptoIs ==
  ASSUME NEW E, NEW s \in Seq(E), IsInjective(s)
  PROVE  /\ Len(s) \in Nat
         /\ \A k \in 1..Len(s) : /\ s[k] \in ToSet(s) /\ IsFiniteSet(Upto(s, s[k]))
                                 /\ Cardinality(Upto(s, s[k])) = k
         /\ \A x \in ToSet(s) : \E k \in 1..Len(s) : s[k] = x
  <1>1. Len(s) \in Nat /\ DOMAIN s = 1..Len(s)
    OBVIOUS
  <1>2. ASSUME NEW k \in 1..Len(s)
        PROVE  IsFiniteSet(Upto(s, s[k])) /\ Cardinality(Upto(s, s[k])) = k
    <2> DEFINE U == Upto(s, s[k])
               f == [i \in 1..k |-> s[i]]
    <2>0. k \in Nat /\ \A i \in 1..k : i \in DOMAIN s /\ i <= k
      BY <1>1
    <2>1. \A i \in 1..k : s[i] \in U
      <3> SUFFICES ASSUME NEW i \in 1..k PROVE s[i] \in U
        OBVIOUS
      <3>1. i \in DOMAIN s /\ k \in DOMAIN s /\ i <= k
        BY <1>1, <2>0
      <3> QED
        BY <3>1 DEF Upto, Ahead, ToSet
    <2>2. \A y \in U : \E i \in 1..k : s[i] = y
      <3> SUFFICES ASSUME NEW y \in U PROVE \E i \in 1..k : s[i] = y
        OBVIOUS
      <3>1. PICK i \in DOMAIN s, j \in DOMAIN s : i <= j /\ s[i] = y /\ s[j] = s[k]
        BY DEF Upto, Ahead
      <3>2. j = k
        BY <1>1, <3>1 DEF IsInjective
      <3>3. i \in 1..k
        BY <1>1, <3>1, <3>2
      <3> QED
        BY <3>1, <3>3
    <2>3. \A i, j \in 1..k : s[i] = s[j] => i = j
      BY <2>0 DEF IsInjective
    <2> HIDE DEF U
    <2>4. f \in Bijection(1..k, U)
      <3>1. f \in [1..k -> U]
        BY <2>1
      <3>2. f \in Injection(1..k, U)
        BY <2>3, <3>1 DEF Injection, IsInjective
      <3>3. f \in Surjection(1..k, U)
        BY <2>2, <3>1 DEF Surjection
      <3> QED
        BY <3>2, <3>3 DEF Bijection
    <2>5. IsFiniteSet(1..k) /\ Cardinality(1..k) = k
      BY <2>0, FS_Interval
    <2>6. ExistsBijection(1..k, U)
      BY <2>4 DEF ExistsBijection
    <2>7. IsFiniteSet(U) /\ Cardinality(U) = k
      BY ONLY <2>5, <2>6, FS_Bijection
    <2> QED
      BY <2>7 DEF U
  <1> QED
    BY <1>1, <1>2 DEF ToSet

\* A window of a list is what lies between its ends.
Window(s, from, to) == SubSeq(s, from + 1, IF to < Len(s) THEN to ELSE Len(s))

LEMMA WindowIs ==
  ASSUME NEW E, NEW s \in Seq(E), IsInjective(s), NEW from \in Nat, NEW to \in Nat, from <= to
  PROVE  LET w == Window(s, from, to)
         IN  /\ w \in Seq(E) /\ IsInjective(w)
             /\ ToSet(w) = {x \in ToSet(s) : /\ from < Cardinality(Upto(s, x))
                                             /\ Cardinality(Upto(s, x)) <= to}
             /\ to < Len(s) => Len(w) = to - from
             /\ Len(s) <= to /\ from <= Len(s) => Len(w) = Len(s) - from
             /\ Len(w) \in Nat
  <1>0. PICK end : end = IF to < Len(s) THEN to ELSE Len(s)
    OBVIOUS
  <1> DEFINE w == SubSeq(s, from + 1, end)
  <1>1. Len(s) \in Nat /\ DOMAIN s = 1..Len(s) /\ end \in Nat /\ end <= Len(s)
    BY <1>0
  <1>2. \A k \in 1..Len(s) : k <= end <=> k <= to
    BY <1>0
  <1>3. /\ w \in Seq(E) /\ Len(w) = IF from + 1 <= end THEN end - from ELSE 0
        /\ \A k \in 1..Len(w) : w[k] = s[from + k]
    <2>1. CASE from + 1 <= end
      <3>1. \A k \in (from + 1)..end : s[k] \in E
        BY <1>1
      <3>2. w = [k \in 1..(end - from) |-> s[from + k]]
        BY <1>1, <2>1
      <3>3. \A k \in 1..(end - from) : from + k \in (from + 1)..end
        BY <1>1, <2>1
      <3>4. end - from \in Nat
        BY <1>1, <2>1
      <3> HIDE DEF w
      <3>5. w \in [1..(end - from) -> E]
        BY <3>1, <3>2, <3>3
      <3>6. w \in Seq(E) /\ Len(w) = end - from
        BY <3>4, <3>5
      <3> QED
        BY <2>1, <3>2, <3>6
    <2>2. CASE ~(from + 1 <= end)
      <3>1. w = <<>>
        BY <1>1, <2>2
      <3> HIDE DEF w
      <3> QED
        BY <2>2, <3>1
    <2> QED
      BY <2>1, <2>2
  <1> HIDE DEF w
  <1>4. DOMAIN w = 1..Len(w) /\ Len(w) \in Nat
    BY <1>3
  <1>5. \A k \in DOMAIN w : from + k \in 1..Len(s) /\ from < from + k /\ from + k <= end
    BY <1>1, <1>3, <1>4
  <1>6. \A k \in 1..Len(s) : from < k /\ k <= end => k - from \in DOMAIN w /\ from + (k - from) = k
    BY <1>1, <1>3, <1>4
  <1>7. IsInjective(w)
    <2> SUFFICES ASSUME NEW a \in DOMAIN w, NEW b \in DOMAIN w, w[a] = w[b] PROVE a = b
      BY DEF IsInjective
    <2>1. from + a = from + b
      BY <1>1, <1>3, <1>4, <1>5 DEF IsInjective
    <2> QED
      BY <1>4, <2>1
  <1>8. ToSet(w) = {x \in ToSet(s) : /\ from < Cardinality(Upto(s, x))
                                    /\ Cardinality(Upto(s, x)) <= to}
    <2>1. ASSUME NEW x \in ToSet(w)
          PROVE  x \in ToSet(s) /\ from < Cardinality(Upto(s, x)) /\ Cardinality(Upto(s, x)) <= to
      <3>1. PICK k \in DOMAIN w : w[k] = x
        BY DEF ToSet
      <3>2. from + k \in 1..Len(s) /\ x = s[from + k]
        BY <1>3, <1>4, <1>5, <3>1
      <3>3. x \in ToSet(s) /\ Cardinality(Upto(s, x)) = from + k
        BY <3>2, UptoIs
      <3> QED
        BY <1>2, <1>5, <3>1, <3>2, <3>3
    <2>2. ASSUME NEW x \in ToSet(s), from < Cardinality(Upto(s, x)), Cardinality(Upto(s, x)) <= to
          PROVE  x \in ToSet(w)
      <3>1. PICK k \in 1..Len(s) : s[k] = x
        BY UptoIs
      <3>2. Cardinality(Upto(s, x)) = k
        BY <3>1, UptoIs
      <3>3. k - from \in DOMAIN w /\ from + (k - from) = k
        BY <1>2, <1>6, <2>2, <3>2
      <3>4. w[k - from] = x
        BY <1>3, <1>4, <3>1, <3>3
      <3> QED
        BY <3>3, <3>4 DEF ToSet
    <2> QED
      BY <2>1, <2>2
  <1>9. to < Len(s) => Len(w) = to - from
    BY <1>0, <1>3
  <1>10. ASSUME Len(s) <= to, from <= Len(s) PROVE Len(w) = Len(s) - from
    <2>1. PICK n \in Nat : n = Len(s)
      BY <1>1
    <2>2. n <= to /\ from <= n /\ end = IF to < n THEN to ELSE n
      BY ONLY <1>0, <1>10, <2>1
    <2>3. end = n
      BY <2>2
    <2>4. Len(w) = n - from
      BY <1>3, <2>2, <2>3
    <2> QED
      BY <2>1, <2>4
  <1> QED
    BY <1>0, <1>3, <1>4, <1>7, <1>8, <1>9, <1>10 DEF w, Window


-----------------------------------------------------------------------------
(* What is consumed of the list is on screen: a document with no more ahead *)
(* of it than the offset.  While a change that takes its row off the screen *)
(* is out, the offset counts without that document.                         *)

Listing == Library!Listed(filter)
Down(x) == Upto(Listing, x)
Quiet   == \A d \in LibraryDocs : uploads[d] # "done"
Writing == {d \in LibraryDocs : writes[d] # Library!NoWrite}
Covers  == \A x \in ToSet(Listing) :
              (hasMore => Cardinality(Down(x)) <= libraryOffset) => x \in ToSet(shown)
CoversBut(d) ==
  \A x \in ToSet(Listing) \ {d} :
     (hasMore => Cardinality(Down(x) \ {d}) <= libraryOffset) => x \in ToSet(shown)
IsRead(w, from) ==
  /\ w.rows = Library!Rows(filter, from, from + WindowSize)
  /\ w.next = (from + WindowSize < Len(Listing))

LibraryTypes ==
  /\ order \in Seq(LibraryDocs) /\ binned \subseteq ToSet(order) /\ starred \subseteq ToSet(order)
  /\ writes \in [LibraryDocs -> [kind : Library!Kinds, st : {"asked", "done", "refused"}]
                                   \cup {Library!NoWrite}]
  /\ uploads \in [LibraryDocs -> {"no", "sent", "done"}]
  /\ filter \in Library!Filters /\ shown \in Seq(LibraryDocs) /\ libraryOffset \in Nat
  /\ hasMore \in BOOLEAN /\ loading \in BOOLEAN /\ stale \in BOOLEAN /\ answered \in BOOLEAN
  /\ load \in Library!Windows /\ more \in Library!Windows
  /\ IsInjective(order) /\ IsInjective(shown)
  /\ IsInjective(load.rows) /\ IsInjective(more.rows)
LibraryFlow ==
  /\ \A d \in LibraryDocs : uploads[d] = "sent" => d \notin ToSet(order)
  /\ loading = (load.st # "no") /\ load.at = 0 /\ (answered => ~loading)
  /\ loading => Writing = {}
  /\ \A d \in Writing :
        /\ writes[d].st \in {"asked", "done", "refused"} /\ Library!Offers(d, writes[d].kind)
        /\ Writing = {d}
        /\ more.st = "no" /\ \A e \in LibraryDocs : uploads[e] = "no"
  /\ more.fresh => more.st # "no" /\ ~loading /\ hasMore /\ more.at = libraryOffset
  /\ Quiet /\ load.st = "read" => IsRead(load, 0)
  /\ Quiet /\ more.st = "read" /\ more.fresh => IsRead(more, libraryOffset)
LibraryCovers ==
  answered /\ Quiet =>
     /\ Writing = {} => Covers
     /\ \A d \in Writing :
           /\ writes[d].st = "asked" /\ Library!Removes(writes[d].kind) => CoversBut(d)
           /\ writes[d].st = "asked" /\ ~Library!Removes(writes[d].kind) =>
                 Covers /\ d \in ToSet(shown)
           /\ writes[d].st = "done" /\ ~(filter = "starred" /\ writes[d].kind = "unstar") => Covers
LibraryInv == LibraryTypes /\ LibraryFlow /\ LibraryCovers
LibraryMoves == Library!Next /\ Library!OneAtATime

LEMMA LibraryConstants ==
  /\ WindowSize \in Nat \ {0} /\ IsFiniteSet(LibraryDocs)
  BY SiteAssumption DEF Library!Assumptions, Library!IsFiniteSet, IsFiniteSet

\* The module's own copies of the operators on lists.
LEMMA LibraryListsAre ==
  /\ \A s, T : Library!Filtered(s, T) = Filtered(s, T)
  /\ \A s : Library!ToSet(s) = ToSet(s)
  /\ Listing = Filtered(order, {d \in LibraryDocs : Library!Under(d, filter)})
  /\ \A s, d : Library!Without(s, d) = Filtered(s, LibraryDocs \ {d})
  <1>1. \A S : Library!Cardinality(S) = Cardinality(S)
    BY DEF Library!Cardinality, Cardinality, Library!IsFiniteSet, IsFiniteSet
  <1>2. \A S, k : Library!Nth(S, k) = Nth(S, k)
    BY <1>1 DEF Library!Nth, Nth
  <1>3. \A S : Library!InOrder(S) = InOrder(S)
    BY <1>1, <1>2 DEF Library!InOrder, InOrder
  <1>4. \A s, T : Library!Filtered(s, T) = Filtered(s, T)
    BY <1>3 DEF Library!Filtered, Filtered
  <1>5. \A s : Library!ToSet(s) = ToSet(s)
    BY DEF Library!ToSet, ToSet
  <1> QED
    BY <1>4, <1>5 DEF Listing, Library!Listed, Library!Without


\* The window that is read.
LEMMA ListingIs ==
  ASSUME LibraryTypes
  PROVE  /\ Listing \in Seq(LibraryDocs) /\ IsInjective(Listing) /\ Len(Listing) \in Nat
         /\ ToSet(Listing) = {x \in ToSet(order) : Library!Under(x, filter)}
         /\ \A x \in ToSet(Listing) :
               /\ IsFiniteSet(Down(x)) /\ x \in Down(x)
               /\ Cardinality(Down(x)) \in 1..Len(Listing)
         /\ \A x, y \in ToSet(Listing) : y \in Down(x) <=> Ahead(order, y, x)
  <1> DEFINE T == {d \in LibraryDocs : Library!Under(d, filter)}
  <1>1. order \in Seq(LibraryDocs) /\ IsInjective(order) /\ Listing = Filtered(order, T)
    BY LibraryListsAre DEF LibraryTypes
  <1>2. \A x \in ToSet(order) : x \in LibraryDocs
    BY <1>1 DEF ToSet
  <1>3. /\ Listing \in Seq(LibraryDocs) /\ IsInjective(Listing)
        /\ ToSet(Listing) = ToSet(order) \cap T
        /\ \A x, y \in T : Ahead(Listing, y, x) <=> Ahead(order, y, x)
    <2> HIDE DEF T, Listing
    <2> QED
      BY <1>1, FilteredKeeps
  <1>4. ToSet(Listing) = {x \in ToSet(order) : Library!Under(x, filter)}
    BY <1>2, <1>3
  <1>5. \A x, y \in ToSet(Listing) : y \in Down(x) <=> Ahead(order, y, x)
    BY <1>3 DEF Down, Upto
  <1> HIDE DEF Listing
  <1>6. /\ Len(Listing) \in Nat
        /\ \A k \in 1..Len(Listing) : /\ Listing[k] \in ToSet(Listing)
                                      /\ IsFiniteSet(Upto(Listing, Listing[k]))
                                      /\ Cardinality(Upto(Listing, Listing[k])) = k
        /\ \A x \in ToSet(Listing) : \E k \in 1..Len(Listing) : Listing[k] = x
    BY <1>3, UptoIs
  <1>7. ASSUME NEW x \in ToSet(Listing)
        PROVE  /\ IsFiniteSet(Down(x)) /\ x \in Down(x)
               /\ Cardinality(Down(x)) \in 1..Len(Listing)
    <2>1. PICK k \in 1..Len(Listing) : Listing[k] = x
      BY <1>6
    <2>2. IsFiniteSet(Down(x)) /\ Cardinality(Down(x)) = k
      BY <1>6, <2>1 DEF Down
    <2>3. x \in Down(x)
      BY <2>1 DEF Down, Upto, Ahead, ToSet
    <2> QED
      BY <2>2, <2>3
  <1> QED
    BY <1>3, <1>4, <1>5, <1>6, <1>7

LEMMA RowsAre ==
  ASSUME LibraryTypes, NEW from \in Nat, NEW to \in Nat, from <= to
  PROVE  /\ Library!Rows(filter, from, to) \in Seq(LibraryDocs)
         /\ IsInjective(Library!Rows(filter, from, to))
         /\ ToSet(Library!Rows(filter, from, to)) =
               {x \in ToSet(Listing) : /\ from < Cardinality(Down(x))
                                       /\ Cardinality(Down(x)) <= to}
         /\ Len(Library!Rows(filter, from, to)) \in Nat
         /\ to < Len(Listing) => Len(Library!Rows(filter, from, to)) = to - from
  <1>1. Listing \in Seq(LibraryDocs) /\ IsInjective(Listing)
    BY ListingIs
  <1> DEFINE w == Window(Listing, from, to)
  <1>2. Library!Rows(filter, from, to) = w
    BY DEF Library!Rows, Listing, Window
  <1> HIDE DEF Listing
  <1>3. /\ w \in Seq(LibraryDocs) /\ IsInjective(w) /\ Len(w) \in Nat
        /\ ToSet(w) = {x \in ToSet(Listing) : /\ from < Cardinality(Upto(Listing, x))
                                             /\ Cardinality(Upto(Listing, x)) <= to}
        /\ to < Len(Listing) => Len(w) = to - from
    BY <1>1, WindowIs
  <1> HIDE DEF w
  <1> QED
    BY <1>2, <1>3 DEF Down


\* A filter takes nothing more in, or leaves out, but for the document that changed.
LEMMA DownAfter ==
  ASSUME LibraryTypes, LibraryTypes', NEW d \in ToSet(order), filter' = filter,
         ToSet(order') \cup {d} = ToSet(order),
         \A x \in LibraryDocs \ {d} : Library!Under(x, filter)' <=> Library!Under(x, filter),
         \A x, y \in LibraryDocs \ {d} : Ahead(order', y, x) <=> Ahead(order, y, x)
  PROVE  /\ ToSet(Listing') \ {d} = ToSet(Listing) \ {d}
         /\ \A x \in ToSet(Listing) \ {d} : Down(x)' \ {d} = Down(x) \ {d}
  <1>1. ToSet(order) \subseteq LibraryDocs
    BY DEF LibraryTypes, ToSet
  <1>2. ToSet(Listing) = {x \in ToSet(order) : Library!Under(x, filter)}
    BY ListingIs
  <1>3. ToSet(Listing') = {x \in ToSet(order') : Library!Under(x, filter)'}
    <2>1. (ToSet(Listing) = {x \in ToSet(order) : Library!Under(x, filter)})'
      BY ListingIs, PTL
    <2> QED
      BY <2>1 DEF ToSet
  <1>4. \A x \in LibraryDocs \ {d} : x \in ToSet(Listing') <=> x \in ToSet(Listing)
    BY <1>2, <1>3
  <1>5. ToSet(Listing') \ {d} = ToSet(Listing) \ {d}
    BY <1>1, <1>2, <1>3, <1>4
  <1>a. (\A x, y \in ToSet(Listing) : y \in Down(x) <=> Ahead(order, y, x))'
    BY ListingIs, PTL
  <1>6. ASSUME NEW x \in ToSet(Listing) \ {d} PROVE Down(x)' \ {d} = Down(x) \ {d}
    <2>1. \A y \in ToSet(Listing) : y \in Down(x) <=> Ahead(order, y, x)
      BY ListingIs
    <2>2. \A y \in ToSet(Listing') : y \in Down(x)' <=> Ahead(order', y, x)
      <3>1. x \in ToSet(Listing')
        BY <1>5
      <3> QED
        BY <1>a, <3>1 DEF Ahead, ToSet, Down, Upto
    <2>3. Down(x) \subseteq ToSet(Listing) /\ Down(x)' \subseteq ToSet(Listing')
      BY DEF Down, Upto, ToSet
    <2>4. x \in LibraryDocs \ {d} /\ \A y \in ToSet(Listing) \ {d} : y \in LibraryDocs \ {d}
      BY <1>1, <1>2
    <2>5. \A y \in ToSet(Listing) \ {d} : y \in Down(x)' <=> y \in Down(x)
      BY <1>5, <2>1, <2>2, <2>4
    <2> QED
      BY <1>5, <2>3, <2>5
  <1> QED
    BY <1>5, <1>6


LEMMA WindowsAre ==
  ASSUME LibraryTypes
  PROVE  /\ Library!NoWindow \in Library!Windows /\ IsInjective(Library!NoWindow.rows)
         /\ Library!NoWindow.st = "no" /\ Library!NoWindow.at = 0 /\ ~Library!NoWindow.fresh
         /\ \A from \in Nat :
               /\ Library!Ask(from) \in Library!Windows /\ IsInjective(Library!Ask(from).rows)
               /\ Library!Ask(from).st = "sent" /\ Library!Ask(from).at = from
         /\ \A w \in Library!Windows :
               /\ w.at \in Nat /\ w.rows \in Seq(LibraryDocs) /\ w.next \in BOOLEAN
               /\ w.fresh \in BOOLEAN /\ w.st \in {"no", "sent", "read"}
               /\ [w EXCEPT !.fresh = FALSE] \in Library!Windows
               /\ [w EXCEPT !.fresh = FALSE].rows = w.rows
               /\ [w EXCEPT !.fresh = FALSE].st = w.st
               /\ ~[w EXCEPT !.fresh = FALSE].fresh
               /\ Library!Read(w) \in Library!Windows /\ IsInjective(Library!Read(w).rows)
               /\ Library!Read(w).st = "read" /\ Library!Read(w).at = w.at
               /\ Library!Read(w).fresh = w.fresh /\ IsRead(Library!Read(w), w.at)
  <1>1. <<>> \in Seq(LibraryDocs) /\ IsInjective(<<>>)
    BY DEF IsInjective
  <1>2. /\ Library!NoWindow \in Library!Windows /\ IsInjective(Library!NoWindow.rows)
        /\ Library!NoWindow.st = "no" /\ Library!NoWindow.at = 0 /\ ~Library!NoWindow.fresh
    BY <1>1 DEF Library!NoWindow, Library!Windows
  <1>3. ASSUME NEW from \in Nat
        PROVE  /\ Library!Ask(from) \in Library!Windows /\ IsInjective(Library!Ask(from).rows)
               /\ Library!Ask(from).st = "sent" /\ Library!Ask(from).at = from
    BY <1>1 DEF Library!Ask, Library!NoWindow, Library!Windows
  <1>4. ASSUME NEW w \in Library!Windows
        PROVE  /\ w.at \in Nat /\ w.rows \in Seq(LibraryDocs) /\ w.next \in BOOLEAN
               /\ w.fresh \in BOOLEAN /\ w.st \in {"no", "sent", "read"}
               /\ [w EXCEPT !.fresh = FALSE] \in Library!Windows
               /\ [w EXCEPT !.fresh = FALSE].rows = w.rows
               /\ [w EXCEPT !.fresh = FALSE].st = w.st
               /\ ~[w EXCEPT !.fresh = FALSE].fresh
    BY DEF Library!Windows
  <1>5. ASSUME NEW w \in Library!Windows
        PROVE  /\ Library!Read(w) \in Library!Windows /\ IsInjective(Library!Read(w).rows)
               /\ Library!Read(w).st = "read" /\ Library!Read(w).at = w.at
               /\ Library!Read(w).fresh = w.fresh /\ IsRead(Library!Read(w), w.at)
    <2>0. w.at \in Nat /\ WindowSize \in Nat
      BY <1>4, LibraryConstants
    <2>1. w.at \in Nat /\ w.at + WindowSize \in Nat /\ w.at <= w.at + WindowSize
      BY <2>0
    <2> DEFINE rows == Library!Rows(filter, w.at, w.at + WindowSize)
               behind == w.at + WindowSize < Len(Listing)
    <2>2. rows \in Seq(LibraryDocs) /\ IsInjective(rows)
      BY <2>1, RowsAre
    <2>3. Library!Read(w) = [w EXCEPT !.st = "read", !.rows = rows, !.next = behind]
      BY DEF Library!Read, Listing
    <2>4. behind \in BOOLEAN
      OBVIOUS
    <2> HIDE DEF rows, behind
    <2>5. /\ Library!Read(w) \in Library!Windows /\ Library!Read(w).rows = rows
          /\ Library!Read(w).st = "read" /\ Library!Read(w).at = w.at
          /\ Library!Read(w).fresh = w.fresh /\ Library!Read(w).next = behind
      BY <2>2, <2>3, <2>4 DEF Library!Windows
    <2> QED
      BY <2>2, <2>5 DEF IsRead, rows, behind
  <1> QED
    BY <1>2, <1>3, <1>4, <1>5

LEMMA LibraryInit == Library!Init => LibraryInv
  <1> SUFFICES ASSUME Library!Init PROVE LibraryInv
    OBVIOUS
  <1>1. PICK there \in SUBSET LibraryDocs : order = Library!SetToSeq(there)
    BY DEF Library!Init
  <1>2. order \in Seq(LibraryDocs) /\ IsInjective(order)
    <2>1. IsFiniteSet(there) /\ Cardinality(there) \in Nat
      BY ONLY LibraryConstants, FS_Subset, FS_CardinalityType
    <2>2. ExistsBijection(1..Cardinality(there), there)
      BY <2>1, FS_CardinalityType
    <2>3. \E f \in [1..Cardinality(there) -> there] : IsInjective(f)
      BY <2>2 DEF ExistsBijection, Bijection, Injection
    <2>4. order = CHOOSE f \in [1..Cardinality(there) -> there] : IsInjective(f)
      <3>1. Library!Cardinality(there) = Cardinality(there)
        BY DEF Library!Cardinality, Cardinality, Library!IsFiniteSet, IsFiniteSet
      <3>2. \A f : Library!IsInjective(f) <=> IsInjective(f)
        BY DEF Library!IsInjective, IsInjective
      <3> QED
        BY <1>1, <3>1, <3>2 DEF Library!SetToSeq
    <2>5. order \in [1..Cardinality(there) -> there] /\ IsInjective(order)
      BY <2>3, <2>4
    <2> QED
      BY <2>1, <2>5
  <1>3. LibraryTypes
    <2>1. <<>> \in Seq(LibraryDocs) /\ IsInjective(<<>>)
      BY DEF IsInjective
    <2>3. load = Library!Ask(0) /\ more = Library!NoWindow
      BY DEF Library!Init
    <2>4. /\ load \in Library!Windows /\ more \in Library!Windows
          /\ IsInjective(load.rows) /\ IsInjective(more.rows)
      BY <2>1, <2>3 DEF Library!Ask, Library!NoWindow, Library!Windows
    <2>5. /\ writes \in [LibraryDocs -> [kind : Library!Kinds, st : {"asked", "done", "refused"}]
                                            \cup {Library!NoWrite}]
          /\ uploads \in [LibraryDocs -> {"no", "sent", "done"}]
      BY DEF Library!Init
    <2>6. /\ binned = {} /\ starred = {} /\ filter \in Library!Filters /\ shown = <<>>
          /\ libraryOffset = 0 /\ hasMore = FALSE /\ loading = TRUE /\ stale = FALSE
          /\ answered = FALSE
      BY DEF Library!Init, Library!Filters
    <2> QED
      BY <1>2, <2>1, <2>4, <2>5, <2>6 DEF LibraryTypes
  <1>4. LibraryFlow /\ LibraryCovers
    <2>1. /\ load.st = "sent" /\ load.at = 0 /\ more.fresh = FALSE
      BY DEF Library!Init, Library!Ask, Library!NoWindow
    <2>2. Writing = {}
      BY DEF Library!Init, Writing
    <2>3. \A d \in LibraryDocs : uploads[d] = "no"
      BY DEF Library!Init
    <2>4. loading = TRUE /\ answered = FALSE
      BY DEF Library!Init
    <2> QED
      BY <2>1, <2>2, <2>3, <2>4 DEF LibraryFlow, LibraryCovers
  <1> QED
    BY <1>3, <1>4 DEF LibraryInv


\* What the server lists is as it was while nothing is written and the filter stands.
LEMMA SameListing ==
  ASSUME order' = order, binned' = binned, starred' = starred, filter' = filter
  PROVE  /\ Listing' = Listing /\ \A x : Down(x)' = Down(x)
         /\ \A w, from : IsRead(w, from)' <=> IsRead(w, from)
  <1>1. Listing' = Listing
    BY DEF Listing, Library!Listed, Library!Under, Library!Filtered
  <1>2. \A from, to : Library!Rows(filter, from, to)' = Library!Rows(filter, from, to)
    BY DEF Library!Rows, Library!Listed, Library!Under, Library!Filtered
  <1> QED
    BY <1>1, <1>2 DEF Down, Upto, Ahead, IsRead, ToSet

\* A load, whatever asks for it.
LEMMA LibraryLoad ==
  ASSUME LibraryInv, Library!Load, UNCHANGED <<order, binned, starred>>,
         filter' \in Library!Filters, Writing' = {},
         writes' \in [LibraryDocs -> [kind : Library!Kinds, st : {"asked", "done", "refused"}]
                                       \cup {Library!NoWrite}],
         uploads' \in [LibraryDocs -> {"no", "sent", "done"}],
         \A d \in LibraryDocs : uploads'[d] = "sent" => uploads[d] = "sent"
  PROVE  LibraryInv'
  <1>0. LibraryTypes /\ LibraryFlow
    BY DEF LibraryInv
  <1>1. /\ load' = Library!Ask(0) /\ more' = [more EXCEPT !.fresh = FALSE]
        /\ loading' = TRUE /\ libraryOffset' = 0 /\ answered' = FALSE
        /\ stale' = (stale \/ load.st # "no") /\ shown' = shown /\ hasMore' = hasMore
    BY DEF Library!Load
  <1>2. /\ load' \in Library!Windows /\ more' \in Library!Windows
        /\ IsInjective(load'.rows) /\ IsInjective(more'.rows)
        /\ load'.st = "sent" /\ load'.at = 0 /\ ~more'.fresh
    BY <1>0, <1>1, WindowsAre DEF LibraryTypes
  <1>3. LibraryTypes'
    <2>1. stale' \in BOOLEAN
      BY <1>0, <1>1 DEF LibraryTypes
    <2>2. /\ loading' \in BOOLEAN /\ answered' \in BOOLEAN /\ hasMore' \in BOOLEAN
          /\ libraryOffset' \in Nat
      BY <1>0, <1>1 DEF LibraryTypes
    <2>3. /\ order' \in Seq(LibraryDocs) /\ binned' \subseteq ToSet(order')
          /\ starred' \subseteq ToSet(order') /\ shown' \in Seq(LibraryDocs)
          /\ IsInjective(order') /\ IsInjective(shown')
      BY <1>0, <1>1 DEF LibraryTypes
    <2> QED
      BY <1>2, <2>1, <2>2, <2>3 DEF LibraryTypes
  <1>4. LibraryFlow'
    BY <1>0, <1>1, <1>2 DEF LibraryFlow, ToSet
  <1>5. LibraryCovers'
    BY <1>1 DEF LibraryCovers
  <1> QED
    BY <1>3, <1>4, <1>5 DEF LibraryInv

\* Where writes are as they were, so are those whose write is out.
LEMMA ChangingIs == Library!Changing = Writing /\ Library!Changing' = Writing'
  BY DEF Library!Changing, Writing

LEMMA LibrarySetFilter ==
  ASSUME LibraryInv, Library!OneAtATime, NEW f \in Library!Filters, Library!SetFilter(f)
  PROVE  LibraryInv'
  <1>0. LibraryTypes
    BY DEF LibraryInv
  <1>1. /\ f # filter /\ filter' = f /\ Library!Load
        /\ UNCHANGED <<order, binned, starred, writes, uploads>>
    BY DEF Library!SetFilter, Library!server
  <1>2. Writing = {} /\ Writing' = {}
    BY <1>1, ChangingIs DEF Library!OneAtATime, Writing
  <1> QED
    BY <1>0, <1>1, <1>2, LibraryLoad DEF LibraryTypes

LEMMA LibraryUploads ==
  ASSUME LibraryInv, Library!OneAtATime, NEW d \in LibraryDocs,
         \/ Library!Upload(d) \/ Library!UploadServed(d)
         \/ Library!UploadAnswer(d) \/ Library!UploadFails(d)
  PROVE  LibraryInv'
  <1>0. LibraryTypes /\ LibraryFlow /\ LibraryCovers
    BY DEF LibraryInv
  <1>1. uploads' # uploads /\ writes' = writes /\ Writing' = Writing
    BY <1>0 DEF Library!Upload, Library!UploadServed, Library!UploadAnswer, Library!UploadFails,
                LibraryTypes, Writing
  <1>2. Writing = {}
    BY <1>1, ChangingIs DEF Library!OneAtATime
  <1>3. uploads' \in [LibraryDocs -> {"no", "sent", "done"}]
    BY <1>0 DEF Library!Upload, Library!UploadServed, Library!UploadAnswer, Library!UploadFails,
                LibraryTypes
  <1>4. CASE Library!Upload(d) \/ Library!UploadFails(d)
    <2>1. /\ UNCHANGED <<order, binned, starred, filter, shown, libraryOffset, hasMore, loading,
                         load, stale, more, answered>>
      BY <1>4 DEF Library!Upload, Library!UploadFails, Library!list, Library!server
    <2>2. \A e \in LibraryDocs : uploads'[e] = "sent" => e \notin ToSet(order)
      BY <1>0, <1>4, LibraryListsAre
         DEF Library!Upload, Library!UploadFails, LibraryTypes, LibraryFlow
    <2>3. Quiet' => Quiet
      BY <1>0, <1>4 DEF Library!Upload, Library!UploadFails, LibraryTypes, Quiet
    <2>4. Listing' = Listing /\ (\A x : Down(x)' = Down(x))
          /\ \A w, from : IsRead(w, from)' <=> IsRead(w, from)
      BY <2>1, SameListing
    <2>5. LibraryTypes'
      BY <1>0, <1>1, <1>3, <2>1 DEF LibraryTypes, ToSet, IsInjective
    <2>6. LibraryFlow'
      <3>1. IsRead(load, 0)' <=> IsRead(load, 0)
        BY <2>1, SameListing DEF IsRead, Library!Rows, Library!Listed, Library!Under
      <3> QED
        BY <1>0, <1>1, <1>2, <2>1, <2>2, <2>3, <2>4 DEF LibraryFlow, ToSet
    <2>7. LibraryCovers'
      BY <1>0, <1>1, <1>2, <2>1, <2>3, <2>4 DEF LibraryCovers, Covers, ToSet
    <2> QED
      BY <2>5, <2>6, <2>7 DEF LibraryInv
  <1>5. CASE Library!UploadServed(d)
    <2>1. /\ uploads[d] = "sent" /\ order' = <<d>> \o order
          /\ uploads' = [uploads EXCEPT ![d] = "done"]
          /\ UNCHANGED <<binned, starred, filter, shown, libraryOffset, hasMore, loading,
                         load, stale, more, answered>>
      BY <1>5 DEF Library!UploadServed, Library!list
    <2>2. order \in Seq(LibraryDocs) /\ IsInjective(order) /\ d \notin ToSet(order)
      BY <1>0, <2>1 DEF LibraryTypes, LibraryFlow
    <2>3. /\ order' \in Seq(LibraryDocs) /\ IsInjective(order')
          /\ ToSet(order') = ToSet(order) \cup {d}
      BY <2>1, <2>2, InFrontIs
    <2>4. ~Quiet' /\ \A e \in LibraryDocs : uploads'[e] = "sent" => e # d /\ uploads[e] = "sent"
      BY <1>0, <2>1 DEF LibraryTypes, Quiet
    <2>5. LibraryTypes'
      BY <1>0, <1>1, <1>3, <2>1, <2>3 DEF LibraryTypes, ToSet, IsInjective
    <2>6. LibraryFlow'
      BY <1>0, <1>1, <1>2, <2>1, <2>3, <2>4 DEF LibraryFlow, ToSet
    <2>7. LibraryCovers'
      BY <2>4 DEF LibraryCovers
    <2> QED
      BY <2>5, <2>6, <2>7 DEF LibraryInv
  <1>6. CASE Library!UploadAnswer(d)
    <2>1. /\ uploads' = [uploads EXCEPT ![d] = "no"] /\ Library!Load
          /\ UNCHANGED <<order, binned, starred, writes, filter>>
      BY <1>6 DEF Library!UploadAnswer, Library!server
    <2>2. \A e \in LibraryDocs : uploads'[e] = "sent" => uploads[e] = "sent"
      BY <1>0, <2>1 DEF LibraryTypes
    <2> QED
      BY <1>0, <1>1, <1>2, <1>3, <2>1, <2>2, LibraryLoad DEF LibraryTypes
  <1> QED
    BY <1>4, <1>5, <1>6


\* The load, and what it was superseded by.
LEMMA LibraryAnswers ==
  ASSUME LibraryInv, Library!OneAtATime,
         \/ Library!LoadServed \/ Library!LoadAnswer \/ Library!LoadFails
         \/ \E bad \in BOOLEAN : Library!StaleAnswer(bad)
  PROVE  LibraryInv'
  <1>0. LibraryTypes /\ LibraryFlow /\ LibraryCovers
    BY DEF LibraryInv
  <1>1. /\ UNCHANGED <<order, binned, starred, writes, uploads, filter, more>>
        /\ Writing' = Writing /\ (Quiet' <=> Quiet)
    BY DEF Library!LoadServed, Library!LoadAnswer, Library!LoadFails, Library!StaleAnswer,
           Library!server, Writing, Quiet
  <1>2. Listing' = Listing /\ (\A x : Down(x)' = Down(x))
        /\ \A w, from : IsRead(w, from)' <=> IsRead(w, from)
    BY <1>1, SameListing
  <1>m. /\ \A from : IsRead(more, from)' <=> IsRead(more, from)
        /\ load' = load => (IsRead(load, 0)' <=> IsRead(load, 0))
    BY <1>1, <1>2 DEF IsRead, Library!Rows, Library!Listed, Library!Under
  <1>3. CASE Library!LoadServed
    <2>1. /\ load.st = "sent" /\ load' = Library!Read(load)
          /\ UNCHANGED <<shown, libraryOffset, hasMore, loading, stale, answered>>
      BY <1>3 DEF Library!LoadServed
    <2>2. /\ load' \in Library!Windows /\ IsInjective(load'.rows) /\ load'.st = "read"
          /\ load'.at = 0 /\ IsRead(load', 0)
      BY <1>0, <2>1, WindowsAre DEF LibraryTypes, LibraryFlow
    <2>3. IsRead(load, 0)'
      BY <1>1, <1>2, <2>2 DEF IsRead, Library!Rows, Library!Listed, Library!Under
    <2>4. LibraryTypes'
      BY <1>0, <1>1, <2>1, <2>2 DEF LibraryTypes, ToSet, IsInjective
    <2>5. LibraryFlow'
      BY <1>0, <1>1, <1>m, <2>1, <2>2, <2>3 DEF LibraryFlow, ToSet
    <2>6. LibraryCovers'
      BY <1>0, <1>1, <1>2, <2>1 DEF LibraryCovers, Covers, CoversBut, ToSet
    <2> QED
      BY <2>4, <2>5, <2>6 DEF LibraryInv
  <1>4. CASE Library!LoadAnswer
    <2>1. /\ load.st = "read" /\ shown' = load.rows /\ libraryOffset' = Len(load.rows)
          /\ hasMore' = load.next /\ loading' = FALSE /\ answered' = TRUE
          /\ load' = Library!NoWindow /\ stale' = stale
      BY <1>4 DEF Library!LoadAnswer
    <2>2. loading /\ Writing = {} /\ ~more.fresh
      BY <1>0, <2>1 DEF LibraryFlow
    <2>3. /\ load' \in Library!Windows /\ IsInjective(load'.rows) /\ load'.st = "no"
          /\ load'.at = 0
      BY <1>0, <2>1, WindowsAre
    <2>4. /\ load.rows \in Seq(LibraryDocs) /\ IsInjective(load.rows) /\ load.next \in BOOLEAN
          /\ Len(load.rows) \in Nat
      <3>1. load \in Library!Windows /\ IsInjective(load.rows)
        BY <1>0 DEF LibraryTypes
      <3>2. load.rows \in Seq(LibraryDocs) /\ load.next \in BOOLEAN
        BY <1>0, <3>1, WindowsAre
      <3> QED
        BY <3>1, <3>2
    <2>5. LibraryTypes'
      BY <1>0, <1>1, <2>1, <2>3, <2>4 DEF LibraryTypes, ToSet, IsInjective
    <2>6. LibraryFlow'
      BY <1>0, <1>1, <1>m, <2>1, <2>2, <2>3 DEF LibraryFlow, ToSet
    <2>7. LibraryCovers'
      <3> SUFFICES ASSUME Quiet', NEW x \in ToSet(Listing'),
                          hasMore' => Cardinality(Down(x)') <= libraryOffset'
                   PROVE  x \in ToSet(shown')
        BY <1>1, <2>2 DEF LibraryCovers, Covers, ToSet
      <3>1. WindowSize \in Nat /\ WindowSize = 0 + WindowSize /\ 0 \in Nat /\ 0 <= WindowSize
        BY LibraryConstants
      <3>2. /\ load.rows = Library!Rows(filter, 0, WindowSize)
            /\ load.next = (WindowSize < Len(Listing))
        BY <1>0, <1>1, <2>1, <3>1 DEF LibraryFlow, IsRead
      <3>3. /\ x \in ToSet(Listing) /\ Cardinality(Down(x)) \in 1..Len(Listing)
            /\ Len(Listing) \in Nat
            /\ load.next => Cardinality(Down(x)) <= Len(load.rows)
        <4>1. x \in ToSet(Listing)
          BY <1>2
        <4> QED
          BY <1>0, <1>2, <2>1, <4>1, ListingIs
      <3>4. /\ ToSet(load.rows) = {y \in ToSet(Listing) : /\ 0 < Cardinality(Down(y))
                                                          /\ Cardinality(Down(y)) <= WindowSize}
            /\ WindowSize < Len(Listing) => Len(load.rows) = WindowSize - 0
        <4>1. /\ ToSet(Library!Rows(filter, 0, WindowSize)) =
                   {y \in ToSet(Listing) : /\ 0 < Cardinality(Down(y))
                                           /\ Cardinality(Down(y)) <= WindowSize}
              /\ WindowSize < Len(Listing) =>
                   Len(Library!Rows(filter, 0, WindowSize)) = WindowSize - 0
          BY ONLY <1>0, <3>1, RowsAre
        <4> QED
          BY <3>2, <4>1
      <3>5. Cardinality(Down(x)) <= WindowSize /\ 0 < Cardinality(Down(x))
        <4>1. PICK c \in Nat, n \in Nat, k \in Nat :
                 /\ c = Cardinality(Down(x)) /\ n = Len(Listing) /\ k = Len(load.rows)
                 /\ 1 <= c /\ c <= n
          BY <2>4, <3>3
        <4>2. WindowSize < n => c <= k /\ k = WindowSize - 0
          BY <3>2, <3>3, <3>4, <4>1
        <4>3. c <= WindowSize /\ 0 < c
          <5>1. CASE WindowSize < n
            BY ONLY <3>1, <4>1, <4>2, <5>1
          <5>2. CASE ~(WindowSize < n)
            BY ONLY <3>1, <4>1, <5>2
          <5> QED
            BY <5>1, <5>2
        <4> QED
          BY <4>1, <4>3
      <3> QED
        BY <2>1, <3>3, <3>4, <3>5
    <2> QED
      BY <2>5, <2>6, <2>7 DEF LibraryInv
  <1>5. CASE Library!LoadFails
    <2>1. /\ load.st # "no" /\ load' = Library!NoWindow /\ loading' = FALSE
          /\ UNCHANGED <<shown, libraryOffset, hasMore, stale, answered>>
      BY <1>5 DEF Library!LoadFails
    <2>2. loading /\ Writing = {} /\ ~more.fresh /\ ~answered
      BY <1>0, <2>1 DEF LibraryFlow
    <2>3. /\ load' \in Library!Windows /\ IsInjective(load'.rows) /\ load'.st = "no"
          /\ load'.at = 0
      BY <1>0, <2>1, WindowsAre
    <2>4. LibraryTypes'
      <3>1. loading' \in BOOLEAN
        BY <2>1
      <3>2. /\ order' \in Seq(LibraryDocs) /\ binned' \subseteq ToSet(order')
            /\ starred' \subseteq ToSet(order') /\ shown' \in Seq(LibraryDocs)
            /\ IsInjective(order') /\ IsInjective(shown')
        BY <1>0, <1>1, <2>1 DEF LibraryTypes
      <3> QED
        BY <1>0, <1>1, <2>1, <2>3, <3>1, <3>2 DEF LibraryTypes
    <2>5. LibraryFlow'
      BY <1>0, <1>1, <2>1, <2>2, <2>3 DEF LibraryFlow, ToSet
    <2>6. LibraryCovers'
      BY <2>1, <2>2 DEF LibraryCovers
    <2> QED
      BY <2>4, <2>5, <2>6 DEF LibraryInv
  <1>6. ASSUME NEW bad \in BOOLEAN, Library!StaleAnswer(bad) PROVE LibraryInv'
    <2>1. /\ stale /\ stale' \in BOOLEAN /\ loading' = (loading /\ ~bad)
          /\ UNCHANGED <<shown, libraryOffset, hasMore, load, answered>>
      BY <1>6 DEF Library!StaleAnswer
    <2>2. loading' = loading
      <3>1. CASE loading
        <4>1. loading' \in BOOLEAN
          BY <1>0, <2>1 DEF LibraryTypes
        <4>2. load' = load
          BY <2>1
        <4>3. loading'
          BY <2>1, <3>1, <4>2 DEF Library!OneAtATime
        <4> QED
          BY <1>0, <3>1, <4>1, <4>3 DEF LibraryTypes
      <3>2. CASE ~loading
        BY <1>0, <2>1, <3>2 DEF LibraryTypes
      <3> QED
        BY <3>1, <3>2
    <2>3. LibraryTypes'
      BY <1>0, <1>1, <2>1, <2>2 DEF LibraryTypes, ToSet, IsInjective
    <2>4. LibraryFlow'
      <3>1. IsRead(load, 0)' <=> IsRead(load, 0)
        BY <1>m, <2>1
      <3>2. libraryOffset' = libraryOffset /\ load' = load /\ answered' = answered
            /\ hasMore' = hasMore
        BY <2>1
      <3>3. IsRead(more, libraryOffset)' <=> IsRead(more, libraryOffset)
        BY <1>1, <1>2, <3>2 DEF IsRead, Library!Rows, Library!Listed, Library!Under
      <3>4. ToSet(order)' = ToSet(order)
        BY <1>1 DEF ToSet
      <3>5. /\ \A d \in LibraryDocs : uploads'[d] = "sent" => d \notin ToSet(order)'
            /\ loading' = (load'.st # "no") /\ load'.at = 0 /\ (answered' => ~loading')
            /\ loading' => Writing' = {}
            /\ more'.fresh => /\ more'.st # "no" /\ ~loading' /\ hasMore'
                              /\ more'.at = libraryOffset'
        BY <1>0, <1>1, <2>2, <3>2, <3>4 DEF LibraryFlow
      <3>6. \A d \in Writing' :
              /\ writes'[d].st \in {"asked", "done", "refused"}
              /\ Library!Offers(d, writes[d].kind)'
              /\ Writing' = {d}
              /\ more'.st = "no" /\ \A e \in LibraryDocs : uploads'[e] = "no"
        BY <1>0, <1>1 DEF LibraryFlow, Library!Offers
      <3>7. /\ Quiet' /\ load'.st = "read" => IsRead(load, 0)'
            /\ Quiet' /\ more'.st = "read" /\ more'.fresh => IsRead(more, libraryOffset)'
        BY <1>0, <1>1, <3>1, <3>2, <3>3 DEF LibraryFlow
      <3> QED
        BY <3>5, <3>6, <3>7 DEF LibraryFlow
    <2>5. LibraryCovers'
      <3>0. /\ hasMore' = hasMore /\ libraryOffset' = libraryOffset
            /\ ToSet(shown)' = ToSet(shown) /\ ToSet(Listing)' = ToSet(Listing)
        BY <1>2, <2>1 DEF ToSet
      <3>1. (Covers' <=> Covers) /\ \A d : CoversBut(d)' <=> CoversBut(d)
        <4>1. Covers' <=> Covers
          BY ONLY <1>2, <3>0 DEF Covers
        <4>2. \A d : CoversBut(d)' <=> CoversBut(d)
          BY ONLY <1>2, <3>0 DEF CoversBut
        <4> QED
          BY <4>1, <4>2
      <3>2. /\ answered' = answered /\ writes' = writes /\ filter' = filter
            /\ ToSet(shown)' = ToSet(shown)
        BY <1>1, <2>1 DEF ToSet
      <3>3. (Quiet' <=> Quiet) /\ Writing' = Writing
        BY <1>1 DEF Quiet, Writing
      <3> HIDE DEF Covers, CoversBut, Quiet, Writing
      <3> QED
        BY <1>0, <3>1, <3>2, <3>3 DEF LibraryCovers
    <2> QED
      BY <2>3, <2>4, <2>5 DEF LibraryInv
  <1> QED
    BY <1>3, <1>4, <1>5, <1>6


\* "Load more": what it was asked for follows what is on screen, unless a load came between.
LEMMA LibraryMore ==
  ASSUME LibraryInv, Library!OneAtATime,
         Library!LoadMore \/ Library!MoreServed \/ Library!MoreAnswer \/ Library!MoreFails
  PROVE  LibraryInv'
  <1>0. LibraryTypes /\ LibraryFlow /\ LibraryCovers
    BY DEF LibraryInv
  <1>1. /\ UNCHANGED <<order, binned, starred, writes, uploads, filter, loading, load, stale,
                       answered>>
        /\ Writing' = Writing /\ (Quiet' <=> Quiet) /\ more' # more /\ ToSet(order)' = ToSet(order)
    <2>1. UNCHANGED <<order, binned, starred, writes, uploads, filter, loading, load, stale,
                      answered>>
      BY DEF Library!LoadMore, Library!MoreServed, Library!MoreAnswer, Library!MoreFails,
             Library!server
    <2>2. more.st # more'.st
      <3>1. CASE Library!LoadMore
        BY <1>0, <3>1, WindowsAre DEF Library!LoadMore, LibraryTypes
      <3>2. CASE Library!MoreServed
        BY <1>0, <3>2, WindowsAre DEF Library!MoreServed, LibraryTypes
      <3>3. CASE Library!MoreAnswer \/ Library!MoreFails
        BY <1>0, <3>3, WindowsAre DEF Library!MoreAnswer, Library!MoreFails
      <3> QED
        BY <3>1, <3>2, <3>3
    <2> QED
      BY <2>1, <2>2 DEF Writing, Quiet, ToSet
  <1>2. Writing = {}
    BY <1>1, ChangingIs DEF Library!OneAtATime
  <1>3. Listing' = Listing /\ (\A x : Down(x)' = Down(x))
        /\ \A w, from : IsRead(w, from)' <=> IsRead(w, from)
    BY <1>1, SameListing
  <1>4. IsRead(load, 0)' <=> IsRead(load, 0)
    BY <1>1, <1>3 DEF IsRead, Library!Rows, Library!Listed, Library!Under
  <1>5. /\ order' \in Seq(LibraryDocs) /\ binned' \subseteq ToSet(order')
        /\ starred' \subseteq ToSet(order') /\ IsInjective(order')
        /\ writes' \in [LibraryDocs -> [kind : Library!Kinds, st : {"asked", "done", "refused"}]
                                         \cup {Library!NoWrite}]
        /\ uploads' \in [LibraryDocs -> {"no", "sent", "done"}]
        /\ filter' \in Library!Filters
        /\ loading' \in BOOLEAN /\ stale' \in BOOLEAN /\ answered' \in BOOLEAN
        /\ load' \in Library!Windows /\ IsInjective(load'.rows)
    BY <1>0, <1>1 DEF LibraryTypes
  \* What is left of the flow: the window itself.
  <1>6. ASSUME more'.fresh => /\ more'.st # "no" /\ ~loading /\ hasMore'
                              /\ more'.at = libraryOffset',
               Quiet /\ more'.st = "read" /\ more'.fresh => IsRead(more, libraryOffset)'
        PROVE  LibraryFlow'
    <2>1. /\ \A d \in LibraryDocs : uploads'[d] = "sent" => d \notin ToSet(order)'
          /\ loading' = (load'.st # "no") /\ load'.at = 0 /\ (answered' => ~loading')
          /\ loading' => Writing' = {}
          /\ more'.fresh => /\ more'.st # "no" /\ ~loading' /\ hasMore'
                            /\ more'.at = libraryOffset'
      BY <1>0, <1>1, <1>6 DEF LibraryFlow
    <2>2. Writing' = {}
      BY <1>1, <1>2
    <2>3. /\ Quiet' /\ load'.st = "read" => IsRead(load, 0)'
          /\ Quiet' /\ more'.st = "read" /\ more'.fresh => IsRead(more, libraryOffset)'
      BY <1>0, <1>1, <1>4, <1>6 DEF LibraryFlow
    <2> QED
      BY <2>1, <2>2, <2>3 DEF LibraryFlow
  <1>7. CASE UNCHANGED <<shown, libraryOffset, hasMore>>
    <2>1. /\ LibraryCovers'
      BY <1>0, <1>1, <1>2, <1>3, <1>7 DEF LibraryCovers, Covers, ToSet
    <2>2. ASSUME more' \in Library!Windows, IsInjective(more'.rows) PROVE LibraryTypes'
      <3>1. shown' \in Seq(LibraryDocs) /\ IsInjective(shown') /\ libraryOffset' \in Nat
            /\ hasMore' \in BOOLEAN
        BY <1>0, <1>7 DEF LibraryTypes
      <3> QED
        BY <1>5, <2>2, <3>1 DEF LibraryTypes
    <2>3. CASE Library!LoadMore
      <3>1. ~loading /\ hasMore /\ more' = Library!Ask(libraryOffset)
        BY <2>3 DEF Library!LoadMore
      <3>2. /\ more' \in Library!Windows /\ IsInjective(more'.rows) /\ more'.st = "sent"
            /\ more'.at = libraryOffset
        BY <1>0, <3>1, WindowsAre DEF LibraryTypes
      <3>3. LibraryFlow'
        BY <1>6, <1>7, <3>1, <3>2
      <3> QED
        BY <2>1, <2>2, <3>2, <3>3 DEF LibraryInv
    <2>4. CASE Library!MoreServed
      <3>1. more' = Library!Read(more)
        BY <2>4 DEF Library!MoreServed
      <3>2. /\ more' \in Library!Windows /\ IsInjective(more'.rows) /\ more'.st = "read"
            /\ more'.at = more.at /\ more'.fresh = more.fresh /\ IsRead(more', more.at)
        BY <1>0, <3>1, WindowsAre DEF LibraryTypes
      <3>3. more.fresh => ~loading /\ hasMore /\ more.at = libraryOffset
        BY <1>0 DEF LibraryFlow
      <3>4. more.fresh => IsRead(more, libraryOffset)'
        BY <1>1, <1>3, <1>7, <3>2, <3>3 DEF IsRead, Library!Rows, Library!Listed, Library!Under
      <3>5. LibraryFlow'
        BY <1>6, <1>7, <3>2, <3>3, <3>4
      <3> QED
        BY <2>1, <2>2, <3>2, <3>5 DEF LibraryInv
    <2>5. CASE Library!MoreAnswer \/ Library!MoreFails
      <3>1. more' = Library!NoWindow
        BY <2>5 DEF Library!MoreAnswer, Library!MoreFails
      <3>2. /\ more' \in Library!Windows /\ IsInjective(more'.rows) /\ more'.st = "no"
            /\ ~more'.fresh
        BY <1>0, <3>1, WindowsAre
      <3>3. LibraryFlow'
        BY <1>6, <3>2
      <3> QED
        BY <2>1, <2>2, <3>2, <3>3 DEF LibraryInv
    <2> QED
      BY <2>3, <2>4, <2>5
  <1>8. CASE ~UNCHANGED <<shown, libraryOffset, hasMore>>
    <2> DEFINE new == Filtered(more.rows, LibraryDocs \ ToSet(shown))
    <2>1. /\ more.st = "read" /\ more.fresh /\ more' = Library!NoWindow
          /\ libraryOffset' = libraryOffset + Len(more.rows) /\ hasMore' = more.next
          /\ shown' = shown \o new
      BY <1>8, LibraryListsAre DEF Library!LoadMore, Library!MoreServed, Library!MoreAnswer,
                                   Library!MoreFails
    <2>2. /\ more' \in Library!Windows /\ IsInjective(more'.rows) /\ more'.st = "no"
          /\ ~more'.fresh
      BY <1>0, <2>1, WindowsAre
    <2>3. /\ more.rows \in Seq(LibraryDocs) /\ IsInjective(more.rows) /\ more.next \in BOOLEAN
          /\ Len(more.rows) \in Nat /\ shown \in Seq(LibraryDocs) /\ IsInjective(shown)
          /\ libraryOffset \in Nat
      <3>1. more \in Library!Windows /\ IsInjective(more.rows) /\ libraryOffset \in Nat
            /\ shown \in Seq(LibraryDocs) /\ IsInjective(shown)
        BY <1>0 DEF LibraryTypes
      <3>2. more.rows \in Seq(LibraryDocs) /\ more.next \in BOOLEAN
        BY <1>0, <3>1, WindowsAre
      <3> QED
        BY <3>1, <3>2
    <2>4. /\ new \in Seq(LibraryDocs) /\ IsInjective(new)
          /\ ToSet(new) = ToSet(more.rows) \cap (LibraryDocs \ ToSet(shown))
      BY ONLY <2>3, FilteredKeeps
    <2> HIDE DEF new
    <2>5. /\ shown' \in Seq(LibraryDocs) /\ IsInjective(shown')
          /\ ToSet(shown') = ToSet(shown) \cup ToSet(new)
      <3>1. ToSet(shown) \cap ToSet(new) = {}
        BY <2>4
      <3>2. /\ shown \o new \in Seq(LibraryDocs) /\ IsInjective(shown \o new)
            /\ ToSet(shown \o new) = ToSet(shown) \cup ToSet(new)
        BY ONLY <2>3, <2>4, <3>1, JoinedIs
      <3> QED
        BY <2>1, <3>2
    <2>6. ToSet(more.rows) \subseteq ToSet(shown')
      <3>1. ToSet(more.rows) \subseteq LibraryDocs
        BY <2>3 DEF ToSet
      <3> QED
        BY <2>4, <2>5, <3>1
    <2>7. LibraryTypes'
      <3>1. libraryOffset' \in Nat /\ hasMore' \in BOOLEAN
        BY <2>1, <2>3
      <3> QED
        BY <1>5, <2>2, <2>5, <3>1 DEF LibraryTypes
    <2>8. LibraryFlow'
      BY <1>6, <2>2
    <2>9. LibraryCovers'
      <3> SUFFICES ASSUME answered, Quiet, NEW x \in ToSet(Listing),
                          hasMore' => Cardinality(Down(x)) <= libraryOffset'
                   PROVE  x \in ToSet(shown')
        BY <1>1, <1>2, <1>3 DEF LibraryCovers, Covers, ToSet
      <3>1. hasMore /\ Covers /\ IsRead(more, libraryOffset)
        BY <1>0, <1>2, <2>1 DEF LibraryFlow, LibraryCovers
      <3>2. WindowSize \in Nat
        BY LibraryConstants
      <3> DEFINE o == libraryOffset
                 e == libraryOffset + WindowSize
      <3>3. o \in Nat /\ e \in Nat /\ o <= e /\ e - o = WindowSize
        BY <2>3, <3>2
      <3>4. /\ more.rows = Library!Rows(filter, o, e) /\ more.next = (e < Len(Listing))
        BY <3>1 DEF IsRead
      <3> HIDE DEF o, e
      <3>5. /\ ToSet(Library!Rows(filter, o, e)) =
                 {y \in ToSet(Listing) : o < Cardinality(Down(y)) /\ Cardinality(Down(y)) <= e}
            /\ e < Len(Listing) => Len(Library!Rows(filter, o, e)) = e - o
        BY ONLY <1>0, <3>3, RowsAre
      <3>6. PICK c \in Nat, n \in Nat, k \in Nat :
               /\ c = Cardinality(Down(x)) /\ n = Len(Listing) /\ k = Len(more.rows)
               /\ 1 <= c /\ c <= n
        BY <1>0, <2>3, ListingIs
      <3>7. CASE c <= o
        <4>1. Cardinality(Down(x)) <= libraryOffset
          BY <3>6, <3>7 DEF o
        <4> QED
          BY <2>5, <3>1, <4>1 DEF Covers
      <3>8. CASE ~(c <= o)
        <4>1. e < n => c <= o + k /\ k = e - o
          BY <2>1, <3>4, <3>5, <3>6 DEF o
        <4>2. c <= e
          <5>1. CASE e < n
            BY ONLY <3>3, <3>6, <4>1, <5>1
          <5>2. CASE ~(e < n)
            BY ONLY <3>3, <3>6, <5>2
          <5> QED
            BY <5>1, <5>2
        <4>3. o < c
          BY <3>3, <3>6, <3>8
        <4>4. x \in ToSet(more.rows)
          BY <3>4, <3>5, <3>6, <4>2, <4>3
        <4> QED
          BY <2>6, <4>4
      <3> QED
        BY <3>7, <3>8
    <2> QED
      BY <2>7, <2>8, <2>9 DEF LibraryInv
  <1> QED
    BY <1>7, <1>8


\* A change is asked for alone; the row it takes off the screen no longer counts.
LEMMA LibraryChange ==
  ASSUME LibraryInv, Library!OneAtATime, NEW d \in LibraryDocs, NEW kind \in Library!Kinds,
         Library!Change(d, kind)
  PROVE  LibraryInv'
  <1>0. LibraryTypes /\ LibraryFlow /\ LibraryCovers
    BY DEF LibraryInv
  <1>1. /\ ~loading /\ d \in ToSet(shown) /\ writes[d] = Library!NoWrite
        /\ Library!Offers(d, kind)
        /\ writes' = [writes EXCEPT ![d] = [kind |-> kind, st |-> "asked"]]
        /\ UNCHANGED <<order, binned, starred, uploads, filter, hasMore, loading, load, stale,
                       more, answered>>
    BY LibraryListsAre DEF Library!Change, Library!server
  <1>2. /\ IF Library!Removes(kind)
           THEN /\ shown' = Filtered(shown, LibraryDocs \ {d})
                /\ libraryOffset' = IF libraryOffset > 0 THEN libraryOffset - 1 ELSE 0
           ELSE UNCHANGED <<shown, libraryOffset>>
    BY LibraryListsAre DEF Library!Change
  <1>3. /\ [kind |-> kind, st |-> "asked"] # Library!NoWrite
        /\ writes'[d] = [kind |-> kind, st |-> "asked"] /\ d \in Writing' /\ d \notin Writing
        /\ Writing' = Writing \cup {d}
    BY <1>0, <1>1 DEF LibraryTypes, Writing, Library!NoWrite
  <1>4. /\ Writing = {} /\ Writing' = {d} /\ more.st = "no"
        /\ \A e \in LibraryDocs : uploads[e] = "no"
    BY <1>3, ChangingIs DEF Library!OneAtATime
  <1>5. Listing' = Listing /\ (\A x : Down(x)' = Down(x)) /\ (Quiet' <=> Quiet)
    BY <1>1, SameListing DEF Quiet
  <1>6. /\ shown \in Seq(LibraryDocs) /\ IsInjective(shown) /\ libraryOffset \in Nat
    BY <1>0 DEF LibraryTypes
  <1>7. /\ shown' \in Seq(LibraryDocs) /\ IsInjective(shown') /\ libraryOffset' \in Nat
        /\ Library!Removes(kind) => ToSet(shown') = ToSet(shown) \ {d}
    <2>1. CASE Library!Removes(kind)
      <3> DEFINE left == Filtered(shown, LibraryDocs \ {d})
      <3>1. /\ left \in Seq(LibraryDocs) /\ IsInjective(left)
            /\ ToSet(left) = ToSet(shown) \cap (LibraryDocs \ {d})
        BY ONLY <1>6, FilteredKeeps
      <3>2. ToSet(shown) \subseteq LibraryDocs
        BY <1>6 DEF ToSet
      <3>3. shown' = left
        BY <1>2, <2>1
      <3> HIDE DEF left
      <3>4. libraryOffset' \in Nat
        BY <1>2, <1>6, <2>1
      <3> QED
        BY <3>1, <3>2, <3>3, <3>4
    <2>2. CASE ~Library!Removes(kind)
      BY <1>2, <1>6, <2>2
    <2> QED
      BY <2>1, <2>2
  <1>8. LibraryTypes'
    <2>1. writes' \in [LibraryDocs -> [kind : Library!Kinds, st : {"asked", "done", "refused"}]
                                         \cup {Library!NoWrite}]
      BY <1>0, <1>1 DEF LibraryTypes
    <2>2. /\ order' \in Seq(LibraryDocs) /\ binned' \subseteq ToSet(order')
          /\ starred' \subseteq ToSet(order') /\ IsInjective(order')
          /\ uploads' \in [LibraryDocs -> {"no", "sent", "done"}]
          /\ filter' \in Library!Filters
          /\ loading' \in BOOLEAN /\ stale' \in BOOLEAN /\ answered' \in BOOLEAN
          /\ hasMore' \in BOOLEAN
          /\ load' \in Library!Windows /\ IsInjective(load'.rows)
          /\ more' \in Library!Windows /\ IsInjective(more'.rows)
      BY <1>0, <1>1 DEF LibraryTypes
    <2> QED
      BY <1>7, <2>1, <2>2 DEF LibraryTypes
  <1>9. LibraryFlow'
    <2>1. load.st = "no" /\ load.at = 0 /\ ~more.fresh
      BY <1>0, <1>1, <1>4 DEF LibraryFlow
    <2>2. Library!Offers(d, writes[d].kind)' /\ writes'[d].st = "asked"
      BY <1>1, <1>3 DEF Library!Offers
    <2>3. \A e \in LibraryDocs : uploads'[e] # "sent"
      BY <1>1, <1>4
    <2>4. ~loading' /\ load'.st = "no" /\ load'.at = 0 /\ ~more'.fresh
      BY <1>1, <2>1
    <2>5. \A c \in Writing' :
            /\ writes'[c].st \in {"asked", "done", "refused"}
            /\ Library!Offers(c, writes[c].kind)'
            /\ Writing' = {c}
            /\ more'.st = "no" /\ \A e \in LibraryDocs : uploads'[e] = "no"
      BY <1>1, <1>4, <2>2
    <2>6. loading' = (load'.st # "no")
      BY <1>1, <1>8, <2>4 DEF LibraryTypes
    <2> QED
      BY <2>3, <2>4, <2>5, <2>6 DEF LibraryFlow
  <1>10. LibraryCovers'
    <2>1. ASSUME answered, Quiet PROVE Covers
      BY <1>0, <1>4, <2>1 DEF LibraryCovers
    <2>2. ASSUME answered, Quiet, Library!Removes(kind) PROVE CoversBut(d)'
      <3> SUFFICES ASSUME NEW x \in ToSet(Listing) \ {d},
                          hasMore => Cardinality(Down(x) \ {d}) <= libraryOffset'
                   PROVE  x \in ToSet(shown')
        BY <1>1, <1>5 DEF CoversBut, ToSet
      <3> DEFINE D == Down(x)
      <3>1. IsFiniteSet(D) /\ x \in D
        BY <1>0, ListingIs
      <3> HIDE DEF D
      <3>2. /\ IsFiniteSet(D \ {d}) /\ Cardinality(D) \in Nat /\ Cardinality(D \ {d}) \in Nat
            /\ Cardinality(D) <= Cardinality(D \ {d}) + 1
        <4>1. IsFiniteSet(D \ {d})
          BY <3>1, FS_RemoveElement
        <4>2. Cardinality(D) \in Nat /\ Cardinality(D \ {d}) \in Nat
          BY <3>1, <4>1, FS_CardinalityType
        <4>3. Cardinality(D \ {d}) = IF d \in D THEN Cardinality(D) - 1 ELSE Cardinality(D)
          BY ONLY <3>1, FS_RemoveElement
        <4> QED
          BY <4>1, <4>2, <4>3
      <3>3. Cardinality(D \ {d}) # 0
        BY <3>1, <3>2, FS_EmptySet
      <3>4. ASSUME hasMore PROVE Cardinality(D) <= libraryOffset
        <4>1. Cardinality(D \ {d}) <= libraryOffset'
          BY <3>4 DEF D
        <4>2. libraryOffset' = IF libraryOffset > 0 THEN libraryOffset - 1 ELSE 0
          BY <1>2, <2>2
        <4> QED
          BY ONLY <1>6, <3>2, <3>3, <4>1, <4>2
      <3>5. x \in ToSet(shown)
        BY <2>1, <2>2, <3>4 DEF Covers, D
      <3> QED
        BY <1>7, <2>2, <3>5
    <2>3. ASSUME answered, Quiet, ~Library!Removes(kind) PROVE Covers' /\ d \in ToSet(shown)'
      <3>1. shown' = shown /\ libraryOffset' = libraryOffset
        BY <1>2, <2>3
      <3> QED
        BY <1>1, <1>5, <2>1, <2>3, <3>1 DEF Covers, ToSet
    <2>4. writes'[d].st = "asked" /\ writes'[d].kind = kind
      BY <1>3
    <2>5. Library!Removes(writes[d].kind)' <=> Library!Removes(kind)
      BY <2>4 DEF Library!Removes
    <2> QED
      BY <1>1, <1>4, <1>5, <2>2, <2>3, <2>4, <2>5 DEF LibraryCovers
  <1> QED
    BY <1>8, <1>9, <1>10 DEF LibraryInv

\* The answer to a change: what it moved has moved, and what it took away is gone.
LEMMA LibraryChangeAnswer ==
  ASSUME LibraryInv, NEW d \in LibraryDocs, Library!ChangeAnswer(d)
  PROVE  LibraryInv'
  <1>0. LibraryTypes /\ LibraryFlow /\ LibraryCovers
    BY DEF LibraryInv
  <1>1. /\ writes[d].st \in {"done", "refused"} /\ writes' = [writes EXCEPT ![d] = Library!NoWrite]
        /\ UNCHANGED <<order, binned, starred, uploads, filter>>
    BY DEF Library!ChangeAnswer, Library!server
  <1>2. d \in Writing /\ Writing = {d} /\ Writing' = {}
    <2>1. d \in Writing
      BY <1>1 DEF Writing, Library!NoWrite
    <2>2. Writing = {d}
      BY <1>0, <2>1 DEF LibraryFlow
    <2> QED
      BY <1>0, <1>1, <2>1, <2>2 DEF Writing, LibraryTypes
  <1>3. writes' \in [LibraryDocs -> [kind : Library!Kinds, st : {"asked", "done", "refused"}]
                                       \cup {Library!NoWrite}]
    BY <1>0, <1>1 DEF LibraryTypes
  <1>4. CASE writes[d].st = "refused" \/ (filter = "starred" /\ writes[d].kind = "unstar")
    <2>1. Library!Load
      BY <1>4 DEF Library!ChangeAnswer
    <2> QED
      BY <1>0, <1>1, <1>2, <1>3, <2>1, LibraryLoad DEF LibraryTypes
  <1>5. CASE ~(writes[d].st = "refused" \/ (filter = "starred" /\ writes[d].kind = "unstar"))
    <2>1. /\ UNCHANGED <<shown, libraryOffset, hasMore, loading, load, stale, more, answered>>
          /\ writes[d].st = "done"
      BY <1>1, <1>5 DEF Library!ChangeAnswer, Library!list
    <2>2. Listing' = Listing /\ (\A x : Down(x)' = Down(x)) /\ (Quiet' <=> Quiet)
      BY <1>1, SameListing DEF Quiet
    <2>3. LibraryTypes'
      BY <1>0, <1>1, <1>3, <2>1 DEF LibraryTypes, ToSet, IsInjective
    <2>4. LibraryFlow'
      <3>1. load.st = "no" /\ ~more.fresh
        BY <1>0, <1>2 DEF LibraryFlow
      <3> QED
        BY <1>0, <1>1, <1>2, <2>1, <3>1 DEF LibraryFlow, ToSet
    <2>5. LibraryCovers'
      BY <1>0, <1>2, <1>5, <2>1, <2>2 DEF LibraryCovers, Covers, ToSet
    <2> QED
      BY <2>3, <2>4, <2>5 DEF LibraryInv
  <1> QED
    BY <1>4, <1>5


\* What a change does to the server's list: the document alone moves to the front, or goes.
LEMMA ApplyIs ==
  ASSUME LibraryTypes, NEW d \in ToSet(order), NEW kind \in Library!Kinds,
         Library!Apply(d, kind)
  PROVE  /\ order' \in Seq(LibraryDocs) /\ IsInjective(order')
         /\ ToSet(order') = IF kind = "purge" THEN ToSet(order) \ {d} ELSE ToSet(order)
         /\ \A x, y \in LibraryDocs \ {d} : Ahead(order', y, x) <=> Ahead(order, y, x)
         /\ kind # "purge" => \A x \in ToSet(order') : Ahead(order', d, x)
         /\ binned' \subseteq ToSet(order') /\ starred' \subseteq ToSet(order')
         /\ \A x \in LibraryDocs \ {d} : /\ x \in binned' <=> x \in binned
                                         /\ x \in starred' <=> x \in starred
  <1> DEFINE left == Filtered(order, LibraryDocs \ {d})
  <1>1. /\ order \in Seq(LibraryDocs) /\ IsInjective(order)
        /\ binned \subseteq ToSet(order) /\ starred \subseteq ToSet(order)
    BY DEF LibraryTypes
  <1>2. ToSet(order) \subseteq LibraryDocs
    BY <1>1 DEF ToSet
  <1>3. /\ left \in Seq(LibraryDocs) /\ IsInjective(left)
        /\ ToSet(left) = ToSet(order) \cap (LibraryDocs \ {d})
        /\ \A x, y \in LibraryDocs \ {d} : Ahead(left, y, x) <=> Ahead(order, y, x)
    BY ONLY <1>1, FilteredKeeps
  <1>4. /\ order' = IF kind = "purge" THEN left ELSE <<d>> \o left
        /\ binned' = CASE kind = "trash" -> binned \cup {d}
                       [] kind \in {"restore", "purge"} -> binned \ {d}
                       [] OTHER -> binned
        /\ starred' = CASE kind = "star" -> starred \cup {d}
                        [] kind \in {"unstar", "purge"} -> starred \ {d}
                        [] OTHER -> starred
    BY LibraryListsAre DEF Library!Apply
  <1> HIDE DEF left
  <1>5. d \in LibraryDocs /\ d \notin ToSet(left) /\ ToSet(left) = ToSet(order) \ {d}
    BY <1>2, <1>3
  <1>6. /\ kind = "purge" => binned' = binned \ {d} /\ starred' = starred \ {d}
        /\ binned' \subseteq binned \cup {d} /\ starred' \subseteq starred \cup {d}
        /\ \A x : x # d => /\ x \in binned' <=> x \in binned
                           /\ x \in starred' <=> x \in starred
    BY <1>4
  <1>7. CASE kind = "purge"
    BY <1>1, <1>3, <1>4, <1>5, <1>6, <1>7
  <1>8. CASE kind # "purge"
    <2> DEFINE t == <<d>> \o left
    <2>1. /\ t \in Seq(LibraryDocs) /\ IsInjective(t) /\ ToSet(t) = ToSet(left) \cup {d}
          /\ \A x, y : x # d /\ y # d => (Ahead(t, y, x) <=> Ahead(left, y, x))
          /\ \A x \in ToSet(t) : Ahead(t, d, x)
      BY ONLY <1>3, <1>5, InFrontIs
    <2>2. order' = t
      BY <1>4, <1>8
    <2> HIDE DEF t
    <2> QED
      BY <1>1, <1>3, <1>5, <1>6, <1>8, <2>1, <2>2
  <1> QED
    BY <1>7, <1>8

\* The server's answer: what is consumed of the list is still on screen.
LEMMA LibraryChangeServed ==
  ASSUME LibraryInv, NEW d \in LibraryDocs, NEW ok \in BOOLEAN, Library!ChangeServed(d, ok)
  PROVE  LibraryInv'
  <1>0. LibraryTypes /\ LibraryFlow /\ LibraryCovers
    BY DEF LibraryInv
  <1> DEFINE kind == writes[d].kind
             done == ok /\ d \in ToSet(order)
  <1>1. /\ writes[d].st = "asked"
        /\ IF done THEN Library!Apply(d, kind) ELSE UNCHANGED <<order, binned, starred>>
        /\ writes' = [writes EXCEPT ![d].st = IF done THEN "done" ELSE "refused"]
        /\ UNCHANGED <<uploads, filter, shown, libraryOffset, hasMore, loading, load, stale,
                       more, answered>>
    BY LibraryListsAre DEF Library!ChangeServed, Library!list, Library!server
  <1>2. d \in Writing /\ Writing = {d} /\ Library!Offers(d, kind) /\ more.st = "no"
        /\ \A e \in LibraryDocs : uploads[e] = "no"
    <2>1. d \in Writing
      BY <1>1 DEF Writing, Library!NoWrite
    <2> QED
      BY <1>0, <2>1 DEF LibraryFlow
  <1>3. /\ writes[d] \in [kind : Library!Kinds, st : {"asked", "done", "refused"}]
        /\ kind \in Library!Kinds
    <2>1. writes[d] # Library!NoWrite
      BY <1>2 DEF Writing
    <2>2. writes[d] \in [kind : Library!Kinds, st : {"asked", "done", "refused"}]
      BY <1>0, <2>1 DEF LibraryTypes
    <2> QED
      BY <2>2
  <1> HIDE DEF kind, done
  <1>4. /\ writes' \in [LibraryDocs -> [kind : Library!Kinds, st : {"asked", "done", "refused"}]
                                         \cup {Library!NoWrite}]
        /\ writes'[d].st = IF done THEN "done" ELSE "refused"
        /\ writes'[d].kind = kind
        /\ \A e \in LibraryDocs \ {d} : writes'[e] = writes[e]
    <2> DEFINE w == [writes[d] EXCEPT !.st = IF done THEN "done" ELSE "refused"]
    <2>1. /\ w \in [kind : Library!Kinds, st : {"asked", "done", "refused"}]
          /\ w.st = (IF done THEN "done" ELSE "refused") /\ w.kind = kind
      BY <1>3 DEF kind
    <2>2. writes' = [writes EXCEPT ![d] = w]
      BY <1>1
    <2> HIDE DEF w
    <2> QED
      BY <1>0, <2>1, <2>2 DEF LibraryTypes
  <1>5. Writing' = {d}
    <2>1. writes'[d] # Library!NoWrite
      BY <1>4 DEF Library!NoWrite
    <2> QED
      BY <1>2, <1>4, <2>1 DEF Writing
  <1>6. /\ order' \in Seq(LibraryDocs) /\ IsInjective(order')
        /\ binned' \subseteq ToSet(order') /\ starred' \subseteq ToSet(order')
    <2>1. CASE done
      BY <1>0, <1>1, <1>3, <2>1, ApplyIs DEF done
    <2>2. CASE ~done
      BY <1>0, <1>1, <2>2 DEF LibraryTypes
    <2> QED
      BY <2>1, <2>2
  <1>7. LibraryTypes'
    <2>1. /\ uploads' \in [LibraryDocs -> {"no", "sent", "done"}]
          /\ filter' \in Library!Filters /\ shown' \in Seq(LibraryDocs) /\ IsInjective(shown')
          /\ libraryOffset' \in Nat
          /\ loading' \in BOOLEAN /\ stale' \in BOOLEAN /\ answered' \in BOOLEAN
          /\ hasMore' \in BOOLEAN
          /\ load' \in Library!Windows /\ IsInjective(load'.rows)
          /\ more' \in Library!Windows /\ IsInjective(more'.rows)
      BY <1>0, <1>1 DEF LibraryTypes
    <2> QED
      BY <1>4, <1>6, <2>1 DEF LibraryTypes
  <1>8. LibraryFlow'
    <2>1. load.st = "no" /\ load.at = 0 /\ ~more.fresh /\ ~loading
      BY <1>0, <1>2 DEF LibraryFlow
    <2>2. ~loading' /\ load'.st = "no" /\ load'.at = 0 /\ ~more'.fresh
      BY <1>1, <2>1
    <2>3. \A c \in Writing' :
            /\ writes'[c].st \in {"asked", "done", "refused"}
            /\ Library!Offers(c, writes[c].kind)'
            /\ Writing' = {c}
            /\ more'.st = "no" /\ \A e \in LibraryDocs : uploads'[e] = "no"
      BY <1>1, <1>2, <1>4, <1>5 DEF Library!Offers
    <2>4. loading' = (load'.st # "no")
      BY <1>7, <2>2 DEF LibraryTypes
    <2>5. \A e \in LibraryDocs : uploads'[e] # "sent"
      BY <1>1, <1>2
    <2> QED
      BY <2>2, <2>3, <2>4, <2>5 DEF LibraryFlow
  <1>9. LibraryCovers'
    <2> SUFFICES ASSUME answered, done, ~(filter = "starred" /\ kind = "unstar")
                 PROVE  Covers'
      BY <1>1, <1>4, <1>5 DEF LibraryCovers
    <2>1. Quiet
      BY <1>2 DEF Quiet
    <2>2. /\ Library!Apply(d, kind) /\ d \in ToSet(order) /\ filter' = filter
      BY <1>1 DEF done
    <2>3. /\ ToSet(order') = IF kind = "purge" THEN ToSet(order) \ {d} ELSE ToSet(order)
          /\ \A x, y \in LibraryDocs \ {d} : Ahead(order', y, x) <=> Ahead(order, y, x)
          /\ kind # "purge" => \A x \in ToSet(order') : Ahead(order', d, x)
          /\ \A x \in LibraryDocs \ {d} : /\ x \in binned' <=> x \in binned
                                          /\ x \in starred' <=> x \in starred
      BY <1>0, <1>3, <2>2, ApplyIs
    <2>4. \A x \in LibraryDocs \ {d} : Library!Under(x, filter)' <=> Library!Under(x, filter)
      <3> SUFFICES ASSUME NEW x \in LibraryDocs \ {d}
                   PROVE  Library!Under(x, filter)' <=> Library!Under(x, filter)
        OBVIOUS
      <3>1. filter' = filter /\ (x \in binned' <=> x \in binned)
            /\ (x \in starred' <=> x \in starred)
        BY <2>2, <2>3
      <3>2. CASE filter = "library"
        BY <3>1, <3>2 DEF Library!Under
      <3>3. CASE filter = "starred"
        BY <3>1, <3>3 DEF Library!Under
      <3>4. CASE filter = "bin"
        BY <3>1, <3>4 DEF Library!Under
      <3> QED
        BY <1>0, <3>2, <3>3, <3>4 DEF LibraryTypes, Library!Filters
    <2>5. /\ ToSet(Listing') \ {d} = ToSet(Listing) \ {d}
          /\ \A x \in ToSet(Listing) \ {d} : Down(x)' \ {d} = Down(x) \ {d}
      BY <1>0, <1>7, <2>2, <2>3, <2>4, DownAfter
    <2>6. ToSet(Listing') = {x \in ToSet(order') : Library!Under(x, filter)'}
      <3>1. (ToSet(Listing) = {x \in ToSet(order) : Library!Under(x, filter)})'
        BY <1>7, ListingIs, PTL
      <3> QED
        BY <3>1 DEF ToSet
    <2>7. CASE Library!Removes(kind)
      <3>1. CoversBut(d)
        BY <1>0, <1>1, <1>2, <2>1, <2>7 DEF LibraryCovers, kind
      <3>2. d \notin ToSet(Listing')
        <4>1. CASE kind = "purge"
          BY <2>3, <2>6, <4>1
        <4>2. CASE kind = "trash"
          <5>1. filter # "bin" /\ d \in binned'
            BY <1>2, <2>2, <4>2 DEF Library!Offers, Library!Apply
          <5>2. ~Library!Under(d, filter)'
            BY <1>0, <2>2, <5>1 DEF LibraryTypes, Library!Under, Library!Filters
          <5> QED
            BY <2>6, <5>2
        <4>3. CASE kind = "restore"
          <5>1. filter = "bin" /\ d \notin binned'
            BY <1>2, <2>2, <4>3 DEF Library!Offers, Library!Apply
          <5>2. ~Library!Under(d, filter)'
            BY <2>2, <5>1 DEF Library!Under
          <5> QED
            BY <2>6, <5>2
        <4> QED
          BY <2>7, <4>1, <4>2, <4>3 DEF Library!Removes
      <3>3. ASSUME NEW x \in ToSet(Listing'), hasMore => Cardinality(Down(x)') <= libraryOffset
            PROVE  x \in ToSet(shown)
        <4>1. x # d /\ x \in ToSet(Listing) \ {d}
          BY <2>5, <3>2
        <4>2. d \notin Down(x)'
          BY <3>2 DEF Down, Upto, ToSet
        <4>3. Down(x)' = Down(x) \ {d}
          BY <2>5, <4>1, <4>2
        <4> QED
          BY <3>1, <3>3, <4>1, <4>3 DEF CoversBut
      <3> QED
        BY <1>1, <3>3 DEF Covers, ToSet
    <2>8. CASE ~Library!Removes(kind)
      <3>1. Covers /\ d \in ToSet(shown)
        BY <1>0, <1>1, <1>2, <2>1, <2>8 DEF LibraryCovers, kind
      <3>2. kind # "purge" /\ d \in ToSet(order')
        BY <2>2, <2>3, <2>8 DEF Library!Removes
      <3>3. d \in ToSet(Listing) => d \in ToSet(Listing')
        <4>1. ToSet(Listing) = {x \in ToSet(order) : Library!Under(x, filter)}
          BY <1>0, ListingIs
        <4>2. filter \in {"library", "starred"} /\ kind \in {"star", "unstar", "rename"}
          BY <1>0, <1>2, <1>3, <2>8
             DEF Library!Offers, Library!Removes, Library!Kinds, Library!Filters, LibraryTypes
        <4>3. binned' = binned
          BY <2>2, <4>2 DEF Library!Apply
        <4>4. kind # "unstar" => (d \in starred => d \in starred')
          BY <2>2, <4>2 DEF Library!Apply
        <4>5. Library!Under(d, filter) => Library!Under(d, filter)'
          BY <2>2, <4>2, <4>3, <4>4 DEF Library!Under
        <4> QED
          BY <2>6, <3>2, <4>1, <4>5
      <3>4. ASSUME NEW e \in ToSet(Listing'), hasMore => Cardinality(Down(e)') <= libraryOffset
            PROVE  e \in ToSet(shown)
        <4>1. CASE e = d
          BY <3>1, <4>1
        <4>2. CASE e # d
          <5>1. e \in ToSet(Listing) /\ e \in ToSet(Listing) \ {d}
            BY <2>5, <4>2
          <5>2. d \in Down(e) => d \in Down(e)'
            <6>1. d \in Down(e) => d \in ToSet(Listing')
              BY <3>3 DEF Down, Upto
            <6>2. e \in ToSet(order')
              BY <2>6
            <6>3. Ahead(order', d, e)
              BY <2>3, <3>2, <6>2
            <6>4. (\A x, y \in ToSet(Listing) : y \in Down(x) <=> Ahead(order, y, x))'
              BY <1>7, ListingIs, PTL
            <6>5. d \in ToSet(Listing') => (d \in Down(e)' <=> Ahead(order', d, e))
              BY <6>4 DEF Ahead, ToSet, Down, Upto
            <6> QED
              BY <6>1, <6>3, <6>5
          <5>3. Down(e) \subseteq Down(e)'
            BY <2>5, <5>1, <5>2
          <5>4. IsFiniteSet(Down(e)') /\ Cardinality(Down(e)') \in Nat
            <6>1. (\A x \in ToSet(Listing) : /\ IsFiniteSet(Down(x)) /\ x \in Down(x)
                                             /\ Cardinality(Down(x)) \in 1..Len(Listing))'
              BY <1>7, ListingIs, PTL
            <6>2. IsFiniteSet(Down(e)')
              BY <6>1 DEF ToSet, Down, Upto, Ahead
            <6> QED
              BY <6>2, FS_CardinalityType
          <5>5. Cardinality(Down(e)) \in Nat /\ Cardinality(Down(e)) <= Cardinality(Down(e)')
            BY ONLY <5>3, <5>4, FS_Subset, FS_CardinalityType
          <5>6. hasMore => Cardinality(Down(e)) <= libraryOffset
            <6>1. libraryOffset \in Nat
              BY <1>0 DEF LibraryTypes
            <6> QED
              BY <3>4, <5>4, <5>5, <6>1
          <5> QED
            BY <3>1, <5>1, <5>6 DEF Covers
        <4> QED
          BY <4>1, <4>2
      <3> QED
        BY <1>1, <3>4 DEF Covers, ToSet
    <2> QED
      BY <2>7, <2>8
  <1> QED
    BY <1>7, <1>8, <1>9 DEF LibraryInv


LEMMA LibraryStep == LibraryInv /\ LibraryMoves => LibraryInv'
  <1> SUFFICES ASSUME LibraryInv, LibraryMoves PROVE LibraryInv'
    OBVIOUS
  <1>1. Library!Next /\ Library!OneAtATime
    BY DEF LibraryMoves
  <1>2. ASSUME NEW f \in Library!Filters, Library!SetFilter(f) PROVE LibraryInv'
    BY <1>1, <1>2, LibrarySetFilter
  <1>3. CASE \/ Library!LoadServed \/ Library!LoadAnswer \/ Library!LoadFails
             \/ \E bad \in BOOLEAN : Library!StaleAnswer(bad)
    BY <1>1, <1>3, LibraryAnswers
  <1>4. CASE Library!LoadMore \/ Library!MoreServed \/ Library!MoreAnswer \/ Library!MoreFails
    BY <1>1, <1>4, LibraryMore
  <1>5. ASSUME NEW d \in LibraryDocs, NEW ok \in BOOLEAN, Library!ChangeServed(d, ok)
        PROVE  LibraryInv'
    BY <1>5, LibraryChangeServed
  <1>6. ASSUME NEW d \in LibraryDocs, NEW kind \in Library!Kinds, Library!Change(d, kind)
        PROVE  LibraryInv'
    BY <1>1, <1>6, LibraryChange
  <1>7. ASSUME NEW d \in LibraryDocs, Library!ChangeAnswer(d) PROVE LibraryInv'
    BY <1>7, LibraryChangeAnswer
  <1>8. ASSUME NEW d \in LibraryDocs,
               \/ Library!Upload(d) \/ Library!UploadServed(d)
               \/ Library!UploadAnswer(d) \/ Library!UploadFails(d)
        PROVE  LibraryInv'
    BY <1>1, <1>8, LibraryUploads
  <1> HIDE DEF LibraryInv, LibraryMoves
  <1> QED
    BY <1>1, <1>2, <1>3, <1>4, <1>5, <1>6, <1>7, <1>8 DEF Library!Next

LEMMA LibraryListsAreTrue ==
  LibraryInv => Library!TypeOK /\ Library!NoRowTwice /\ Library!NothingSkipped
  <1> SUFFICES ASSUME LibraryInv
               PROVE  Library!TypeOK /\ Library!NoRowTwice /\ Library!NothingSkipped
    OBVIOUS
  <1>0. LibraryTypes /\ LibraryFlow /\ LibraryCovers
    BY DEF LibraryInv
  <1>1. Library!TypeOK
    <2>1. {hasMore, loading, stale, answered} \subseteq BOOLEAN
      BY <1>0 DEF LibraryTypes
    <2> QED
      BY <1>0, <2>1, LibraryListsAre DEF LibraryTypes, Library!TypeOK
  <1>2. Library!NoRowTwice
    BY <1>0 DEF LibraryTypes, IsInjective, Library!NoRowTwice
  <1>3. Library!NothingSkipped
    <2> SUFFICES ASSUME Library!Settled
                 PROVE  ToSet(IF hasMore THEN Library!Rows(filter, 0, libraryOffset) ELSE Listing)
                          \subseteq ToSet(shown)
      BY LibraryListsAre DEF Library!NothingSkipped, Listing
    <2>1. answered /\ Writing = {} /\ Quiet
      BY ChangingIs DEF Library!Settled, Quiet
    <2>2. Covers
      BY <1>0, <2>1 DEF LibraryCovers
    <2>3. CASE hasMore
      <3>1. libraryOffset \in Nat /\ 0 \in Nat /\ 0 <= libraryOffset
        BY <1>0 DEF LibraryTypes
      <3>2. ToSet(Library!Rows(filter, 0, libraryOffset)) =
               {x \in ToSet(Listing) : /\ 0 < Cardinality(Down(x))
                                       /\ Cardinality(Down(x)) <= libraryOffset}
        BY ONLY <1>0, <3>1, RowsAre
      <3> QED
        BY <2>2, <2>3, <3>2 DEF Covers
    <2>4. CASE ~hasMore
      BY <2>2, <2>4 DEF Covers
    <2> QED
      BY <2>3, <2>4
  <1> QED
    BY <1>1, <1>2, <1>3

LEMMA LibraryStays == LibraryInv /\ UNCHANGED libraryVars => LibraryInv'
  <1> SUFFICES ASSUME LibraryInv, UNCHANGED libraryVars PROVE LibraryInv'
    OBVIOUS
  <1>1. /\ Listing' = Listing /\ \A d, k : Library!Offers(d, k)' <=> Library!Offers(d, k)
        /\ \A from, to : Library!Rows(filter, from, to)' = Library!Rows(filter, from, to)
    BY DEF libraryVars, Listing, Library!Listed, Library!Under, Library!Offers, Library!Rows
  <1>2. /\ Quiet' = Quiet /\ Writing' = Writing /\ (Covers' <=> Covers)
        /\ \A d : CoversBut(d)' <=> CoversBut(d)
        /\ \A w, from : IsRead(w, from)' <=> IsRead(w, from)
    BY <1>1 DEF libraryVars, Quiet, Writing, Covers, CoversBut, IsRead, Down
  <1>3. LibraryTypes'
    BY DEF libraryVars, LibraryInv, LibraryTypes
  <1>4. LibraryFlow'
    BY <1>1, <1>2 DEF libraryVars, LibraryInv, LibraryFlow
  <1>5. LibraryCovers'
    BY <1>1, <1>2 DEF libraryVars, LibraryInv, LibraryCovers
  <1> QED
    BY <1>3, <1>4, <1>5 DEF LibraryInv

-----------------------------------------------------------------------------
(* The tool's page.                                                        *)

\* A list that rises is its own places in order.
LEMMA RisingIs ==
  ASSUME NEW s \in Seq(Int), \A k, l \in 1..Len(s) : k < l => s[k] < s[l]
  PROVE  InOrder(ToSet(s)) = s /\ Cardinality(ToSet(s)) = Len(s) /\ IsFiniteSet(ToSet(s))
  <1>1. Len(s) \in Nat /\ DOMAIN s = 1..Len(s) /\ \A k \in 1..Len(s) : s[k] \in Int
    OBVIOUS
  <1>2. \A k, l \in 1..Len(s) : s[k] <= s[l] <=> k <= l
    BY <1>1
  <1>3. IsInjective(s)
    <2> SUFFICES ASSUME NEW k \in 1..Len(s), NEW l \in 1..Len(s), s[k] = s[l] PROVE k = l
      BY <1>1 DEF IsInjective
    <2>1. k <= l /\ l <= k
      BY <1>1, <1>2
    <2> QED
      BY <2>1
  <1>4. /\ \A k \in 1..Len(s) : /\ s[k] \in ToSet(s) /\ Cardinality(Upto(s, s[k])) = k
        /\ \A x \in ToSet(s) : \E k \in 1..Len(s) : s[k] = x
    BY <1>3, UptoIs
  <1>5. \A k \in 1..Len(s) : {x \in ToSet(s) : x <= s[k]} = Upto(s, s[k])
    <2> SUFFICES ASSUME NEW k \in 1..Len(s), NEW x \in ToSet(s)
                 PROVE  x <= s[k] <=> Ahead(s, x, s[k])
      BY DEF Upto
    <2>1. PICK j \in 1..Len(s) : s[j] = x
      BY <1>4
    <2>2. Ahead(s, x, s[k]) <=> j <= k
      BY <1>1, <1>3, <2>1 DEF Ahead, IsInjective
    <2> QED
      BY <1>2, <2>1, <2>2
  <1>6. \A k \in 1..Len(s) : Nth(ToSet(s), k) = s[k]
    <2> SUFFICES ASSUME NEW k \in 1..Len(s) PROVE Nth(ToSet(s), k) = s[k]
      OBVIOUS
    <2>1. s[k] \in ToSet(s) /\ Cardinality({x \in ToSet(s) : x <= s[k]}) = k
      BY <1>4, <1>5
    <2>2. ASSUME NEW y \in ToSet(s), Cardinality({x \in ToSet(s) : x <= y}) = k PROVE y = s[k]
      <3>1. PICK j \in 1..Len(s) : s[j] = y
        BY <1>4
      <3>2. Cardinality({x \in ToSet(s) : x <= y}) = j
        BY <1>4, <1>5, <3>1
      <3> QED
        BY <2>2, <3>1, <3>2
    <2> QED
      BY <2>1, <2>2 DEF Nth
  <1>7. IsFiniteSet(ToSet(s)) /\ Cardinality(ToSet(s)) = Len(s)
    <2>1. s \in Bijection(1..Len(s), ToSet(s))
      <3>1. s \in [1..Len(s) -> ToSet(s)]
        BY <1>1, <1>4
      <3> QED
        BY <1>3, <1>4, <3>1 DEF Bijection, Injection, Surjection
    <2>2. IsFiniteSet(1..Len(s)) /\ Cardinality(1..Len(s)) = Len(s)
      <3>1. PICK n \in Nat : n = Len(s)
        BY <1>1
      <3>2. IsFiniteSet(1..n) /\ Cardinality(1..n) = n
        BY ONLY FS_Interval, n \in Nat
      <3> QED
        BY <3>1, <3>2
    <2> QED
      BY ONLY <2>1, <2>2, FS_Bijection DEF ExistsBijection
  <1>8. InOrder(ToSet(s)) = [k \in 1..Len(s) |-> s[k]]
    BY <1>6, <1>7 DEF InOrder
  <1> QED
    BY <1>1, <1>7, <1>8

\* One or two parts, one after the other.
LEMMA FlattenIs ==
  ASSUME NEW S, NEW s \in Seq(Seq(S))
  PROVE  /\ Len(s) = 0 => FlattenSeq(s) = <<>>
         /\ Len(s) = 1 => FlattenSeq(s) = s[1]
         /\ Len(s) = 2 => FlattenSeq(s) = s[1] \o s[2]
  <1>1. CASE Len(s) = 0
    <2>1. s = <<>>
      BY <1>1
    <2> QED
      BY <1>1, <2>1 DEF FlattenSeq
  <1>2. CASE Len(s) = 1
    <2> DEFINE eq(f) == f = [i \in 1..1 |-> IF i = 1 THEN s[i] ELSE f[i - 1] \o s[i]]
               flatten == CHOOSE f : eq(f)
    <2>1. eq([i \in 1..1 |-> s[1]])
      OBVIOUS
    <2>2. eq(flatten)
      BY <2>1
    <2>3. FlattenSeq(s) = flatten[1]
      BY <1>2 DEF FlattenSeq
    <2> HIDE DEF flatten
    <2>4. flatten[1] = s[1]
      BY <2>2
    <2> QED
      BY <1>2, <2>3, <2>4
  <1>3. CASE Len(s) = 2
    <2> DEFINE eq(f) == f = [i \in 1..2 |-> IF i = 1 THEN s[i] ELSE f[i - 1] \o s[i]]
               flatten == CHOOSE f : eq(f)
    <2>1. eq([i \in 1..2 |-> IF i = 1 THEN s[1] ELSE s[1] \o s[2]])
      OBVIOUS
    <2>2. eq(flatten)
      BY <2>1
    <2>3. FlattenSeq(s) = flatten[2]
      BY <1>3 DEF FlattenSeq
    <2> HIDE DEF flatten
    <2>4. flatten[1] = s[1] /\ flatten[2] = flatten[1] \o s[2]
      <3>1. 1 \in 1..2 /\ 2 \in 1..2 /\ 2 # 1 /\ 2 - 1 = 1
        OBVIOUS
      <3> QED
        BY <2>2, <3>1
    <2> QED
      BY <1>3, <2>3, <2>4
  <1> QED
    BY <1>1, <1>2, <1>3


\* The module's own copies of the operators on lists.
LEMMA ToolListsAre ==
  /\ \A s : Tool!ToSet(s) = ToSet(s) /\ Tool!FlattenSeq(s) = FlattenSeq(s)
  /\ \A S : Tool!InOrder(S) = InOrder(S)
  /\ \A f : Tool!IsInjective(f) <=> IsInjective(f)
  /\ \A s, i : Tool!RemoveAt(s, i) = RemoveAt(s, i)
  <1>1. \A S : Tool!Cardinality(S) = Cardinality(S)
    BY DEF Tool!Cardinality, Cardinality, Tool!IsFiniteSet, IsFiniteSet
  <1>2. \A S, k : Tool!Nth(S, k) = Nth(S, k)
    BY <1>1 DEF Tool!Nth, Nth
  <1>3. \A S : Tool!InOrder(S) = InOrder(S)
    BY <1>1, <1>2 DEF Tool!InOrder, InOrder
  <1>4. \A s : Tool!FlattenSeq(s) = FlattenSeq(s)
    BY DEF Tool!FlattenSeq, FlattenSeq
  <1> QED
    BY <1>3, <1>4 DEF Tool!ToSet, ToSet, Tool!IsInjective, IsInjective, Tool!RemoveAt, RemoveAt

Numbers == Nat \ {0}

\* A range is its pages, each after the one before.
LEMMA SpreadIs ==
  ASSUME NEW a \in Numbers, NEW b \in Numbers, a <= b
  PROVE  LET s == Tool!Spread(<<a, b>>)
         IN  /\ s \in Seq(Numbers) /\ Len(s) = b - a + 1 /\ ToSet(s) = a..b
             /\ \A k, l \in 1..Len(s) : k < l => s[k] < s[l]
             /\ InOrder(a..b) = s /\ Cardinality(a..b) = b - a + 1
  <1> DEFINE s == Tool!Spread(<<a, b>>)
  <1>1. a \in Nat /\ b \in Nat /\ a >= 1 /\ b - a + 1 \in Nat
    BY DEF Numbers
  <1>2. s = [i \in 1..(b - a + 1) |-> a + i - 1]
    BY DEF Tool!Spread
  <1> HIDE DEF s
  <1>3. \A i \in 1..(b - a + 1) : a + i - 1 \in Numbers /\ a + i - 1 \in a..b
    BY <1>1 DEF Numbers
  <1>4. s \in Seq(Numbers) /\ Len(s) = b - a + 1
    <2>1. s \in [1..(b - a + 1) -> Numbers]
      BY <1>2, <1>3
    <2> QED
      BY <1>1, <2>1
  <1>5. \A k, l \in 1..Len(s) : k < l => s[k] < s[l]
    BY <1>1, <1>2, <1>4
  <1>6. ToSet(s) = a..b
    <2>1. ASSUME NEW x \in a..b PROVE \E i \in 1..(b - a + 1) : a + i - 1 = x
      <3>1. x - a + 1 \in 1..(b - a + 1) /\ a + (x - a + 1) - 1 = x
        BY <1>1
      <3> QED
        BY <3>1
    <2> QED
      BY <1>2, <1>3, <2>1 DEF ToSet
  <1>7. s \in Seq(Int)
    BY <1>4 DEF Numbers
  <1>8. InOrder(ToSet(s)) = s /\ Cardinality(ToSet(s)) = Len(s)
    BY <1>5, <1>7, RisingIs
  <1> QED
    BY <1>4, <1>5, <1>6, <1>8 DEF s

\* What is typed selects the pages of its ranges, one range after the other.
LEMMA SelectionIs ==
  ASSUME NEW a \in Numbers, NEW b \in Numbers, a <= b
  PROVE  /\ Tool!Selection(<<<<a, b>>>>) = [pages |-> Tool!Spread(<<a, b>>), error |-> FALSE]
         /\ \A c \in Numbers :
               Tool!Selection(<<<<c, c>>, <<a, b>>>>)
                 = [pages |-> Tool!Spread(<<c, c>>) \o Tool!Spread(<<a, b>>), error |-> FALSE]
  <1>1. a >= 1 /\ b >= a
    BY DEF Numbers
  <1>2. Tool!Spread(<<a, b>>) \in Seq(Numbers)
    BY SpreadIs
  <1>3. Tool!Selection(<<<<a, b>>>>) = [pages |-> Tool!Spread(<<a, b>>), error |-> FALSE]
    <2> DEFINE t == <<<<a, b>>>>
               s == [i \in DOMAIN t |-> Tool!Spread(t[i])]
    <2>1. \A i \in DOMAIN t : t[i][1] >= 1 /\ t[i][2] >= t[i][1]
      BY <1>1
    <2>2. Tool!Selection(t) = [pages |-> FlattenSeq(s), error |-> FALSE]
      BY <2>1, ToolListsAre DEF Tool!Selection
    <2>3. s = <<Tool!Spread(<<a, b>>)>>
      OBVIOUS
    <2> HIDE DEF s
    <2>4. s \in Seq(Seq(Numbers)) /\ Len(s) = 1 /\ s[1] = Tool!Spread(<<a, b>>)
      BY <1>2, <2>3
    <2>5. FlattenSeq(s) = s[1]
      BY <2>4, FlattenIs
    <2> QED
      BY <2>2, <2>4, <2>5
  <1>4. ASSUME NEW c \in Numbers
        PROVE  Tool!Selection(<<<<c, c>>, <<a, b>>>>)
                 = [pages |-> Tool!Spread(<<c, c>>) \o Tool!Spread(<<a, b>>), error |-> FALSE]
    <2> DEFINE t == <<<<c, c>>, <<a, b>>>>
               s == [i \in DOMAIN t |-> Tool!Spread(t[i])]
    <2>0. c >= 1 /\ c <= c
      BY DEF Numbers
    <2>1. \A i \in DOMAIN t : t[i][1] >= 1 /\ t[i][2] >= t[i][1]
      <3>1. DOMAIN t = 1..2 /\ t[1] = <<c, c>> /\ t[2] = <<a, b>>
        OBVIOUS
      <3>2. ASSUME NEW i \in DOMAIN t PROVE i = 1 \/ i = 2
        BY <3>1
      <3> QED
        BY <1>1, <2>0, <3>1, <3>2
    <2>2. Tool!Selection(t) = [pages |-> FlattenSeq(s), error |-> FALSE]
      BY <2>1, ToolListsAre DEF Tool!Selection
    <2>3. s = <<Tool!Spread(<<c, c>>), Tool!Spread(<<a, b>>)>>
      OBVIOUS
    <2>a. Tool!Spread(<<c, c>>) \in Seq(Numbers)
      BY <2>0, SpreadIs
    <2> HIDE DEF s
    <2>4. /\ s \in Seq(Seq(Numbers)) /\ Len(s) = 2
          /\ s[1] = Tool!Spread(<<c, c>>) /\ s[2] = Tool!Spread(<<a, b>>)
      BY <1>2, <2>3, <2>a
    <2>5. FlattenSeq(s) = s[1] \o s[2]
      BY <2>4, FlattenIs
    <2> QED
      BY <2>2, <2>4, <2>5
  <1> QED
    BY <1>3, <1>4


LEMMA ToolConstants == {MaxPicked, MaxRuns, ToolPages} \subseteq Numbers
  BY SiteAssumption DEF Tool!Assumptions, Numbers

\* The pages chosen: none, a range, or the first and one that does not follow it.
IsRange(P, a, b) == a \in Numbers /\ b \in Numbers /\ a <= b /\ P = a..b
IsApart(P, n)    == n \in Numbers /\ n >= 3 /\ P = {1, n}
Chosen(w) == /\ w \in Seq(Numbers)
             /\ w = <<>> \/ \E a, b : IsRange(ToSet(w), a, b) \/ \E n : IsApart(ToSet(w), n)

LEMMA ChosenIs ==
  ASSUME NEW t \in Tool!Typings
  PROVE  Chosen(Tool!Selection(t).pages)
  <1> DEFINE w == Tool!Selection(t).pages
  <1>0. ToolPages \in Numbers /\ ToolPages + 1 \in Numbers /\ 1 \in Numbers /\ 2 \in Numbers
    BY ToolConstants DEF Numbers
  \* A part that is refused selects nothing.
  <1>1. ASSUME NEW i \in DOMAIN t, ~(t[i][1] >= 1 /\ t[i][2] >= t[i][1]) PROVE Chosen(w)
    <2>1. w = <<>>
      BY <1>1 DEF Tool!Selection
    <2> HIDE DEF w
    <2> QED
      BY <2>1 DEF Chosen
  <1>2. ASSUME NEW a \in Numbers, NEW b \in Numbers, a <= b, t = <<<<a, b>>>> PROVE Chosen(w)
    <2>1. w = Tool!Spread(<<a, b>>)
      <3>1. Tool!Selection(<<<<a, b>>>>) = [pages |-> Tool!Spread(<<a, b>>), error |-> FALSE]
        BY ONLY <1>2, SelectionIs
      <3> QED
        BY <1>2, <3>1
    <2> HIDE DEF w
    <2>2. w \in Seq(Numbers) /\ ToSet(w) = a..b
      BY <1>2, <2>1, SpreadIs
    <2> QED
      BY <1>2, <2>2 DEF Chosen, IsRange
  <1>3. ASSUME NEW a \in Numbers, NEW b \in Numbers, a <= b, t = <<<<1, 1>>, <<a, b>>>>,
               a <= 2 \/ a = b
        PROVE  Chosen(w)
    <2>1. w = Tool!Spread(<<1, 1>>) \o Tool!Spread(<<a, b>>)
      <3>1. Tool!Selection(<<<<1, 1>>, <<a, b>>>>)
              = [pages |-> Tool!Spread(<<1, 1>>) \o Tool!Spread(<<a, b>>), error |-> FALSE]
        BY ONLY <1>0, <1>3, SelectionIs
      <3>2. \A u, p : Tool!Selection(u) = [pages |-> p, error |-> FALSE]
                      => Tool!Selection(u).pages = p
        BY ONLY TRUE
      <3>3. \A p : Tool!Selection(<<<<1, 1>>, <<a, b>>>>) = [pages |-> p, error |-> FALSE]
                   => Tool!Selection(t).pages = p
        BY ONLY <3>2, <1>3
      <3> QED
        BY ONLY <3>1, <3>3
    <2>2. /\ Tool!Spread(<<1, 1>>) \in Seq(Numbers) /\ ToSet(Tool!Spread(<<1, 1>>)) = 1..1
          /\ Tool!Spread(<<a, b>>) \in Seq(Numbers) /\ ToSet(Tool!Spread(<<a, b>>)) = a..b
      BY <1>0, <1>3, SpreadIs
    <2> HIDE DEF w
    <2>3. w \in Seq(Numbers) /\ ToSet(w) = 1..1 \cup a..b
      <3> DEFINE p == Tool!Spread(<<1, 1>>)
                 q == Tool!Spread(<<a, b>>)
      <3>1. p \in Seq(Numbers) /\ q \in Seq(Numbers) /\ w = p \o q
        BY <2>1, <2>2
      <3> HIDE DEF p, q
      <3>2. /\ w \in Seq(Numbers) /\ Len(w) = Len(p) + Len(q)
            /\ \A j \in 1..Len(p) : w[j] = p[j]
            /\ \A j \in 1..Len(q) : w[Len(p) + j] = q[j]
        BY <3>1, ConcatIs
      <3>3. ToSet(w) = ToSet(p) \cup ToSet(q)
        <4>0. /\ DOMAIN p = 1..Len(p) /\ DOMAIN q = 1..Len(q) /\ DOMAIN w = 1..Len(w)
              /\ Len(p) \in Nat /\ Len(q) \in Nat
          BY <3>1, <3>2
        <4>1. /\ \A j \in DOMAIN p : j \in DOMAIN w /\ w[j] = p[j]
              /\ \A j \in DOMAIN q : Len(p) + j \in DOMAIN w /\ w[Len(p) + j] = q[j]
          BY <3>2, <4>0
        <4>2. \A i \in DOMAIN w :
                i \in DOMAIN p \/ (i - Len(p) \in DOMAIN q /\ Len(p) + (i - Len(p)) = i)
          BY <3>2, <4>0
        <4>3. ASSUME NEW x \in ToSet(w) PROVE x \in ToSet(p) \cup ToSet(q)
          <5>1. PICK i \in DOMAIN w : w[i] = x
            BY DEF ToSet
          <5>2. CASE i \in DOMAIN p
            BY <4>1, <5>1, <5>2 DEF ToSet
          <5>3. CASE i - Len(p) \in DOMAIN q /\ Len(p) + (i - Len(p)) = i
            BY <4>1, <5>1, <5>3 DEF ToSet
          <5> QED
            BY <4>2, <5>1, <5>2, <5>3
        <4>4. ASSUME NEW x \in ToSet(p) \cup ToSet(q) PROVE x \in ToSet(w)
          BY <4>1 DEF ToSet
        <4> QED
          BY <4>3, <4>4
      <3> QED
        BY <2>2, <3>2, <3>3 DEF p, q
    <2>4. CASE a <= 2
      <3>1. 1..1 \cup a..b = 1..b
        BY <1>3, <2>4 DEF Numbers
      <3>2. 1 <= b
        BY DEF Numbers
      <3> QED
        BY <1>0, <2>3, <3>1, <3>2 DEF Chosen, IsRange
    <2>5. CASE ~(a <= 2)
      <3>1. a = b /\ a >= 3 /\ 1..1 \cup a..b = {1, a}
        BY <1>3, <2>5 DEF Numbers
      <3> QED
        BY <2>3, <3>1 DEF Chosen, IsApart
    <2> QED
      BY <2>4, <2>5
  <1> HIDE DEF w
  <1>4. ASSUME NEW p \in Tool!Parts, t = <<p>> \/ t = <<<<1, 1>>, p>> PROVE Chosen(w)
    <2>0. ToolPages \in Nat /\ ToolPages >= 1
      BY <1>0 DEF Numbers
    <2>1. /\ \E i \in DOMAIN t : t[i] = p
          /\ p[1] \in Nat /\ p[2] \in Nat /\ p = <<p[1], p[2]>>
          /\ p[1] <= 2 \/ p[1] = p[2] \/ p[2] < p[1]
      <3>1. \E i \in DOMAIN t : t[i] = p
        <4>1. CASE t = <<p>>
          BY <4>1
        <4>2. CASE t = <<<<1, 1>>, p>>
          <5>1. 2 \in DOMAIN t /\ t[2] = p
            BY <4>2
          <5> QED
            BY <5>1
        <4> QED
          BY <1>4, <4>1, <4>2
      <3>2. /\ p[1] \in Nat /\ p[2] \in Nat /\ p = <<p[1], p[2]>>
            /\ p[1] <= 2 \/ p[1] = p[2] \/ p[2] < p[1]
        BY <2>0 DEF Tool!Parts
      <3> QED
        BY <3>1, <3>2
    <2>2. CASE p[1] >= 1 /\ p[2] >= p[1]
      <3>1. p[1] \in Numbers /\ p[2] \in Numbers /\ p[1] <= p[2] /\ (p[1] <= 2 \/ p[1] = p[2])
        BY <2>1, <2>2 DEF Numbers
      <3> QED
        BY <1>2, <1>3, <1>4, <2>1, <3>1
    <2>3. CASE ~(p[1] >= 1 /\ p[2] >= p[1])
      BY <1>1, <2>1, <2>3
    <2> QED
      BY <2>2, <2>3
  <1>5. CASE t = <<>>
    <2>1. w = <<>>
      <3>1. [i \in DOMAIN t |-> Tool!Spread(t[i])] = <<>>
        BY <1>5
      <3>2. w = FlattenSeq(<<>>)
        BY <1>5, <3>1, ToolListsAre DEF Tool!Selection, w
      <3>3. <<>> \in Seq(Seq(Numbers)) /\ Len(<<>>) = 0
        OBVIOUS
      <3>4. FlattenSeq(<<>>) = <<>>
        BY ONLY <3>3, FlattenIs
      <3> QED
        BY <3>2, <3>4
    <2>2. <<>> \in Seq(Numbers)
      OBVIOUS
    <2> QED
      BY <2>1, <2>2 DEF Chosen, w
  <1> QED
    BY <1>4, <1>5 DEF Tool!Typings, w


\* Each page once, and the ranges the summary lists.
LEMMA FormatIs ==
  ASSUME NEW w, Chosen(w)
  PROVE  /\ Tool!Selection(Tool!Format(w)).pages = Tool!Unique(w)
         /\ Tool!Unique(w) \in Seq(Numbers) /\ IsInjective(Tool!Unique(w))
         /\ ToSet(Tool!Unique(w)) = ToSet(w)
  <1> DEFINE P == Tool!ToSet(w)
             first == {a \in P : a - 1 \notin P}
             starts == Tool!InOrder(first)
             last(a) == CHOOSE b \in P : /\ b >= a /\ b + 1 \notin P /\ a..b \subseteq P
  <1>0. /\ Tool!Format(w) = [i \in DOMAIN starts |-> <<starts[i], last(starts[i])>>]
        /\ Tool!Unique(w) = Tool!InOrder(P)
    BY DEF Tool!Format, Tool!Unique
  <1>a. P = ToSet(w) /\ starts = InOrder(first) /\ Tool!InOrder(P) = InOrder(P)
    BY ToolListsAre
  <1>1. CASE w = <<>>
    <2>1. P = {} /\ first = {}
      BY <1>1, <1>a DEF ToSet
    <2>3. InOrder({}) = <<>>
      <3> DEFINE e == <<>>
      <3>1. e \in Seq(Int) /\ ToSet(e) = {} /\ Len(e) = 0
        BY DEF ToSet
      <3> HIDE DEF e
      <3>2. \A k, l \in 1..Len(e) : k < l => e[k] < e[l]
        BY <3>1
      <3>3. InOrder(ToSet(e)) = e
        BY ONLY <3>1, <3>2, RisingIs
      <3> QED
        BY <3>1, <3>3 DEF e
    <2>4. Tool!Format(w) = <<>> /\ Tool!Unique(w) = <<>>
      <3>1. starts = <<>> /\ Tool!InOrder(P) = <<>>
        BY <1>a, <2>1, <2>3
      <3> HIDE DEF starts, P, last
      <3> QED
        BY <1>0, <3>1
    <2>5. Tool!Selection(<<>>).pages = <<>>
      <3>1. Tool!Selection(<<>>).pages = FlattenSeq([i \in DOMAIN <<>> |-> Tool!Spread(<<>>[i])])
        BY ToolListsAre DEF Tool!Selection
      <3>2. [i \in DOMAIN <<>> |-> Tool!Spread(<<>>[i])] = <<>>
        OBVIOUS
      <3>3. <<>> \in Seq(Seq(Numbers)) /\ Len(<<>>) = 0
        OBVIOUS
      <3>4. FlattenSeq(<<>>) = <<>>
        BY ONLY <3>3, FlattenIs
      <3> QED
        BY <3>1, <3>2, <3>4
    <2>6. <<>> \in Seq(Numbers) /\ IsInjective(<<>>) /\ ToSet(<<>>) = ToSet(w)
      BY <1>1 DEF IsInjective
    <2> QED
      BY <2>4, <2>5, <2>6
  <1>2. ASSUME NEW a, NEW b, IsRange(P, a, b)
        PROVE  /\ Tool!Selection(Tool!Format(w)).pages = Tool!Unique(w)
               /\ Tool!Unique(w) \in Seq(Numbers) /\ IsInjective(Tool!Unique(w))
               /\ ToSet(Tool!Unique(w)) = ToSet(w)
    <2>1. a \in Numbers /\ b \in Numbers /\ a <= b /\ P = a..b /\ a \in Int /\ b \in Int
      BY <1>2 DEF IsRange, Numbers
    <2> HIDE DEF P
    <2>2. first = a..a
      BY <2>1
    <2>3. last(a) = b
      BY <2>1
    <2>4. starts = <<a>>
      <3>0. a <= a
        BY <2>1
      <3>1. InOrder(a..a) = Tool!Spread(<<a, a>>)
        BY ONLY <2>1, <3>0, SpreadIs
      <3>2. Tool!Spread(<<a, a>>) = <<a>>
        <4>1. Tool!Spread(<<a, a>>) = [i \in 1..(a - a + 1) |-> a + i - 1]
          BY DEF Tool!Spread
        <4>2. a - a + 1 = 1 /\ \A i \in 1..1 : a + i - 1 = a
          BY <2>1
        <4>3. [i \in 1..(a - a + 1) |-> a + i - 1] = [i \in 1..1 |-> a]
          BY <4>2
        <4>4. [i \in 1..1 |-> a] = <<a>>
          OBVIOUS
        <4> QED
          BY ONLY <4>1, <4>3, <4>4
      <3> QED
        BY <1>a, <2>2, <3>1, <3>2
    <2>5. Tool!Format(w) = <<<<a, b>>>>
      <3> HIDE DEF starts, last
      <3>1. DOMAIN starts = 1..1 /\ starts[1] = a
        BY <2>4
      <3> QED
        BY <1>0, <2>3, <3>1
    <2>6. Tool!Selection(<<<<a, b>>>>) = [pages |-> Tool!Spread(<<a, b>>), error |-> FALSE]
      BY ONLY <2>1, SelectionIs
    <2>7. /\ Tool!Spread(<<a, b>>) \in Seq(Numbers) /\ ToSet(Tool!Spread(<<a, b>>)) = P
          /\ InOrder(P) = Tool!Spread(<<a, b>>)
          /\ \A k, l \in 1..Len(Tool!Spread(<<a, b>>)) :
                k < l => Tool!Spread(<<a, b>>)[k] < Tool!Spread(<<a, b>>)[l]
      BY ONLY <2>1, SpreadIs
    <2>8. IsInjective(Tool!Spread(<<a, b>>))
      <3> DEFINE s == Tool!Spread(<<a, b>>)
      <3>1. s \in Seq(Numbers) /\ \A k, l \in 1..Len(s) : k < l => s[k] < s[l]
        BY <2>7
      <3> HIDE DEF s
      <3>2. Len(s) \in Nat /\ DOMAIN s = 1..Len(s) /\ \A k \in 1..Len(s) : s[k] \in Int
        BY <3>1 DEF Numbers
      <3>3. ASSUME NEW k \in 1..Len(s), NEW l \in 1..Len(s), s[k] = s[l] PROVE k = l
        BY <3>1, <3>2, <3>3
      <3>4. IsInjective(s)
        BY <3>2, <3>3 DEF IsInjective
      <3> QED
        BY <3>4 DEF s
    <2>9. Tool!Unique(w) = Tool!Spread(<<a, b>>)
      BY <1>0, <1>a, <2>7
    <2>10. Tool!Selection(Tool!Format(w)).pages = Tool!Spread(<<a, b>>)
      BY ONLY <2>5, <2>6
    <2> QED
      BY <1>a, <2>7, <2>8, <2>9, <2>10
  <1>3. ASSUME NEW n, IsApart(P, n)
        PROVE  /\ Tool!Selection(Tool!Format(w)).pages = Tool!Unique(w)
               /\ Tool!Unique(w) \in Seq(Numbers) /\ IsInjective(Tool!Unique(w))
               /\ ToSet(Tool!Unique(w)) = ToSet(w)
    <2>1. n \in Numbers /\ 1 \in Numbers /\ n \in Nat /\ n >= 3 /\ P = {1, n}
      BY <1>3 DEF IsApart, Numbers
    <2> HIDE DEF P
    <2>2. first = {1, n}
      BY <2>1
    <2>3. last(1) = 1 /\ last(n) = n
      BY <2>1
    <2>4. /\ InOrder({1, n}) = <<1, n>> /\ <<1, n>> \in Seq(Numbers)
          /\ ToSet(<<1, n>>) = {1, n} /\ IsInjective(<<1, n>>)
      <3> DEFINE s == <<1, n>>
      <3>1. s \in Seq(Int) /\ s \in Seq(Numbers) /\ Len(s) = 2 /\ s[1] = 1 /\ s[2] = n
        BY <2>1
      <3> HIDE DEF s
      <3>2. \A k, l \in 1..Len(s) : k < l => k = 1 /\ l = 2
        BY <3>1
      <3>3. \A k, l \in 1..Len(s) : k < l => s[k] < s[l]
        BY <2>1, <3>1, <3>2
      <3>4. DOMAIN s = 1..2 /\ \A i \in 1..2 : i = 1 \/ i = 2
        BY <3>1
      <3>5. ToSet(s) = {1, n}
        <4>1. 1 \in 1..2 /\ 2 \in 1..2
          OBVIOUS
        <4> QED
          BY <3>1, <3>4, <4>1 DEF ToSet
      <3>6. InOrder(ToSet(s)) = s
        BY ONLY <3>1, <3>3, RisingIs
      <3>7. IsInjective(s)
        BY <2>1, <3>1, <3>4 DEF IsInjective
      <3> QED
        BY <3>1, <3>5, <3>6, <3>7 DEF s
    <2>5. Tool!Format(w) = <<<<1, 1>>, <<n, n>>>>
      <3> DEFINE s == <<1, n>>
      <3>1. starts = s
        BY <1>a, <2>2, <2>4
      <3> HIDE DEF starts, last
      <3>2. DOMAIN starts = 1..2 /\ starts[1] = 1 /\ starts[2] = n
        BY <3>1
      <3>3. \A i \in 1..2 : i = 1 \/ i = 2
        OBVIOUS
      <3>4. [i \in 1..2 |-> <<starts[i], last(starts[i])>>] = <<<<1, 1>>, <<n, n>>>>
        BY <2>3, <3>2, <3>3
      <3> QED
        BY <1>0, <3>2, <3>4
    <2>6. Tool!Selection(<<<<1, 1>>, <<n, n>>>>)
            = [pages |-> Tool!Spread(<<1, 1>>) \o Tool!Spread(<<n, n>>), error |-> FALSE]
      <3>1. n <= n
        BY <2>1
      <3> QED
        BY ONLY <2>1, <3>1, SelectionIs
    <2>7. \A c \in Numbers : Tool!Spread(<<c, c>>) = <<c>>
      <3> SUFFICES ASSUME NEW c \in Numbers PROVE Tool!Spread(<<c, c>>) = <<c>>
        OBVIOUS
      <3>1. Tool!Spread(<<c, c>>) = [i \in 1..(c - c + 1) |-> c + i - 1]
        BY DEF Tool!Spread
      <3>2. c - c + 1 = 1 /\ \A i \in 1..1 : c + i - 1 = c
        BY DEF Numbers
      <3>3. [i \in 1..(c - c + 1) |-> c + i - 1] = [i \in 1..1 |-> c]
        BY <3>2
      <3>4. [i \in 1..1 |-> c] = <<c>>
        OBVIOUS
      <3> QED
        BY ONLY <3>1, <3>3, <3>4
    <2>8. <<1>> \o <<n>> = <<1, n>>
      <3> DEFINE t == <<1>> \o <<n>>
      <3>1. /\ <<1>> \in Seq(Numbers) /\ <<n>> \in Seq(Numbers)
            /\ Len(<<1>>) = 1 /\ Len(<<n>>) = 1 /\ <<1>>[1] = 1 /\ <<n>>[1] = n
        BY <2>1
      <3>2. /\ t \in Seq(Numbers) /\ Len(t) = 2 /\ t[1] = 1 /\ t[1 + 1] = n
        BY <3>1, ConcatIs
      <3> HIDE DEF t
      <3>3. t = <<1, n>>
        BY <3>2
      <3> QED
        BY <3>3 DEF t
    <2>9. Tool!Unique(w) = <<1, n>>
      BY <1>0, <1>a, <2>1, <2>4
    <2>10. Tool!Selection(Tool!Format(w)).pages = <<1, n>>
      <3> DEFINE v == Tool!Spread(<<1, 1>>) \o Tool!Spread(<<n, n>>)
      <3>a. Tool!Selection(Tool!Format(w)) = [pages |-> v, error |-> FALSE]
        BY ONLY <2>5, <2>6
      <3> HIDE DEF v
      <3>b. Tool!Selection(Tool!Format(w)).pages = v
        BY ONLY <3>a
      <3>1. Tool!Selection(Tool!Format(w)).pages = Tool!Spread(<<1, 1>>) \o Tool!Spread(<<n, n>>)
        BY <3>b DEF v
      <3>2. Tool!Spread(<<1, 1>>) = <<1>> /\ Tool!Spread(<<n, n>>) = <<n>>
        BY ONLY <2>1, <2>7
      <3> QED
        BY ONLY <2>8, <3>1, <3>2
    <2> QED
      BY <1>a, <2>1, <2>4, <2>9, <2>10
  <1> QED
    BY <1>1, <1>2, <1>3, <1>a DEF Chosen


\* The pages an operation is given are pages of the file, and one that deletes leaves one.
PagesFit(params) ==
  /\ params \in Seq(Int) /\ ToSet(params) \subseteq 0..(ToolPages - 1)
  /\ tool = "delete" => IsInjective(params) /\ Len(params) < ToolPages

LEMMA ParamsFit ==
  ASSUME toolTyped \in Tool!Typings, tool \in Tool!Tools, ~Tool!Refuses
  PROVE  PagesFit(Tool!Params)
  <1> DEFINE w == Tool!Wanted
             u == Tool!Unique(w)
             less(s) == [i \in DOMAIN s |-> s[i] - 1]
  <1>1. ToolPages \in Nat /\ ToolPages >= 1
    BY ToolConstants DEF Numbers
  <1>2. Chosen(w)
    BY ChosenIs DEF Tool!Wanted
  <1>3. w \in Seq(Numbers)
    BY <1>2 DEF Chosen
  <1>4. u \in Seq(Numbers) /\ IsInjective(u) /\ ToSet(u) = ToSet(w)
    BY <1>2, FormatIs
  <1> HIDE DEF w, u
  <1>5. Tool!NeedsPages => /\ \A i \in DOMAIN w : ~(w[i] > ToolPages)
                           /\ tool = "delete" => ~(Len(u) >= ToolPages)
    BY DEF Tool!Refuses, Tool!Beyond, w, u
  \* The numbers printed on the pages are one more than their places.
  <1>6. ASSUME NEW s \in Seq(Numbers), \A i \in DOMAIN s : s[i] <= ToolPages
        PROVE  /\ less(s) \in Seq(Int) /\ ToSet(less(s)) \subseteq 0..(ToolPages - 1)
               /\ IsInjective(s) => IsInjective(less(s))
               /\ Len(less(s)) = Len(s)
    <2>1. /\ DOMAIN s = 1..Len(s) /\ Len(s) \in Nat
          /\ \A i \in DOMAIN s : s[i] \in Nat /\ s[i] >= 1 /\ s[i] - 1 \in 0..(ToolPages - 1)
      BY <1>1, <1>6 DEF Numbers
    <2>2. less(s) \in [1..Len(s) -> Int] /\ DOMAIN less(s) = DOMAIN s
      BY <2>1
    <2>3. less(s) \in Seq(Int) /\ Len(less(s)) = Len(s)
      BY <2>1, <2>2
    <2>4. ToSet(less(s)) \subseteq 0..(ToolPages - 1)
      BY <2>1 DEF ToSet
    <2>5. IsInjective(s) => IsInjective(less(s))
      <3> SUFFICES ASSUME IsInjective(s), NEW i \in DOMAIN s, NEW j \in DOMAIN s,
                          s[i] - 1 = s[j] - 1
                   PROVE  i = j
        BY <2>2 DEF IsInjective
      <3>1. s[i] = s[j]
        BY <2>1
      <3> QED
        BY <3>1 DEF IsInjective
    <2> QED
      BY <2>3, <2>4, <2>5
  <1>7. CASE tool = "delete"
    <2>1. Tool!Params = less(u)
      BY <1>7 DEF Tool!Params, w, u
    <2>2. \A i \in DOMAIN u : u[i] <= ToolPages
      <3> SUFFICES ASSUME NEW i \in DOMAIN u PROVE u[i] <= ToolPages
        OBVIOUS
      <3>1. u[i] \in ToSet(w)
        BY <1>4 DEF ToSet
      <3>2. PICK j \in DOMAIN w : w[j] = u[i]
        BY <3>1 DEF ToSet
      <3>3. w[j] \in Nat
        BY <1>3 DEF Numbers
      <3> QED
        BY <1>1, <1>5, <1>7, <3>2, <3>3 DEF Tool!NeedsPages
    <2>3. Len(u) < ToolPages
      <3>1. Len(u) \in Nat
        BY <1>4
      <3> QED
        BY <1>1, <1>5, <1>7, <3>1 DEF Tool!NeedsPages
    <2> HIDE DEF less
    <2> QED
      BY <1>4, <1>6, <2>1, <2>2, <2>3 DEF PagesFit
  <1>8. CASE tool = "extract"
    <2>1. Tool!Params = less(w)
      BY <1>8 DEF Tool!Params, w
    <2>2. \A i \in DOMAIN w : w[i] <= ToolPages
      BY <1>1, <1>3, <1>5, <1>8 DEF Tool!NeedsPages, Numbers
    <2> HIDE DEF less
    <2> QED
      BY <1>3, <1>6, <1>8, <2>1, <2>2 DEF PagesFit
  <1>9. CASE tool \notin {"delete", "extract"}
    <2>1. Tool!Params = <<>>
      BY <1>9 DEF Tool!Params
    <2> QED
      BY <1>9, <2>1 DEF PagesFit, ToSet
  <1> QED
    BY <1>7, <1>8, <1>9

-----------------------------------------------------------------------------
(* A run holds what its stage needs.  Where pages are asked for there is    *)
(* one file and at most one run under way, which the page is busy with; the *)
(* file is up when it is remembered, and is sent when it is not.            *)

Closures == [st : {"no", "session", "upload", "job", "fetch", "over", "left"},
             files : Seq(ToolFiles), up : Seq({"sent", "ok", "bad"}),
             docs : Seq([run : Nat, at : Nat]), params : Seq(Int),
             job : {"none", "going", "succeeded", "failed", "canceled"},
             made : Nat, got : SUBSET Nat]
InOrderGiven(r, q) ==
  tool \in {"merge", "watermark", "sign"} => q.docs = [i \in DOMAIN q.files |-> Tool!Doc(r, i)]
Sound(r, q) ==
  /\ q \in Closures
  /\ q.st \in {"no", "session"} => q.params = <<>>
  /\ q.st = "upload" => Len(q.up) = Len(q.files) /\ (Tool!NeedsPages => Len(q.files) = 1)
  /\ q.st \in {"job", "left"} => InOrderGiven(r, q)
  /\ q.st = "job" => PagesFit(q.params)
  /\ q.st = "fetch" => q.job = "succeeded" /\ Tool!Target(q) > 0
Active(q) == q.st \in {"session", "job", "fetch"} \/ (q.st = "upload" /\ q.up[1] = "sent")
ToolTypes ==
  /\ tool \in Tool!Tools /\ phase \in {"idle", "uploading", "running", "done", "error"}
  /\ picked \in Seq(ToolFiles) /\ toolTyped \in Tool!Typings /\ spare \in Nat
  /\ cached = None \/ cached \in [file : ToolFiles, doc : [run : Nat, at : Nat]]
  /\ DOMAIN run = Tool!Runs /\ \A r \in Tool!Runs : Sound(r, run[r])
  /\ ~Tool!NeedsPages => spare = 0
ToolPaged ==
  Tool!NeedsPages =>
    /\ Len(picked) <= 1 /\ spare = IF cached = None THEN 0 ELSE 1
    /\ cached # None /\ picked # <<>> => cached.file = picked[1]
    /\ \A r \in Tool!Runs :
          /\ Active(run[r]) => Tool!Busy /\ \A q \in Tool!Runs : Active(run[q]) => q = r
          /\ run[r].st = "session" => Len(picked) = 1
          /\ run[r].st = "upload" /\ run[r].up[1] = "sent" =>
                run[r].files = picked /\ cached = None
ToolInv == ToolTypes /\ ToolPaged /\ Tool!ResultsWhole

LEMMA ToolInit == Tool!Init => ToolInv
  <1> SUFFICES ASSUME Tool!Init PROVE ToolInv
    OBVIOUS
  <1>1. \A r \in Tool!Runs : run[r] = Tool!NoRun
    BY DEF Tool!Init
  <1>2. Tool!NoRun \in Closures /\ Tool!NoRun.st = "no" /\ Tool!NoRun.params = <<>>
    BY DEF Tool!NoRun, Closures
  <1>3. \A r \in Tool!Runs : Sound(r, run[r]) /\ ~Active(run[r])
    BY <1>1, <1>2 DEF Sound, Active
  <1>4. ToolTypes
    BY <1>3 DEF Tool!Init, ToolTypes, Tool!Typings
  <1>5. ToolPaged
    BY <1>1, <1>2, <1>3 DEF Tool!Init, ToolPaged
  <1>6. Tool!ResultsWhole
    BY DEF Tool!Init, Tool!ResultsWhole
  <1> QED
    BY <1>4, <1>5, <1>6 DEF ToolInv

\* A step of one run leaves the others what they were.
LEMMA OneRun ==
  ASSUME ToolTypes, NEW r \in Tool!Runs, NEW q, run' = [run EXCEPT ![r] = q], tool' = tool,
         Sound(r, q)
  PROVE  /\ DOMAIN run' = Tool!Runs /\ run'[r] = q
         /\ \A s \in Tool!Runs \ {r} : run'[s] = run[s]
         /\ \A s \in Tool!Runs : Sound(s, run[s])'
  <1>1. /\ DOMAIN run' = Tool!Runs /\ run'[r] = q
        /\ \A s \in Tool!Runs \ {r} : run'[s] = run[s]
    BY DEF ToolTypes
  <1>2. \A s, p : Sound(s, p)' <=> Sound(s, p)
    BY DEF Sound, InOrderGiven, PagesFit, Tool!NeedsPages, Tool!Target, Closures, Tool!Doc
  <1>3. \A s \in Tool!Runs : Sound(s, run'[s])
    BY <1>1 DEF ToolTypes
  <1>4. \A s \in Tool!Runs : Sound(s, run[s])'
    BY <1>3 DEF Sound, InOrderGiven, PagesFit, Tool!NeedsPages, Tool!Target, Closures, Tool!Doc
  <1> QED
    BY <1>1, <1>4

LEMMA PagedActs ==
  ASSUME ToolInv, NEW r \in Tool!Runs, NEW q, run' = [run EXCEPT ![r] = q], tool' = tool,
         Sound(r, q), picked' = picked,
         Tool!NeedsPages =>
            /\ \A s \in Tool!Runs \ {r} : ~Active(run[s])
            /\ spare' = IF cached' = None THEN 0 ELSE 1
            /\ cached' # None /\ picked # <<>> => cached'.file = picked[1]
            /\ Active(q) => Tool!Busy'
            /\ q.st = "session" => Len(picked) = 1
            /\ q.st = "upload" /\ q.up[1] = "sent" => q.files = picked /\ cached' = None
  PROVE  ToolPaged'
  <1>1. /\ DOMAIN run' = Tool!Runs /\ run'[r] = q
        /\ \A s \in Tool!Runs \ {r} : run'[s] = run[s]
    BY OneRun DEF ToolInv
  <1> SUFFICES ASSUME Tool!NeedsPages PROVE ToolPaged'
    BY DEF ToolPaged, Tool!NeedsPages
  <1>2. Len(picked) <= 1
    BY DEF ToolInv, ToolPaged
  <1>3. \A s \in Tool!Runs \ {r} : ~Active(run'[s])
    BY <1>1
  <1>4. ASSUME NEW s \in Tool!Runs
        PROVE  /\ Active(run'[s]) => Tool!Busy' /\ \A p \in Tool!Runs : Active(run'[p]) => p = s
               /\ run'[s].st = "session" => Len(picked') = 1
               /\ run'[s].st = "upload" /\ run'[s].up[1] = "sent" =>
                     run'[s].files = picked' /\ cached' = None
    <2>1. CASE s = r
      BY <1>1, <1>3, <2>1
    <2>2. CASE s # r
      <3>1. ~Active(run'[s])
        BY <1>3, <2>2
      <3> QED
        BY <3>1 DEF Active
    <2> QED
      BY <2>1, <2>2
  <1> QED
    BY <1>2, <1>4 DEF ToolPaged, Active

LEMMA DoneStays ==
  ASSUME ToolInv, NEW r \in Tool!Runs, NEW q, run' = [run EXCEPT ![r] = q], tool' = tool,
         phase' = "done" => phase = "done" /\ results' = results,
         ~(run[r].st = "over" /\ run[r].job = "succeeded")
  PROVE  Tool!ResultsWhole'
  <1> SUFFICES ASSUME phase' = "done" PROVE Tool!ResultsWhole'
    BY DEF Tool!ResultsWhole
  <1>1. PICK s \in Tool!Runs : /\ run[s].st = "over" /\ run[s].job = "succeeded"
                               /\ results = [j \in 1..Tool!Target(run[s]) |-> j]
                               /\ results # <<>>
    BY DEF ToolInv, Tool!ResultsWhole
  <1>2. s # r
    BY <1>1
  <1>3. run'[s] = run[s]
    BY <1>2 DEF ToolInv, ToolTypes
  <1>4. Tool!Target(run[s])' = Tool!Target(run[s])
    BY <1>3 DEF Tool!Target
  <1> QED
    BY <1>1, <1>3, <1>4 DEF Tool!ResultsWhole

\* An operation asked for, or refused before it is.
LEMMA DispatchIs ==
  ASSUME ToolInv, NEW r \in Tool!Runs, NEW docs \in Seq([run : Nat, at : Nat]), tool' = tool,
         Tool!Dispatch(r, docs),
         tool \in {"merge", "watermark", "sign"} =>
            docs = [i \in DOMAIN run[r].files |-> Tool!Doc(r, i)]
  PROVE  \E q : /\ run' = [run EXCEPT ![r] = q] /\ Sound(r, q)
                /\ \/ q.st = "over" /\ phase' = "error"
                   \/ q.st = "left" /\ phase' = "running" /\ tool = "sign"
                   \/ q.st = "job" /\ phase' = "running"
  <1>0. ToolTypes /\ run[r] \in Closures
    BY DEF ToolInv, ToolTypes, Sound
  <1>1. CASE Tool!Refuses
    <2> DEFINE q == [Tool!NoRun EXCEPT !.st = "over"]
    <2>1. q \in Closures /\ q.st = "over"
      <3>1. Tool!NoRun \in Closures
        BY DEF Tool!NoRun, Closures
      <3> HIDE DEF Tool!NoRun
      <3> QED
        BY <3>1 DEF Closures
    <2>2. phase' = "error" /\ run' = [run EXCEPT ![r] = q]
      BY <1>1 DEF Tool!Dispatch
    <2> HIDE DEF q
    <2>3. Sound(r, q)
      BY <2>1 DEF Sound
    <2> QED
      BY <2>1, <2>2, <2>3
  <1>2. CASE ~Tool!Refuses
    <2> DEFINE p == Tool!Params
               q == [run[r] EXCEPT !.st = IF tool = "sign" THEN "left" ELSE "job", !.docs = docs,
                                   !.params = p,
                                   !.job = IF tool = "sign" THEN "none" ELSE "going"]
    <2>1. PagesFit(p)
      BY <1>0, <1>2, ParamsFit DEF ToolTypes
    <2>2. phase' = "running" /\ run' = [run EXCEPT ![r] = q]
      BY <1>2 DEF Tool!Dispatch
    <2>3. p \in Seq(Int)
      BY <2>1 DEF PagesFit
    <2> HIDE DEF p
    <2>4. /\ q \in Closures /\ q.st = (IF tool = "sign" THEN "left" ELSE "job")
          /\ q.docs = docs /\ q.params = p /\ q.files = run[r].files
      BY <1>0, <2>3 DEF Closures
    <2> HIDE DEF q
    <2>5. Sound(r, q)
      BY <2>1, <2>4 DEF Sound, InOrderGiven
    <2> QED
      BY <2>2, <2>4, <2>5
  <1> QED
    BY <1>1, <1>2
\* What a step of one run has to say for itself.
Phases == {"idle", "uploading", "running", "done", "error"}
LEMMA ToolActs ==
  ASSUME ToolInv, NEW r \in Tool!Runs, NEW q, run' = [run EXCEPT ![r] = q], Sound(r, q),
         UNCHANGED <<tool, picked, toolTyped>>, phase' \in Phases, spare' \in Nat,
         cached' = None \/ cached' \in [file : ToolFiles, doc : [run : Nat, at : Nat]],
         ~Tool!NeedsPages => spare' = 0,
         Tool!NeedsPages =>
            /\ \A s \in Tool!Runs \ {r} : ~Active(run[s])
            /\ spare' = IF cached' = None THEN 0 ELSE 1
            /\ cached' # None /\ picked # <<>> => cached'.file = picked[1]
            /\ Active(q) => Tool!Busy'
            /\ q.st = "session" => Len(picked) = 1
            /\ q.st = "upload" /\ q.up[1] = "sent" => q.files = picked /\ cached' = None
  PROVE  ToolTypes' /\ ToolPaged'
  <1>1. ToolTypes
    BY DEF ToolInv
  <1>2. ToolPaged'
    BY PagedActs
  <1>3. /\ DOMAIN run' = Tool!Runs
        /\ \A s \in Tool!Runs : Sound(s, run[s])'
    BY <1>1, OneRun
  <1>4. ~Tool!NeedsPages' => spare' = 0
    BY DEF Tool!NeedsPages
  <1>5. ToolTypes'
    <2>1. tool' \in Tool!Tools /\ picked' \in Seq(ToolFiles) /\ toolTyped' \in Tool!Typings
      BY <1>1 DEF ToolTypes
    <2> QED
      BY <1>3, <1>4, <2>1 DEF ToolTypes, Phases
  <1> QED
    BY <1>2, <1>5

\* The run that is under way is the only one, where pages are asked for.
LEMMA AloneIs ==
  ASSUME ToolInv, NEW r \in Tool!Runs, Active(run[r]), Tool!NeedsPages
  PROVE  /\ \A s \in Tool!Runs \ {r} : ~Active(run[s])
         /\ Tool!Busy /\ Len(picked) <= 1
         /\ spare = IF cached = None THEN 0 ELSE 1
         /\ cached # None /\ picked # <<>> => cached.file = picked[1]
         /\ run[r].st = "session" => Len(picked) = 1
         /\ run[r].st = "upload" /\ run[r].up[1] = "sent" =>
               run[r].files = picked /\ cached = None
  <1>1. ToolPaged
    BY DEF ToolInv
  <1>2. Tool!Busy /\ \A s \in Tool!Runs : Active(run[s]) => s = r
    BY <1>1 DEF ToolPaged
  <1> QED
    BY <1>1, <1>2 DEF ToolPaged

\* A run that ends and changes nothing else, or fails and forgets the file that was up.
LEMMA OverIs ==
  ASSUME ToolInv, NEW r \in Tool!Runs, run' = [run EXCEPT ![r].st = "over"],
         Active(run[r]), run[r].st # "over",
         UNCHANGED <<tool, picked, toolTyped>>, phase' \in Phases,
         UNCHANGED <<cached, spare>> \/ (cached' = None /\ spare' = 0)
  PROVE  ToolTypes' /\ ToolPaged'
  <1> DEFINE q == [run[r] EXCEPT !.st = "over"]
  <1>0. ToolTypes /\ run[r] \in Closures
    BY DEF ToolInv, ToolTypes, Sound
  <1>1. q \in Closures /\ q.st = "over"
    BY <1>0 DEF Closures
  <1>2. run' = [run EXCEPT ![r] = q]
    BY <1>0 DEF ToolTypes
  <1> HIDE DEF q
  <1>3. Sound(r, q) /\ ~Active(q)
    BY <1>1 DEF Sound, Active
  <1>4. /\ spare' \in Nat /\ (~Tool!NeedsPages => spare' = 0)
        /\ cached' = None \/ cached' \in [file : ToolFiles, doc : [run : Nat, at : Nat]]
    BY <1>0 DEF ToolTypes
  <1>5. Tool!NeedsPages =>
            /\ \A s \in Tool!Runs \ {r} : ~Active(run[s])
            /\ spare' = IF cached' = None THEN 0 ELSE 1
            /\ cached' # None /\ picked # <<>> => cached'.file = picked[1]
    BY AloneIs
  <1> QED
    BY <1>1, <1>2, <1>3, <1>4, <1>5, ToolActs

LEMMA ToolRun ==
  ASSUME ToolInv, NEW r \in Tool!Runs, Tool!Run(r)
  PROVE  ToolInv'
  <1> DEFINE q == [run[r] EXCEPT !.st = "session"]
  <1>0. ToolTypes /\ run[r] \in Closures /\ Sound(r, run[r]) /\ run[r].st = "no"
    BY DEF ToolInv, ToolTypes, Sound, Tool!Run
  <1>1. q \in Closures /\ q.st = "session" /\ q.params = run[r].params
    BY <1>0 DEF Closures
  <1>2. run' = [run EXCEPT ![r] = q]
    BY <1>0 DEF ToolTypes, Tool!Run
  <1> HIDE DEF q
  <1>3. Sound(r, q)
    BY <1>0, <1>1 DEF Sound
  <1>4. Tool!Busy' /\ phase' \in Phases /\ phase' # "done"
    BY DEF Tool!Run, Tool!Busy, Phases
  <1>5. Tool!NeedsPages =>
            /\ \A s \in Tool!Runs \ {r} : ~Active(run[s])
            /\ spare = IF cached = None THEN 0 ELSE 1
            /\ cached # None /\ picked # <<>> => cached.file = picked[1]
            /\ Len(picked) = 1
    <2> SUFFICES ASSUME Tool!NeedsPages
                 PROVE  /\ \A s \in Tool!Runs \ {r} : ~Active(run[s])
                        /\ spare = IF cached = None THEN 0 ELSE 1
                        /\ cached # None /\ picked # <<>> => cached.file = picked[1]
                        /\ Len(picked) = 1
      OBVIOUS
    <2>1. ~Tool!Busy /\ Tool!Ready
      BY DEF Tool!Run
    <2>2. ToolPaged
      BY DEF ToolInv
    <2>3. \A s \in Tool!Runs : ~Active(run[s])
      BY <2>1, <2>2 DEF ToolPaged
    <2>4. tool # "merge"
      BY DEF Tool!NeedsPages
    <2>5. Len(picked) >= 1
      BY <2>1, <2>4 DEF Tool!Ready
    <2>6. Len(picked) <= 1
      BY <2>2 DEF ToolPaged
    <2>7. Len(picked) = 1
      <3>1. PICK n \in Nat : n = Len(picked)
        BY <1>0 DEF ToolTypes
      <3> QED
        BY <2>5, <2>6, <3>1
    <2> QED
      BY <2>2, <2>3, <2>7 DEF ToolPaged
  <1>6. UNCHANGED <<tool, picked, toolTyped, cached, spare>>
    BY DEF Tool!Run
  <1>7. ToolTypes' /\ ToolPaged'
    BY <1>0, <1>1, <1>2, <1>3, <1>4, <1>5, <1>6, ToolActs DEF ToolTypes
  <1>8. Tool!ResultsWhole'
    BY <1>4 DEF Tool!ResultsWhole
  <1> QED
    BY <1>7, <1>8 DEF ToolInv

\* The two ways a run can go over: an answer read, or a failure.
LEMMA ToolEnds ==
  ASSUME ToolInv, NEW r \in Tool!Runs,
         Tool!PollFails(r) \/ Tool!Ceiling(r) \/ Tool!FetchFails(r)
  PROVE  ToolInv'
  <1>1. Active(run[r]) /\ run[r].st # "over"
    BY DEF Tool!PollFails, Tool!Ceiling, Tool!FetchFails, Active
  <1>2. /\ run' = [run EXCEPT ![r].st = "over"]
        /\ UNCHANGED <<tool, picked, toolTyped>> /\ phase' = "error"
        /\ UNCHANGED <<cached, spare>> \/ (cached' = None /\ spare' = 0)
    BY DEF Tool!PollFails, Tool!Ceiling, Tool!FetchFails, Tool!Failing
  <1>3. ToolTypes' /\ ToolPaged'
    BY <1>1, <1>2, OverIs DEF Phases
  <1>4. Tool!ResultsWhole'
    BY <1>2 DEF Tool!ResultsWhole
  <1> QED
    BY <1>3, <1>4 DEF ToolInv

LEMMA ToolPoll ==
  ASSUME ToolInv, NEW r \in Tool!Runs, Tool!Poll(r)
  PROVE  ToolInv'
  <1>0. /\ ToolTypes /\ run[r] \in Closures /\ Sound(r, run[r]) /\ run[r].st = "job"
        /\ UNCHANGED <<tool, picked, toolTyped, cached, results, spare>>
        /\ phase' = phase \/ phase' = "error"
        /\ phase \in Phases /\ spare \in Nat
    BY DEF ToolInv, ToolTypes, Sound, Tool!Poll, Phases
  <1>1. Active(run[r]) /\ run[r].st # "over"
    BY <1>0 DEF Active
  <1>2. CASE run' = [run EXCEPT ![r].st = "over"]
    <2> DEFINE q == [run[r] EXCEPT !.st = "over"]
    <2>1. ToolTypes' /\ ToolPaged'
      BY <1>0, <1>1, <1>2, OverIs DEF Phases
    <2>2. run' = [run EXCEPT ![r] = q]
      BY <1>0, <1>2 DEF ToolTypes
    <2> HIDE DEF q
    <2>3. Tool!ResultsWhole'
      BY <1>0, <1>1, <2>2, DoneStays
    <2> QED
      BY <2>1, <2>3 DEF ToolInv
  <1>3. CASE /\ run[r].job = "succeeded" /\ Tool!Target(run[r]) > 0
             /\ run' = [run EXCEPT ![r].st = "fetch"] /\ UNCHANGED phase
    <2> DEFINE q == [run[r] EXCEPT !.st = "fetch"]
    <2>1. /\ q \in Closures /\ q.st = "fetch" /\ q.job = "succeeded"
          /\ q.made = run[r].made
      BY <1>0, <1>3 DEF Closures
    <2>2. run' = [run EXCEPT ![r] = q]
      BY <1>0, <1>3 DEF ToolTypes
    <2> HIDE DEF q
    <2>3. Tool!Target(q) > 0
      BY <1>3, <2>1 DEF Tool!Target
    <2>4. Sound(r, q)
      BY <2>1, <2>3 DEF Sound
    <2>5. Tool!NeedsPages =>
            /\ \A s \in Tool!Runs \ {r} : ~Active(run[s])
            /\ spare = IF cached = None THEN 0 ELSE 1
            /\ cached # None /\ picked # <<>> => cached.file = picked[1]
            /\ Tool!Busy
      BY <1>1, AloneIs
    <2>6. Tool!Busy' <=> Tool!Busy
      BY <1>3 DEF Tool!Busy
    <2>7. ToolTypes' /\ ToolPaged'
      BY <1>0, <1>3, <2>1, <2>2, <2>4, <2>5, <2>6, ToolActs DEF ToolTypes
    <2>8. Tool!ResultsWhole'
      BY <1>0, <1>1, <1>3, <2>2, DoneStays
    <2> QED
      BY <2>7, <2>8 DEF ToolInv
  <1> QED
    BY <1>2, <1>3 DEF Tool!Poll

-----------------------------------------------------------------------------
\* A run that asks for its operation, or is refused before it does.
LEMMA ToolDispatch ==
  ASSUME ToolInv, NEW r \in Tool!Runs, NEW docs \in Seq([run : Nat, at : Nat]),
         Tool!Dispatch(r, docs),
         tool \in {"merge", "watermark", "sign"} =>
            docs = [i \in DOMAIN run[r].files |-> Tool!Doc(r, i)],
         UNCHANGED <<tool, picked, toolTyped>>, spare' \in Nat,
         cached' = None \/ cached' \in [file : ToolFiles, doc : [run : Nat, at : Nat]],
         ~Tool!NeedsPages => spare' = 0,
         Tool!NeedsPages =>
            /\ \A s \in Tool!Runs \ {r} : ~Active(run[s])
            /\ spare' = IF cached' = None THEN 0 ELSE 1
            /\ cached' # None /\ picked # <<>> => cached'.file = picked[1]
  PROVE  ToolInv'
  <1>1. PICK q : /\ run' = [run EXCEPT ![r] = q] /\ Sound(r, q)
                 /\ \/ q.st = "over" /\ phase' = "error"
                    \/ q.st = "left" /\ phase' = "running" /\ tool = "sign"
                    \/ q.st = "job" /\ phase' = "running"
    <2>1. tool' = tool
      OBVIOUS
    <2> QED
      BY <2>1, DispatchIs
  <1>3. phase' \in Phases /\ phase' # "done"
    BY <1>1 DEF Phases
  <1>4. /\ Active(q) => Tool!Busy'
        /\ q.st # "session" /\ q.st # "upload"
    BY <1>1 DEF Active, Tool!Busy
  <1>5. ToolTypes' /\ ToolPaged'
    BY <1>1, <1>3, <1>4, ToolActs
  <1>6. Tool!ResultsWhole'
    BY <1>3 DEF Tool!ResultsWhole
  <1> QED
    BY <1>5, <1>6 DEF ToolInv

LEMMA ToolBegin ==
  ASSUME ToolInv, NEW r \in Tool!Runs, Tool!Begin(r)
  PROVE  ToolInv'
  <1>0. /\ ToolTypes /\ run[r] \in Closures /\ Sound(r, run[r]) /\ run[r].st = "session"
        /\ Active(run[r]) /\ picked \in Seq(ToolFiles)
        /\ phase \in Phases /\ spare \in Nat
        /\ cached = None \/ cached \in [file : ToolFiles, doc : [run : Nat, at : Nat]]
        /\ ~Tool!NeedsPages => spare = 0
    BY DEF ToolInv, ToolTypes, Sound, Tool!Begin, Phases, Active
  <1>1. UNCHANGED <<tool, picked, toolTyped, cached, results, spare>>
    BY DEF Tool!Begin
  <1>2. Tool!NeedsPages =>
            /\ \A s \in Tool!Runs \ {r} : ~Active(run[s])
            /\ spare = IF cached = None THEN 0 ELSE 1
            /\ cached # None /\ picked # <<>> => cached.file = picked[1]
            /\ Tool!Busy /\ Len(picked) = 1
    BY <1>0, AloneIs
  <1>3. CASE /\ tool = "import" /\ phase' = "running"
             /\ run' = [run EXCEPT ![r] =
                          [@ EXCEPT !.st = "job", !.files = picked, !.job = "going"]]
    <2> DEFINE q == [run[r] EXCEPT !.st = "job", !.files = picked, !.job = "going"]
    <2>1. q \in Closures /\ q.st = "job" /\ q.params = run[r].params
      BY <1>0 DEF Closures
    <2>2. run' = [run EXCEPT ![r] = q]
      BY <1>3
    <2> HIDE DEF q
    <2>3. q.params = <<>>
      BY <1>0, <2>1 DEF Sound
    <2>4. PagesFit(q.params)
      BY <1>3, <2>3 DEF PagesFit, ToSet
    <2>5. Sound(r, q)
      BY <1>3, <2>1, <2>4 DEF Sound, InOrderGiven
    <2>6. ~Tool!NeedsPages /\ phase' \in Phases /\ phase' # "done"
      BY <1>3 DEF Tool!NeedsPages, Phases
    <2>7. ToolTypes' /\ ToolPaged'
      BY <1>0, <1>1, <2>2, <2>5, <2>6, ToolActs
    <2>8. Tool!ResultsWhole'
      BY <2>6 DEF Tool!ResultsWhole
    <2> QED
      BY <2>7, <2>8 DEF ToolInv
  <1>4. CASE /\ Tool!NeedsPages /\ cached # None /\ cached.file = picked[1]
             /\ Tool!Dispatch(r, <<cached.doc>>)
    <2>1. <<cached.doc>> \in Seq([run : Nat, at : Nat])
      BY <1>0, <1>4
    <2>2. tool \notin {"merge", "watermark", "sign"}
      BY <1>4 DEF Tool!NeedsPages
    <2> QED
      BY <1>0, <1>1, <1>2, <1>4, <2>1, <2>2, ToolDispatch
  <1>5. CASE /\ ~(Tool!NeedsPages /\ cached # None /\ cached.file = picked[1])
             /\ run' = [run EXCEPT ![r] = [@ EXCEPT !.st = "upload", !.files = picked,
                                            !.up = [i \in DOMAIN picked |-> "sent"]]]
             /\ UNCHANGED phase
    <2> DEFINE up == [i \in DOMAIN picked |-> "sent"]
               q == [run[r] EXCEPT !.st = "upload", !.files = picked, !.up = up]
    <2>0. run' = [run EXCEPT ![r] = q]
      BY <1>5
    <2>1. up \in Seq({"sent", "ok", "bad"}) /\ Len(up) = Len(picked)
      <3>1. DOMAIN picked = 1..Len(picked) /\ Len(picked) \in Nat
        BY <1>0
      <3>2. up \in [1..Len(picked) -> {"sent", "ok", "bad"}]
        BY <3>1
      <3> QED
        BY <3>1, <3>2
    <2> HIDE DEF up
    <2>2. q \in Closures /\ q.st = "upload" /\ q.files = picked /\ q.up = up
      BY <1>0, <2>1 DEF Closures
    <2> HIDE DEF q
    <2>3. Sound(r, q)
      BY <1>2, <2>1, <2>2 DEF Sound
    <2>4. Tool!NeedsPages => cached = None
      <3>1. ASSUME Tool!NeedsPages, cached # None PROVE cached.file = picked[1]
        <4>1. picked # <<>>
          BY <1>2, <3>1
        <4> QED
          BY <1>2, <3>1, <4>1
      <3> QED
        BY <1>5, <3>1
    <2>5. Tool!Busy' <=> Tool!Busy
      BY <1>5 DEF Tool!Busy
    <2>6. ToolTypes' /\ ToolPaged'
      BY <1>0, <1>1, <1>2, <1>5, <2>0, <2>2, <2>3, <2>4, <2>5, ToolActs
    <2>7. Tool!ResultsWhole'
      BY <1>0, <1>1, <1>5, <2>0, DoneStays
    <2> QED
      BY <2>6, <2>7 DEF ToolInv
  <1> QED
    BY <1>3, <1>4, <1>5 DEF Tool!Begin

\* Where pages are asked for the upload is of the one file.
LEMMA OneUpload ==
  ASSUME ToolInv, NEW r \in Tool!Runs, NEW i \in DOMAIN run[r].up, run[r].st = "upload",
         run[r].up[i] = "sent"
  PROVE  /\ Len(run[r].up) = Len(run[r].files) /\ DOMAIN run[r].up = DOMAIN run[r].files
         /\ Tool!NeedsPages => /\ i = 1 /\ Len(run[r].up) = 1 /\ Active(run[r])
                               /\ run[r].files = picked /\ cached = None /\ spare = 0
                               /\ \A s \in Tool!Runs \ {r} : ~Active(run[s])
  <1>0. /\ run[r].up \in Seq({"sent", "ok", "bad"}) /\ run[r].files \in Seq(ToolFiles)
        /\ Len(run[r].up) = Len(run[r].files)
        /\ Tool!NeedsPages => Len(run[r].files) = 1
    BY DEF ToolInv, ToolTypes, Sound, Closures
  <1>1. ASSUME Tool!NeedsPages PROVE i = 1 /\ Len(run[r].up) = 1 /\ Active(run[r])
    <2>1. DOMAIN run[r].up = 1..1
      BY <1>0, <1>1
    <2>2. i = 1
      BY <2>1
    <2> QED
      BY <1>0, <1>1, <2>2 DEF Active
  <1>2. Tool!NeedsPages =>
          /\ run[r].files = picked /\ cached = None
          /\ spare = IF cached = None THEN 0 ELSE 1
          /\ \A s \in Tool!Runs \ {r} : ~Active(run[s])
    BY <1>1, AloneIs
  <1> QED
    BY <1>0, <1>1, <1>2

LEMMA ToolUploaded ==
  ASSUME ToolInv, NEW r \in Tool!Runs, NEW i \in DOMAIN run[r].up, Tool!Uploaded(r, i)
  PROVE  ToolInv'
  <1> DEFINE up == [run[r].up EXCEPT ![i] = "ok"]
             all == \A j \in DOMAIN up : up[j] = "ok"
  <1>0. /\ ToolTypes /\ run[r] \in Closures /\ Sound(r, run[r]) /\ run[r].st = "upload"
        /\ run[r].up[i] = "sent" /\ phase \in Phases /\ spare \in Nat
        /\ cached = None \/ cached \in [file : ToolFiles, doc : [run : Nat, at : Nat]]
        /\ ~Tool!NeedsPages => spare = 0
        /\ run[r].files \in Seq(ToolFiles)
        /\ run[r].up \in Seq({"sent", "ok", "bad"})
    BY DEF ToolInv, ToolTypes, Sound, Tool!Uploaded, Phases, Closures
  <1>1. UNCHANGED <<tool, picked, toolTyped, results>>
    BY DEF Tool!Uploaded
  <1>2. /\ Len(run[r].up) = Len(run[r].files) /\ DOMAIN run[r].up = DOMAIN run[r].files
        /\ Tool!NeedsPages => /\ i = 1 /\ Len(run[r].up) = 1 /\ Active(run[r])
                              /\ run[r].files = picked /\ cached = None /\ spare = 0
                              /\ \A s \in Tool!Runs \ {r} : ~Active(run[s])
    BY <1>0, OneUpload
  <1>3. /\ cached' = IF Tool!NeedsPages /\ Len(run[r].files) = 1
                     THEN [file |-> run[r].files[1], doc |-> Tool!Doc(r, 1)] ELSE cached
        /\ spare' = IF Tool!NeedsPages THEN spare + 1 ELSE spare
    BY DEF Tool!Uploaded
  <1>4. /\ up \in Seq({"sent", "ok", "bad"}) /\ Len(up) = Len(run[r].up)
        /\ DOMAIN up = DOMAIN run[r].up
    BY <1>0
  <1>5. \A j \in DOMAIN up : Tool!Doc(r, j) \in [run : Nat, at : Nat]
    <2>1. DOMAIN up = 1..Len(up) /\ Len(up) \in Nat
      BY <1>4
    <2>2. r \in Nat
      BY ToolConstants DEF Tool!Runs, Numbers
    <2> QED
      BY <2>1, <2>2 DEF Tool!Doc
  <1>6. /\ spare' \in Nat /\ (~Tool!NeedsPages => spare' = 0 /\ cached' = cached)
        /\ cached' = None \/ cached' \in [file : ToolFiles, doc : [run : Nat, at : Nat]]
        /\ Tool!NeedsPages => cached' # None /\ spare' = 1 /\ cached'.file = picked[1]
    <2>1. CASE Tool!NeedsPages
      <3>1. /\ Len(run[r].files) = 1 /\ run[r].files[1] \in ToolFiles
            /\ Tool!Doc(r, 1) \in [run : Nat, at : Nat]
        <4>1. Len(run[r].files) = 1
          BY <1>2, <2>1
        <4>2. 1 \in DOMAIN run[r].files
          BY <1>0, <4>1
        <4> QED
          BY <1>0, <1>2, <1>4, <1>5, <4>1, <4>2
      <3>2. cached' = [file |-> run[r].files[1], doc |-> Tool!Doc(r, 1)] /\ spare' = 1
        BY <1>2, <1>3, <2>1, <3>1
      <3>3. cached' \in [file : ToolFiles, doc : [run : Nat, at : Nat]]
        BY <3>1, <3>2
      <3>4. cached' # None
        BY <3>3, SiteAssumption DEF Tool!Assumptions
      <3> QED
        BY <1>2, <2>1, <3>2, <3>3, <3>4
    <2>2. CASE ~Tool!NeedsPages
      BY <1>0, <1>3, <2>2
    <2> QED
      BY <2>1, <2>2
  <1>7. CASE all /\ Tool!Dispatch(r, [j \in DOMAIN up |-> Tool!Doc(r, j)])
    <2> DEFINE docs == [j \in DOMAIN up |-> Tool!Doc(r, j)]
    <2>1. docs \in Seq([run : Nat, at : Nat])
      <3>1. DOMAIN up = 1..Len(up) /\ Len(up) \in Nat
        BY <1>4
      <3> HIDE DEF up
      <3>2. docs \in [1..Len(up) -> [run : Nat, at : Nat]]
        BY <1>5, <3>1
      <3> QED
        BY <3>1, <3>2
    <2>2. docs = [j \in DOMAIN run[r].files |-> Tool!Doc(r, j)]
      BY <1>2, <1>4
    <2>3. Tool!Dispatch(r, docs)
      BY <1>7
    <2> HIDE DEF docs, up
    <2> QED
      BY <1>0, <1>1, <1>2, <1>6, <2>1, <2>2, <2>3, ToolDispatch
  <1>8. CASE ~all /\ run' = [run EXCEPT ![r].up = up] /\ UNCHANGED phase
    <2> DEFINE q == [run[r] EXCEPT !.up = up]
    <2>0. run' = [run EXCEPT ![r] = q]
      BY <1>0, <1>8 DEF ToolTypes
    <2>1. ~Tool!NeedsPages
      <3> SUFFICES ASSUME Tool!NeedsPages PROVE all
        BY <1>8
      <3>1. DOMAIN up = 1..1 /\ i = 1
        BY <1>0, <1>2, <1>4
      <3> QED
        BY <1>0, <3>1
    <2> HIDE DEF up
    <2>2. /\ q \in Closures /\ q.st = "upload" /\ q.files = run[r].files /\ q.up = up
      BY <1>0, <1>4 DEF Closures
    <2> HIDE DEF q
    <2>3. Sound(r, q)
      BY <1>2, <1>4, <2>1, <2>2 DEF Sound
    <2>4. ToolTypes' /\ ToolPaged'
      BY <1>0, <1>1, <1>6, <1>8, <2>0, <2>1, <2>3, ToolActs
    <2>5. Tool!ResultsWhole'
      BY <1>0, <1>1, <1>8, <2>0, DoneStays
    <2> QED
      BY <2>4, <2>5 DEF ToolInv
  <1> QED
    BY <1>7, <1>8 DEF Tool!Uploaded

LEMMA ToolUploadFails ==
  ASSUME ToolInv, NEW r \in Tool!Runs, NEW i \in DOMAIN run[r].up, Tool!UploadFails(r, i)
  PROVE  ToolInv'
  <1> DEFINE up == [run[r].up EXCEPT ![i] = "bad"]
             q == [run[r] EXCEPT !.up = up]
  <1>0. /\ ToolTypes /\ run[r] \in Closures /\ Sound(r, run[r]) /\ run[r].st = "upload"
        /\ run[r].up[i] = "sent" /\ run[r].up \in Seq({"sent", "ok", "bad"})
    BY DEF ToolInv, ToolTypes, Sound, Tool!UploadFails, Closures
  <1>1. /\ UNCHANGED <<tool, picked, toolTyped, results>>
        /\ phase' = "error" /\ cached' = None /\ spare' = 0
    BY DEF Tool!UploadFails, Tool!Failing
  <1>2. run' = [run EXCEPT ![r] = q]
    BY <1>0 DEF ToolTypes, Tool!UploadFails
  <1>3. /\ Len(run[r].up) = Len(run[r].files)
        /\ Tool!NeedsPages => /\ i = 1 /\ Len(run[r].up) = 1 /\ Active(run[r])
                              /\ \A s \in Tool!Runs \ {r} : ~Active(run[s])
    BY <1>0, OneUpload
  <1>4. up \in Seq({"sent", "ok", "bad"}) /\ Len(up) = Len(run[r].up) /\ up[i] = "bad"
    BY <1>0
  <1> HIDE DEF up
  <1>5. q \in Closures /\ q.st = "upload" /\ q.files = run[r].files /\ q.up = up
    BY <1>0, <1>4 DEF Closures
  <1> HIDE DEF q
  <1>6. Sound(r, q)
    BY <1>0, <1>3, <1>4, <1>5 DEF Sound
  <1>7. Tool!NeedsPages => ~Active(q) /\ q.up[1] # "sent"
    BY <1>3, <1>4, <1>5 DEF Active
  <1>8. ToolTypes' /\ ToolPaged'
    BY <1>1, <1>2, <1>3, <1>5, <1>6, <1>7, ToolActs DEF Phases
  <1>9. Tool!ResultsWhole'
    BY <1>1 DEF Tool!ResultsWhole
  <1> QED
    BY <1>8, <1>9 DEF ToolInv

\* The server says how the job ended; nothing of the page moves.
LEMMA ToolServed ==
  ASSUME ToolInv, NEW r \in Tool!Runs, NEW end \in {"succeeded", "failed", "canceled"},
         NEW n \in 0..2, Tool!JobServed(r, end, n)
  PROVE  ToolInv'
  <1> DEFINE q == [run[r] EXCEPT !.job = end, !.made = n]
  <1>0. /\ ToolTypes /\ run[r] \in Closures /\ Sound(r, run[r]) /\ run[r].job = "going"
    BY DEF ToolInv, ToolTypes, Sound, Tool!JobServed
  <1>1. UNCHANGED <<tool, phase, picked, toolTyped, cached, results, spare>>
    BY DEF Tool!JobServed
  <1>2. run' = [run EXCEPT ![r] = q]
    BY DEF Tool!JobServed
  <1>3. /\ q \in Closures /\ q.st = run[r].st /\ q.files = run[r].files /\ q.up = run[r].up
        /\ q.params = run[r].params /\ q.docs = run[r].docs
    <2>1. end \in {"none", "going", "succeeded", "failed", "canceled"} /\ n \in Nat
      OBVIOUS
    <2> QED
      BY <1>0, <2>1 DEF Closures
  <1> HIDE DEF q
  <1>4. Sound(r, q)
    BY <1>0, <1>3 DEF Sound, InOrderGiven
  <1>5. /\ DOMAIN run' = Tool!Runs /\ run'[r] = q
        /\ \A s \in Tool!Runs \ {r} : run'[s] = run[s]
        /\ \A s \in Tool!Runs : Sound(s, run[s])'
    BY <1>0, <1>1, <1>2, <1>4, OneRun
  <1>6. ToolTypes'
    BY <1>0, <1>1, <1>5 DEF ToolTypes, Tool!NeedsPages
  <1>7. \A s \in Tool!Runs : /\ Active(run'[s]) <=> Active(run[s])
                             /\ run'[s].st = run[s].st /\ run'[s].up = run[s].up
                             /\ run'[s].files = run[s].files
    BY <1>3, <1>5 DEF Active
  <1>8. ToolPaged'
    <2>1. ToolPaged
      BY DEF ToolInv
    <2> SUFFICES ASSUME Tool!NeedsPages PROVE ToolPaged'
      BY <1>1 DEF ToolPaged, Tool!NeedsPages
    <2>2. Tool!Busy' <=> Tool!Busy
      BY <1>1 DEF Tool!Busy
    <2>3. /\ Len(picked') <= 1 /\ spare' = IF cached' = None THEN 0 ELSE 1
          /\ cached' # None /\ picked' # <<>> => cached'.file = picked'[1]
      BY <1>1, <2>1 DEF ToolPaged
    <2>4. \A s \in Tool!Runs :
            /\ Active(run'[s]) => Tool!Busy' /\ \A p \in Tool!Runs : Active(run'[p]) => p = s
            /\ run'[s].st = "session" => Len(picked') = 1
            /\ run'[s].st = "upload" /\ run'[s].up[1] = "sent" =>
                  run'[s].files = picked' /\ cached' = None
      BY <1>1, <1>7, <2>1, <2>2 DEF ToolPaged
    <2> QED
      BY <2>3, <2>4 DEF ToolPaged, Active
  <1>9. Tool!ResultsWhole'
    BY <1>0, <1>1, <1>2, DoneStays
  <1> QED
    BY <1>6, <1>8, <1>9 DEF ToolInv

\* The results come in any order, and are shown when they are all there.
LEMMA ToolFetched ==
  ASSUME ToolInv, NEW r \in Tool!Runs, NEW i \in 1..2, Tool!Fetched(r, i)
  PROVE  ToolInv'
  <1> DEFINE got == run[r].got \cup {i}
             target == Tool!Target(run[r])
  <1>0. /\ ToolTypes /\ run[r] \in Closures /\ Sound(r, run[r]) /\ run[r].st = "fetch"
        /\ Active(run[r]) /\ run[r].job = "succeeded" /\ target > 0
        /\ phase \in Phases /\ spare \in Nat
        /\ cached = None \/ cached \in [file : ToolFiles, doc : [run : Nat, at : Nat]]
        /\ ~Tool!NeedsPages => spare = 0
    BY DEF ToolInv, ToolTypes, Sound, Tool!Fetched, Active, Phases
  <1>1. UNCHANGED <<tool, picked, toolTyped, cached, spare>>
    BY DEF Tool!Fetched
  <1>2. CASE /\ results' = [j \in 1..target |-> j] /\ phase' = "done"
             /\ run' = [run EXCEPT ![r].st = "over"]
    <2> DEFINE q == [run[r] EXCEPT !.st = "over"]
    <2>1. ToolTypes' /\ ToolPaged'
      BY <1>0, <1>1, <1>2, OverIs DEF Phases
    <2>2. q.st = "over" /\ q.job = "succeeded" /\ q.made = run[r].made
      BY <1>0 DEF Closures
    <2>3. run'[r] = q
      BY <1>0, <1>2 DEF ToolTypes
    <2> HIDE DEF q
    <2>4. Tool!Target(run[r])' = target
      BY <1>1, <2>2, <2>3 DEF Tool!Target
    <2>5. results' # <<>>
      <3>1. target \in Nat
        BY <1>0 DEF Closures, Tool!Target
      <3> HIDE DEF target
      <3>2. 1 \in DOMAIN results'
        BY <1>0, <1>2, <3>1
      <3> QED
        BY <3>2
    <2>6. Tool!ResultsWhole'
      BY <1>2, <2>2, <2>3, <2>4, <2>5 DEF Tool!ResultsWhole
    <2> QED
      BY <2>1, <2>6 DEF ToolInv
  <1>3. CASE run' = [run EXCEPT ![r].got = got] /\ UNCHANGED <<results, phase>>
    <2> DEFINE q == [run[r] EXCEPT !.got = got]
    <2>1. run' = [run EXCEPT ![r] = q]
      BY <1>0, <1>3 DEF ToolTypes
    <2>2. /\ q \in Closures /\ q.st = "fetch" /\ q.job = "succeeded"
          /\ q.made = run[r].made
      <3>1. got \in SUBSET Nat
        BY <1>0 DEF Closures
      <3> HIDE DEF got
      <3> QED
        BY <1>0, <3>1 DEF Closures
    <2> HIDE DEF q
    <2>3. Tool!Target(q) > 0
      BY <1>0, <2>2 DEF Tool!Target
    <2>4. Sound(r, q)
      BY <2>2, <2>3 DEF Sound
    <2>5. Tool!NeedsPages =>
            /\ \A s \in Tool!Runs \ {r} : ~Active(run[s])
            /\ spare = IF cached = None THEN 0 ELSE 1
            /\ cached # None /\ picked # <<>> => cached.file = picked[1]
            /\ Tool!Busy
      BY <1>0, AloneIs
    <2>6. Tool!Busy' <=> Tool!Busy
      BY <1>3 DEF Tool!Busy
    <2>7. ToolTypes' /\ ToolPaged'
      BY <1>0, <1>1, <1>3, <2>1, <2>2, <2>4, <2>5, <2>6, ToolActs
    <2>8. Tool!ResultsWhole'
      BY <1>0, <1>1, <1>3, <2>1, DoneStays
    <2> QED
      BY <2>7, <2>8 DEF ToolInv
  <1> QED
    BY <1>2, <1>3 DEF Tool!Fetched

\* The visitor changes what the next run starts from, while none is under way.
LEMMA ToolVisitor ==
  ASSUME ToolInv,
         \/ \E f \in ToolFiles : Tool!OnFilesPicked(f)
         \/ \E parts \in Tool!Typings : Tool!OnPageSpec(parts)
         \/ \E i \in DOMAIN picked : Tool!RemoveFile(i)
         \/ Tool!Reset
  PROVE  ToolInv'
  <1>0. /\ ToolTypes /\ picked \in Seq(ToolFiles) /\ spare \in Nat /\ phase \in Phases
        /\ UNCHANGED <<tool, run>> /\ ~Tool!Busy
    BY DEF ToolInv, ToolTypes, Phases, Tool!OnFilesPicked, Tool!OnPageSpec, Tool!RemoveFile,
           Tool!Reset, Tool!Busy
  <1>1. \A s \in Tool!Runs : Sound(s, run[s])'
    <2>1. \A s \in Tool!Runs : Sound(s, run[s])
      BY <1>0 DEF ToolTypes
    <2> QED
      BY <1>0, <2>1 DEF Sound, InOrderGiven, PagesFit, Tool!NeedsPages, Tool!Target, Closures,
                        Tool!Doc
  <1>2. /\ phase' \in Phases /\ phase' # "done"
        /\ picked' \in Seq(ToolFiles)
        /\ toolTyped' \in Tool!Typings
        /\ UNCHANGED <<cached, spare>> \/ (cached' = None /\ spare' = 0)
    <2>1. CASE \E f \in ToolFiles : Tool!OnFilesPicked(f)
      <3>1. PICK f \in ToolFiles : Tool!OnFilesPicked(f)
        BY <2>1
      <3>2. Append(picked, f) \in Seq(ToolFiles) /\ <<f>> \in Seq(ToolFiles)
        BY <1>0
      <3>3. picked' \in Seq(ToolFiles)
        BY <3>1, <3>2 DEF Tool!OnFilesPicked
      <3> QED
        BY <1>0, <3>1, <3>3 DEF Tool!OnFilesPicked, Phases, ToolTypes
    <2>2. CASE \E parts \in Tool!Typings : Tool!OnPageSpec(parts)
      BY <1>0, <2>2 DEF Tool!OnPageSpec, Phases, ToolTypes
    <2>3. CASE \E i \in DOMAIN picked : Tool!RemoveFile(i)
      <3>1. PICK i \in DOMAIN picked : Tool!RemoveFile(i)
        BY <2>3
      <3>2. picked' = RemoveAt(picked, i) /\ i \in 1..Len(picked)
        BY <1>0, <3>1, ToolListsAre DEF Tool!RemoveFile
      <3>3. picked' \in Seq(ToolFiles)
        BY <1>0, <3>2, RemoveAtIs
      <3> QED
        BY <1>0, <3>1, <3>3 DEF Tool!RemoveFile, Phases, ToolTypes
    <2>4. CASE Tool!Reset
      BY <1>0, <2>4 DEF Tool!Reset, Phases, ToolTypes
    <2> QED
      BY <2>1, <2>2, <2>3, <2>4
  <1>3. ToolTypes'
    BY <1>0, <1>1, <1>2 DEF ToolTypes, Phases, Tool!NeedsPages
  <1>4. ToolPaged'
    <2> SUFFICES ASSUME Tool!NeedsPages PROVE ToolPaged'
      BY <1>0 DEF ToolPaged, Tool!NeedsPages
    <2>1. ToolPaged
      BY DEF ToolInv
    <2>2. \A s \in Tool!Runs : ~Active(run[s])
      BY <1>0, <2>1 DEF ToolPaged
    <2>3. /\ Len(picked') <= 1
          /\ cached' # None /\ picked' # <<>> => cached'.file = picked'[1]
      <3>1. tool \notin {"merge", "import"}
        BY DEF Tool!NeedsPages
      <3>2. CASE \E f \in ToolFiles : Tool!OnFilesPicked(f)
        <4>1. PICK f \in ToolFiles : picked' = <<f>> /\ cached' = None
          BY <3>1, <3>2 DEF Tool!OnFilesPicked
        <4> QED
          BY <4>1
      <3>3. CASE \E parts \in Tool!Typings : Tool!OnPageSpec(parts)
        BY <2>1, <3>3 DEF Tool!OnPageSpec, ToolPaged
      <3>4. CASE \E i \in DOMAIN picked : Tool!RemoveFile(i)
        <4>1. PICK i \in DOMAIN picked : Tool!RemoveFile(i)
          BY <3>4
        <4>2. picked' = RemoveAt(picked, i) /\ i \in 1..Len(picked)
          BY <1>0, <4>1, ToolListsAre DEF Tool!RemoveFile
        <4>3. PICK n \in Nat : n = Len(picked)
          BY <1>0
        <4>4. n = 1
          BY <2>1, <4>2, <4>3 DEF ToolPaged
        <4>a. /\ RemoveAt(picked, i) \in Seq(ToolFiles)
              /\ Len(RemoveAt(picked, i)) = Len(picked) - 1
          BY <1>0, <4>2, RemoveAtIs
        <4>5. picked' \in Seq(ToolFiles) /\ Len(picked') = 0
          <5>1. Len(picked) - 1 = 0
            BY <4>3, <4>4
          <5> QED
            BY ONLY <4>2, <4>a, <5>1
        <4> QED
          BY <4>5
      <3>5. CASE Tool!Reset
        BY <3>5 DEF Tool!Reset
      <3> QED
        BY <3>2, <3>3, <3>4, <3>5
    <2>4. spare' = IF cached' = None THEN 0 ELSE 1
      BY <1>2, <2>1 DEF ToolPaged
    <2>5. \A s \in Tool!Runs : ~Active(run'[s])
      BY <1>0, <2>2
    <2>6. \A s \in Tool!Runs :
            /\ run'[s].st # "session"
            /\ ~(run'[s].st = "upload" /\ run'[s].up[1] = "sent")
      BY <2>5 DEF Active
    <2> QED
      BY <2>3, <2>4, <2>5, <2>6 DEF ToolPaged, Active
  <1>5. Tool!ResultsWhole'
    BY <1>2 DEF Tool!ResultsWhole
  <1> QED
    BY <1>3, <1>4, <1>5 DEF ToolInv

LEMMA ToolStep ==
  ASSUME ToolInv, Tool!Next
  PROVE  ToolInv'
  <1>1. CASE Tool!Visitor
    <2>1. ASSUME NEW r \in Tool!Runs, Tool!Run(r) PROVE ToolInv'
      BY ONLY ToolInv, <2>1, ToolRun
    <2> QED
      BY <1>1, <2>1, ToolVisitor DEF Tool!Visitor
  <1>2. ASSUME NEW r \in Tool!Runs, Tool!Progress(r) \/ Tool!PollFails(r) PROVE ToolInv'
    <2>1. ASSUME NEW i \in DOMAIN run[r].up, Tool!Uploaded(r, i) \/ Tool!UploadFails(r, i)
          PROVE  ToolInv'
      BY <2>1, ToolUploaded, ToolUploadFails
    <2>2. ASSUME NEW i \in 1..2, Tool!Fetched(r, i) PROVE ToolInv'
      BY <2>2, ToolFetched
    <2> QED
      BY <1>2, <2>1, <2>2, ToolBegin, ToolPoll, ToolEnds DEF Tool!Progress
  <1>3. ASSUME NEW r \in Tool!Runs, NEW end \in {"succeeded", "failed", "canceled"},
               NEW n \in 0..2, Tool!JobServed(r, end, n)
        PROVE  ToolInv'
    BY <1>3, ToolServed
  <1> QED
    BY <1>1, <1>2, <1>3 DEF Tool!Next

LEMMA ToolTells == ToolInv => Tool!TypeOK /\ Tool!RunsAreTrue
  <1> SUFFICES ASSUME ToolInv PROVE Tool!TypeOK /\ Tool!RunsAreTrue
    OBVIOUS
  <1>1. ToolTypes /\ ToolPaged /\ Tool!ResultsWhole
    BY DEF ToolInv
  <1>2. \A r \in Tool!Runs : Sound(r, run[r]) /\ run[r] \in Closures
    BY <1>1 DEF ToolTypes, Sound
  <1>3. Tool!TypeOK
    <2>1. cached = None \/ cached.file \in ToolFiles
      BY <1>1 DEF ToolTypes
    <2>2. \A r \in Tool!Runs :
            /\ run[r].st \in {"no", "session", "upload", "job", "fetch", "over", "left"}
            /\ run[r].job \in {"none", "going", "succeeded", "failed", "canceled"}
      BY <1>2 DEF Closures
    <2> QED
      BY <1>1, <2>1, <2>2 DEF Tool!TypeOK, ToolTypes
  <1>4. Tool!GivenInOrder
    BY <1>2 DEF Tool!GivenInOrder, Sound, InOrderGiven
  <1>5. Tool!PagesExist
    <2>1. \A r \in Tool!Runs : run[r].st = "job" => PagesFit(run[r].params)
      BY <1>2 DEF Sound
    <2> QED
      BY <2>1, ToolListsAre DEF Tool!PagesExist, PagesFit
  <1>6. Tool!UploadedOnce
    BY <1>1 DEF Tool!UploadedOnce, ToolTypes, ToolPaged
  <1>7. Tool!FormatParses
    <2>1. Chosen(Tool!Wanted)
      BY <1>1, ChosenIs DEF Tool!Wanted, ToolTypes
    <2> QED
      BY <2>1, FormatIs DEF Tool!FormatParses
  <1> QED
    BY <1>1, <1>3, <1>4, <1>5, <1>6, <1>7 DEF Tool!RunsAreTrue

LEMMA ToolStays == ToolInv /\ UNCHANGED toolVars => ToolInv'
  <1> SUFFICES ASSUME ToolInv, UNCHANGED toolVars PROVE ToolInv'
    OBVIOUS
  <1>1. ToolTypes'
    BY DEF toolVars, ToolInv, ToolTypes, Sound, InOrderGiven, PagesFit, Tool!NeedsPages,
           Tool!Target
  <1>2. ToolPaged'
    BY DEF toolVars, ToolInv, ToolPaged, Tool!NeedsPages, Tool!Busy
  <1>3. Tool!ResultsWhole'
    BY DEF toolVars, ToolInv, Tool!ResultsWhole, Tool!Target
  <1> QED
    BY <1>1, <1>2, <1>3 DEF ToolInv
=============================================================================
