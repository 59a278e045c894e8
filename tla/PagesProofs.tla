------------------------------ MODULE PagesProofs ------------------------------
(***************************************************************************)
(* Theorems about Pages: what its nine parts promise, each under the        *)
(* discipline its own module names, for any number of requests, documents, *)
(* fields, people, files and runs.  First come the parts that sign, each    *)
(* with its inductive invariant; SitePagesProofs has the others'.           *)
(***************************************************************************)
EXTENDS Pages, SitePagesProofs

-----------------------------------------------------------------------------
(* The signature pad.  Once a render is neither due nor under way, the     *)
(* preview is of what is typed; and a way in that is left is left clean.   *)

Writings == {Pad!Writing(n, f) : n \in Names, f \in Fonts}
PadInv ==
  /\ Pad!TypeOK
  /\ renders \in Seq(Writings)
  /\ given # None => given.picture = given.made /\ given.picture # Pad!Paper
  /\ drawn => ink /\ tab = "draw"
  /\ pen => tab = "draw"
  /\ tab # "type" => ~timer /\ renders = <<>> /\ padTyped = Unwritten
  /\ tab = "upload" => preview \in {None, Pad!Photo}
  /\ padTyped = Unwritten => renders = <<>>
  /\ tab = "type" /\ ~timer =>
        IF renders = <<>> THEN preview \in {None, Pad!Writing(padTyped, font)}
                          ELSE renders[Len(renders)] = Pad!Writing(padTyped, font)
PadMoves == Pad!Next /\ Pad!Looks

LEMMA PadInit == Pad!Init => PadInv
  <1> SUFFICES ASSUME Pad!Init PROVE PadInv
    OBVIOUS
  <1>1. Pad!TypeOK
    <2>1. Len(renders) <= MaxRenders
      BY SigningAssumption DEF Pad!Init, Pad!Assumptions
    <2> QED
      BY <2>1, Zenon DEF Pad!Init, Pad!TypeOK, Pad!Tabs
  <1> QED
    BY <1>1 DEF PadInv, Pad!Init

LEMMA WritingsAre ==
  /\ \A n \in Names, f \in Fonts : Pad!Writing(n, f) \in Writings
  /\ \A n, f : Pad!Writing(n, f) # Pad!Paper
  /\ Pad!Line # Pad!Paper /\ Pad!Photo # Pad!Paper
  /\ Writings \subseteq Pad!Drawings
  /\ {Pad!Line, Pad!Paper, Pad!Photo} \subseteq Pad!Drawings
  BY DEF Writings, Pad!Writing, Pad!Paper, Pad!Line, Pad!Photo, Pad!Drawings

LEMMA PadStep == ASSUME PadInv, PadMoves PROVE PadInv'
  <1> USE DEF PadInv, Pad!TypeOK, Pad!canvas, Pad!text, Pad!Tabs
  <1>0. PadInv /\ Pad!Looks
    BY DEF PadMoves
  <1>m. MaxRenders \in Nat
    BY SigningAssumption DEF Pad!Assumptions
  <1>1. ASSUME NEW t \in Pad!Tabs, Pad!SetTab(t) PROVE PadInv'
    BY <1>0, <1>1 DEF Pad!SetTab, Pad!Looks
  <1>2. CASE Pad!Down
    BY <1>2 DEF Pad!Down
  <1>3. CASE Pad!Move
    BY <1>3 DEF Pad!Move
  <1>4. CASE Pad!Up
    BY <1>4 DEF Pad!Up
  <1>5. CASE Pad!RenderTyped
    <2>1. CASE padTyped = Unwritten
      BY <1>5, <2>1 DEF Pad!RenderTyped
    <2>2. CASE padTyped # Unwritten
      <3>1. /\ renders' = Append(renders, Pad!Writing(padTyped, font))
            /\ Pad!Writing(padTyped, font) \in Writings /\ Len(renders) < MaxRenders
            /\ timer /\ timer' = FALSE /\ tab = "type"
            /\ UNCHANGED <<tab, ink, drawn, pen, padTyped, font, preview, given>>
        BY <1>5, <2>2, WritingsAre DEF Pad!RenderTyped
      <3>2. /\ renders' \in Seq(Writings) /\ renders' # <<>> /\ Len(renders') = Len(renders) + 1
            /\ renders'[Len(renders')] = Pad!Writing(padTyped, font)
        BY <3>1
      <3> QED
        <4>1. Len(renders') <= MaxRenders
          BY <1>m, <3>1, <3>2
        <4> QED
          BY <2>2, <3>1, <3>2, <4>1, Zenon
    <2> QED
      BY <2>1, <2>2
  <1>6. CASE Pad!OnFile
    BY <1>6, WritingsAre DEF Pad!OnFile
  <1>7. CASE Pad!Clear
    BY <1>0, <1>7 DEF Pad!Clear, Pad!Looks
  <1>8. CASE Pad!Use
    BY <1>0, <1>8, WritingsAre DEF Pad!Use, Pad!HasInk, Pad!Made, Pad!Looks
  <1>9. ASSUME NEW n \in Names \cup {Unwritten}, Pad!OnTyped(n) PROVE PadInv'
    BY <1>0, <1>9 DEF Pad!OnTyped, Pad!Looks
  <1>10. ASSUME NEW f \in Fonts, Pad!ChooseFont(f) PROVE PadInv'
    BY <1>10 DEF Pad!ChooseFont
  <1>11. ASSUME NEW i \in 1..MaxRenders, NEW ok \in BOOLEAN, Pad!Rendered(i, ok) PROVE PadInv'
    <2>0. i \in 1..Len(renders) /\ Len(renders) \in Nat
      BY <1>11 DEF Pad!Rendered
    <2>1. i \in 1..Len(renders) /\ renders' = RemoveAt(renders, i)
      BY <1>11 DEF Pad!Rendered, Pad!RemoveAt, RemoveAt
    <2>2. renders' \in Seq(Writings) /\ Len(renders') = Len(renders) - 1
      BY <2>1, RemoveAtIs
    <2>3. renders' = Tail(renders)
      BY <1>0, <2>1, <2>2 DEF Pad!Looks
    <2>4. /\ Len(renders) = 1 => i = 1 /\ renders' = <<>>
          /\ Len(renders) > 1 => renders' # <<>> /\ renders'[Len(renders')] = renders[Len(renders)]
      BY <2>1, <2>2, <2>3
    <2>5. renders[i] \in Writings /\ tab = "type"
      BY <2>1
    <2>6. preview' = (IF ok THEN renders[i] ELSE None)
      BY <1>11 DEF Pad!Rendered
    <2>7. UNCHANGED <<tab, ink, drawn, pen, padTyped, font, timer, given>>
      BY <1>11 DEF Pad!Rendered
    <2>8. Pad!TypeOK'
      BY <1>m, <2>1, <2>2, <2>5, <2>6, <2>7, WritingsAre
    <2>9. CASE Len(renders) = 1
      <3>1. renders' = <<>> /\ renders # <<>>
        <4>1. renders' = <<>>
          BY ONLY <2>4, <2>9
        <4>2. renders # <<>>
          BY ONLY <2>9
        <4> QED
          BY ONLY <4>1, <4>2
      <3>2. tab = "type" /\ ~timer => preview' \in {None, Pad!Writing(padTyped, font)}
        <4>1. tab = "type" /\ ~timer => renders[i] = Pad!Writing(padTyped, font)
          BY <2>4, <2>9, <3>1
        <4> QED
          BY <2>6, <4>1
      <3> QED
        BY <2>2, <2>5, <2>7, <2>8, <3>1, <3>2, Zenon
    <2>10. CASE Len(renders) > 1
      BY <2>2, <2>4, <2>5, <2>6, <2>7, <2>8, <2>10
    <2> HIDE DEF PadInv
    <2>11. \A n \in Nat : i \in 1..n => n = 1 \/ n > 1
      OBVIOUS
    <2> QED
      BY <2>0, <2>9, <2>10, <2>11
  <1> QED
    BY <1>1, <1>2, <1>3, <1>4, <1>5, <1>6, <1>7, <1>8, <1>9, <1>10, <1>11
       DEF PadMoves, Pad!Next

LEMMA PadGives == ASSUME PadInv PROVE Pad!GivenIsMade
  BY DEF PadInv, Pad!GivenIsMade

LEMMA PadStays == PadInv /\ UNCHANGED padVars => PadInv'
  BY DEF padVars, PadInv, Pad!TypeOK

-----------------------------------------------------------------------------
(* The Sign panel.  Whatever is on the page, or can be brought back to it, *)
(* has not been burned while no job has succeeded; and the job under way   *)
(* is for what is on the page.                                             *)

Placements == [id : Sign!Ids, page : 0..(SignPages - 1), moved : BOOLEAN]
IdsIn(list) == {list[i].id : i \in DOMAIN list}
IdsKept(past_) == UNION {IdsIn(past_[i]) : i \in DOMAIN past_}

SignTypes ==
  /\ Sign!TypeOK
  /\ head \in [SignDocs -> Nat] /\ seen \in Nat /\ next \in 0..MaxIds
  /\ placements \in Seq(Placements)
  /\ signPast \in Seq(Seq(Placements)) /\ signFuture \in Seq(Seq(Placements))
  /\ asks \in Seq([sig : Sigs, keep : BOOLEAN])
  /\ burned \in [Sign!Ids -> Nat]

SignInv ==
  /\ SignTypes
  /\ IdsIn(placements) \cup IdsKept(signPast) \cup IdsKept(signFuture) \cup withdrawn
        \subseteq 1..next
  /\ IdsIn(placements) \cap withdrawn = {}
  /\ (job = None \/ job.st # "ok") =>
        \A id \in IdsIn(placements) \cup IdsKept(signPast) \cup IdsKept(signFuture) :
           burned[id] = 0
  /\ job # None => job.doc = signDoc /\ job.ids = IdsIn(placements)
  /\ job # None /\ job.st = "ok" => \A id \in IdsIn(placements) : burned[id] > 0
  /\ \A id \in Sign!Ids : burned[id] \in {0, 1} /\ (id > next => burned[id] = 0)
  /\ \A id \in withdrawn : burned[id] = 0
  /\ \A id \in (1..next) \ (IdsIn(placements) \cup withdrawn) : burned[id] > 0
  /\ sig = None => placements = <<>> /\ signPast = <<>> /\ signFuture = <<>>
SignMoves == Sign!Next /\ Sign!Waits

IdsOfIs == \A list : Sign!IdsOf(list) = IdsIn(list)

LEMMA IdsAreIdsIn == IdsOfIs
  BY DEF IdsOfIs, Sign!IdsOf, IdsIn, Sign!Range

LEMMA IdsOfNone == IdsIn(<<>>) = {} /\ IdsKept(<<>>) = {}
  BY DEF IdsIn, IdsKept

LEMMA IdsAppended ==
  ASSUME NEW s \in Seq(Placements), NEW p \in Placements
  PROVE  /\ Append(s, p) \in Seq(Placements)
         /\ IdsIn(Append(s, p)) = IdsIn(s) \cup {p.id}
  <1>1. /\ Append(s, p) \in Seq(Placements) /\ Len(Append(s, p)) = Len(s) + 1
        /\ \A i \in 1..Len(s) : Append(s, p)[i] = s[i]
        /\ Append(s, p)[Len(s) + 1] = p
    OBVIOUS
  <1>2. /\ DOMAIN s = 1..Len(s) /\ DOMAIN Append(s, p) = 1..(Len(s) + 1)
        /\ Len(s) \in Nat /\ 1..(Len(s) + 1) = (1..Len(s)) \cup {Len(s) + 1}
    BY <1>1
  <1> QED
    BY <1>1, <1>2 DEF IdsIn

LEMMA IdsWithout ==
  ASSUME NEW s \in Seq(Placements), NEW i \in 1..Len(s)
  PROVE  /\ RemoveAt(s, i) \in Seq(Placements)
         /\ IdsIn(RemoveAt(s, i)) \subseteq IdsIn(s)
  <1>1. /\ RemoveAt(s, i) \in Seq(Placements) /\ Len(RemoveAt(s, i)) = Len(s) - 1
        /\ \A j \in 1..(Len(s) - 1) : RemoveAt(s, i)[j] = IF j < i THEN s[j] ELSE s[j + 1]
    BY RemoveAtIs
  <1> HIDE DEF RemoveAt
  <1>2. /\ DOMAIN s = 1..Len(s) /\ Len(s) \in Nat
        /\ DOMAIN RemoveAt(s, i) = 1..(Len(s) - 1)
    BY <1>1
  <1>3. \A j \in 1..(Len(s) - 1) : j \in 1..Len(s) /\ j + 1 \in 1..Len(s)
    BY <1>2
  <1> QED
    BY <1>1, <1>2, <1>3 DEF IdsIn

\* What can be brought back, as the history grows and shrinks.
LEMMA KeptAppended ==
  ASSUME NEW h \in Seq(Seq(Placements)), NEW s \in Seq(Placements)
  PROVE  /\ Append(h, s) \in Seq(Seq(Placements))
         /\ IdsKept(Append(h, s)) = IdsKept(h) \cup IdsIn(s)
  <1>1. /\ Append(h, s) \in Seq(Seq(Placements)) /\ Len(Append(h, s)) = Len(h) + 1
        /\ \A i \in 1..Len(h) : Append(h, s)[i] = h[i]
        /\ Append(h, s)[Len(h) + 1] = s
    OBVIOUS
  <1>2. /\ DOMAIN h = 1..Len(h) /\ DOMAIN Append(h, s) = 1..(Len(h) + 1)
        /\ Len(h) \in Nat /\ 1..(Len(h) + 1) = (1..Len(h)) \cup {Len(h) + 1}
    BY <1>1
  <1> HIDE DEF IdsIn
  <1> QED
    BY <1>1, <1>2 DEF IdsKept

LEMMA KeptTail ==
  ASSUME NEW h \in Seq(Seq(Placements)), h # <<>>
  PROVE  /\ Tail(h) \in Seq(Seq(Placements))
         /\ IdsKept(Tail(h)) \subseteq IdsKept(h)
  <1>1. /\ Tail(h) \in Seq(Seq(Placements)) /\ Len(Tail(h)) = Len(h) - 1
        /\ \A i \in 1..(Len(h) - 1) : Tail(h)[i] = h[i + 1]
    OBVIOUS
  <1>2. /\ DOMAIN h = 1..Len(h) /\ DOMAIN Tail(h) = 1..(Len(h) - 1)
        /\ \A i \in 1..(Len(h) - 1) : i + 1 \in 1..Len(h)
    BY <1>1
  <1> HIDE DEF IdsIn
  <1> QED
    BY <1>1, <1>2 DEF IdsKept

LEMMA KeptFront ==
  ASSUME NEW h \in Seq(Seq(Placements)), h # <<>>
  PROVE  /\ Front(h) \in Seq(Seq(Placements)) /\ Last(h) \in Seq(Placements)
         /\ IdsKept(Front(h)) \cup IdsIn(Last(h)) \subseteq IdsKept(h)
  <1>0. Len(h) \in Nat /\ Len(h) > 0 /\ DOMAIN h = 1..Len(h) /\ Len(h) \in 1..Len(h)
    OBVIOUS
  <1>1. /\ Front(h) \in Seq(Seq(Placements)) /\ Len(Front(h)) = Len(h) - 1
        /\ \A i \in 1..(Len(h) - 1) : Front(h)[i] = h[i]
    BY <1>0 DEF Front
  <1>2. /\ DOMAIN Front(h) = 1..(Len(h) - 1)
        /\ \A i \in 1..(Len(h) - 1) : i \in 1..Len(h)
    BY <1>0, <1>1
  <1>3. Last(h) \in Seq(Placements)
    BY <1>0 DEF Last
  <1> HIDE DEF IdsIn, Front
  <1>4. IdsIn(Last(h)) \subseteq IdsKept(h)
    BY <1>0 DEF IdsKept, Last
  <1>5. IdsKept(Front(h)) \subseteq IdsKept(h)
    BY <1>0, <1>1, <1>2 DEF IdsKept
  <1> QED
    BY <1>1, <1>3, <1>4, <1>5

LEMMA RememberedKept ==
  ASSUME SignTypes, Sign!Remember
  PROVE  /\ signPast' \in Seq(Seq(Placements)) /\ signFuture' \in Seq(Seq(Placements))
         /\ IdsKept(signPast') \subseteq IdsKept(signPast) \cup IdsIn(placements)
         /\ IdsKept(signFuture') = {}
  <1> DEFINE longer == Append(signPast, placements)
  <1>1. /\ longer \in Seq(Seq(Placements)) /\ longer # <<>>
        /\ IdsKept(longer) = IdsKept(signPast) \cup IdsIn(placements)
    <2>1. signPast \in Seq(Seq(Placements)) /\ placements \in Seq(Placements)
      BY DEF SignTypes
    <2>2. longer # <<>>
      <3>1. Len(longer) = Len(signPast) + 1 /\ Len(signPast) \in Nat
        BY <2>1
      <3> QED
        BY <3>1
    <2> QED
      BY <2>1, <2>2, KeptAppended
  <1>2. signPast' = (IF Len(longer) > SignLimit THEN Tail(longer) ELSE longer) /\ signFuture' = <<>>
    BY DEF Sign!Remember
  <1> HIDE DEF longer
  <1>3. Tail(longer) \in Seq(Seq(Placements)) /\ IdsKept(Tail(longer)) \subseteq IdsKept(longer)
    BY <1>1, KeptTail
  <1> QED
    BY <1>1, <1>2, <1>3, IdsOfNone

LEMMA SignInit == Sign!Init => SignInv
  <1> SUFFICES ASSUME Sign!Init PROVE SignInv
    OBVIOUS
  <1>0. MaxIds \in Nat /\ SignPages \in Nat \ {0} /\ None \notin SignDocs \cup Sigs
    BY SigningAssumption DEF Sign!Assumptions
  <1>1. Sign!TypeOK
    <2>1. account \in BOOLEAN
      BY DEF Sign!Init
    <2>2. seen <= head[signDoc] /\ signPage \in 0..SignPages - 1
      BY <1>0 DEF Sign!Init
    <2>3. Sign!IdsOf(placements) \subseteq Sign!Ids
      BY IdsAreIdsIn, IdsOfNone DEF Sign!Init, IdsOfIs
    <2>4. {account, padOpen, keepIt, signBusy} \subseteq BOOLEAN
      BY <2>1, Zenon DEF Sign!Init
    <2> QED
      BY <2>2, <2>3, <2>4 DEF Sign!Init, Sign!TypeOK
  <1>2. SignTypes
    BY <1>0, <1>1 DEF SignTypes, Sign!Init, Sign!Ids
  <1> QED
    BY <1>0, <1>2, IdsOfNone DEF SignInv, Sign!Init, Sign!Ids

\* What changes the page keeps every placement on it or among those taken back.
LEMMA Rearranged ==
  ASSUME SignInv, SignTypes', Sign!Withdraw, next' = next, sig # None,
         UNCHANGED <<job, signDoc, burned, sig>>,
         job # None => placements' = placements,
         IdsIn(placements') \cup IdsKept(signPast') \cup IdsKept(signFuture')
            \subseteq IdsIn(placements) \cup IdsKept(signPast) \cup IdsKept(signFuture)
  PROVE  SignInv'
  <1> DEFINE live == IdsIn(placements) \cup IdsKept(signPast) \cup IdsKept(signFuture)
  <1>1. withdrawn' = (withdrawn \cup IdsIn(placements)) \ IdsIn(placements')
    BY IdsAreIdsIn DEF Sign!Withdraw, IdsOfIs
  <1>2. IdsIn(placements') \cup IdsKept(signPast') \cup IdsKept(signFuture') \subseteq live
    OBVIOUS
  <1>3. /\ live \cup withdrawn \subseteq 1..next /\ IdsIn(placements) \subseteq live
        /\ IdsIn(placements) \cap withdrawn = {}
        /\ (job = None \/ job.st # "ok") => \A id \in live : burned[id] = 0
        /\ job # None => job.doc = signDoc /\ job.ids = IdsIn(placements)
        /\ job # None /\ job.st = "ok" => \A id \in IdsIn(placements) : burned[id] > 0
        /\ \A id \in Sign!Ids : burned[id] \in {0, 1} /\ (id > next => burned[id] = 0)
        /\ \A id \in withdrawn : burned[id] = 0
        /\ \A id \in (1..next) \ (IdsIn(placements) \cup withdrawn) : burned[id] > 0
    BY DEF SignInv
  <1> HIDE DEF live
  <1>4. /\ (IdsIn(placements) \cup IdsKept(signPast) \cup IdsKept(signFuture) \cup withdrawn)'
              \subseteq 1..next
        /\ IdsIn(placements') \cap withdrawn' = {}
    BY <1>1, <1>2, <1>3
  <1>5. (job = None \/ job.st # "ok") =>
           \A id \in IdsIn(placements') \cup IdsKept(signPast') \cup IdsKept(signFuture') :
              burned[id] = 0
    BY <1>2, <1>3
  <1>6. \A id \in withdrawn' : burned[id] = 0
    BY <1>1, <1>3
  <1>7. \A id \in (1..next) \ (IdsIn(placements') \cup withdrawn') : burned[id] > 0
    BY <1>1, <1>3
  <1>8. /\ job # None => job.doc = signDoc /\ job.ids = IdsIn(placements')
        /\ job # None /\ job.st = "ok" => \A id \in IdsIn(placements') : burned[id] > 0
    BY <1>3
  <1> QED
    BY <1>3, <1>4, <1>5, <1>6, <1>7, <1>8 DEF SignInv

\* The invariant is of these alone.
LEMMA Untouched ==
  ASSUME SignInv, SignTypes', sig' = sig \/ sig' # None,
         UNCHANGED <<signDoc, placements, signPast, signFuture, next, job, burned, withdrawn>>
  PROVE  SignInv'
  BY DEF SignInv

LEMMA ElementIs == \A S : \A s \in Seq(S) : \A i \in 1..Len(s) : s[i] \in S
  OBVIOUS

LEMMA EmptySeqs == <<>> \in Seq(Placements) /\ <<>> \in Seq(Seq(Placements))
  OBVIOUS

LEMMA IdsAreIds ==
  ASSUME placements' \in Seq(Placements)
  PROVE  Sign!IdsOf(placements)' \subseteq Sign!Ids
  <1>1. \A i \in DOMAIN placements' : placements'[i] \in Placements
    OBVIOUS
  <1>2. Sign!IdsOf(placements)' = IdsIn(placements')
    BY IdsAreIdsIn DEF IdsOfIs
  <1> QED
    BY <1>1, <1>2 DEF IdsIn, Placements

LEMMA SignTypesStep == ASSUME SignInv, SignMoves PROVE SignTypes'
  <1>r. Sign!Remember => /\ signPast' \in Seq(Seq(Placements))
                         /\ signFuture' \in Seq(Seq(Placements))
    BY RememberedKept DEF SignInv
  <1> USE DEF SignTypes, Sign!TypeOK, Sign!pad, Sign!placed, Sign!server, Sign!Jobs
  <1>0. /\ MaxIds \in Nat /\ SignPages \in Nat \ {0} /\ None \notin SignDocs \cup Sigs
        /\ SignTypes
    BY SigningAssumption DEF Sign!Assumptions, SignInv
  <1>a. IdsOfIs
    BY IdsAreIdsIn
  <1>1. ASSUME NEW ok \in BOOLEAN, Sign!Saved(ok) PROVE SignTypes'
    BY <1>0, <1>1 DEF Sign!Saved, Sign!IdsOf
  <1>2. ASSUME NEW ok \in BOOLEAN, Sign!JobServed(ok) PROVE SignTypes'
    <2>1. job \in Sign!Jobs /\ job.doc \in SignDocs
      BY <1>0, <1>2 DEF Sign!JobServed
    <2>2. CASE ok /\ job.base = head[job.doc] /\ head[job.doc] < MaxHead
      <3>1. /\ head' = [head EXCEPT ![job.doc] = @ + 1]
            /\ burned' = [id \in Sign!Ids |-> burned[id] + IF id \in job.ids THEN 1 ELSE 0]
            /\ job' = [job EXCEPT !.st = "ok"]
            /\ UNCHANGED <<signDoc, seen, account, kept, sig, padOpen, keepIt, asks, signBusy,
                          placements, signPast, signFuture, next, withdrawn, signSelected,
                          signPage>>
        BY <1>2, <2>2 DEF Sign!JobServed
      <3>2. head' \in [SignDocs -> Nat] /\ head'[signDoc] >= head[signDoc]
        BY <1>0, <2>1, <3>1
      <3>3. burned' \in [Sign!Ids -> Nat]
        BY <1>0, <3>1
      <3>4. job' \in Sign!Jobs
        BY <2>1, <3>1
      <3>5. /\ Sign!IdsOf(placements)' = Sign!IdsOf(placements)
            /\ seen' <= head'[signDoc']
        BY <1>0, <3>1, <3>2, <3>4 DEF Sign!IdsOf
      <3>6. {account', padOpen', keepIt', signBusy'} \subseteq BOOLEAN
        BY <1>0, <3>1
      <3> QED
        BY <1>0, <3>1, <3>2, <3>3, <3>4, <3>5, <3>6
    <2>3. CASE ~(ok /\ job.base = head[job.doc] /\ head[job.doc] < MaxHead)
      <3>1. /\ job' = [job EXCEPT !.st = IF job.base = head[job.doc] THEN "failed"
                                                                     ELSE "conflict"]
            /\ UNCHANGED <<signDoc, seen, account, kept, sig, padOpen, keepIt, asks, signBusy,
                          placements, signPast, signFuture, next, withdrawn, signSelected,
                          signPage, head, burned>>
        BY <1>2, <2>3 DEF Sign!JobServed
      <3>4. job' \in Sign!Jobs
        BY <2>1, <3>1
      <3> QED
        BY <1>0, <3>1, <3>4 DEF Sign!IdsOf
    <2> QED
      BY <2>2, <2>3
  <1>3. ASSUME NEW ok \in BOOLEAN, NEW i \in 1..MaxAsks, Sign!SignatureAnswer(i, ok)
        PROVE  SignTypes'
    <2>1. i \in 1..Len(asks) /\ asks' = RemoveAt(asks, i)
      BY <1>0, <1>3 DEF Sign!SignatureAnswer, Sign!RemoveAt, RemoveAt
    <2>2. asks' \in Seq([sig : Sigs, keep : BOOLEAN])
      BY <1>0, <2>1, RemoveAtIs
    <2>3. asks[i] \in [sig : Sigs, keep : BOOLEAN]
      BY ONLY <1>0, <2>1, ElementIs DEF SignTypes
    <2>4. signBusy' \in BOOLEAN /\ padOpen' \in BOOLEAN
      <3>1. signBusy' = (signBusy /\ asks[i].keep) /\ padOpen' \in {padOpen, FALSE}
        BY <1>3 DEF Sign!SignatureAnswer
      <3> QED
        BY <1>0, <3>1
    <2>5. kept' \subseteq Sigs /\ sig' \in Sigs \cup {None}
      BY <1>0, <1>3, <2>3 DEF Sign!SignatureAnswer
    <2> QED
      BY <1>0, <1>3, <2>2, <2>4, <2>5 DEF Sign!SignatureAnswer, Sign!IdsOf
  <1>4. ASSUME NEW s \in Sigs, Sign!Choose(s) PROVE SignTypes'
    BY <1>0, <1>4 DEF Sign!Choose, Sign!IdsOf
  <1>5. ASSUME NEW s \in Sigs, Sign!OnSignature(s) PROVE SignTypes'
    <2>1. asks' = Append(asks, [sig |-> s, keep |-> keepIt /\ account])
      BY <1>5 DEF Sign!OnSignature
    <2>2. (keepIt /\ account) \in BOOLEAN
      OBVIOUS
    <2>3. asks' \in Seq([sig : Sigs, keep : BOOLEAN])
      BY <1>0, <2>1, <2>2
    <2>4. signBusy' \in BOOLEAN
      BY <1>5 DEF Sign!OnSignature
    <2> QED
      BY <1>0, <1>5, <2>3, <2>4 DEF Sign!OnSignature, Sign!IdsOf
  <1>6. CASE Sign!TogglePad
    BY <1>0, <1>6 DEF Sign!TogglePad, Sign!IdsOf
  <1>7. CASE Sign!ToggleKeep
    BY <1>0, <1>7 DEF Sign!ToggleKeep, Sign!IdsOf
  <1>8. CASE Sign!OnPlaced
    <2>1. CASE sig = None
      BY <1>0, <1>8, <2>1 DEF Sign!OnPlaced, Sign!Beside, Sign!IdsOf
    <2>2. CASE sig # None
      <3>1. /\ next < MaxIds /\ Sign!Remember /\ next' = next + 1
            /\ placements' = Append(placements, [id |-> next + 1, page |-> signPage,
                                                moved |-> FALSE])
            /\ UNCHANGED <<signDoc, seen, account, kept, sig, padOpen, keepIt, asks, signBusy,
                          signPage, signSelected, job, head, burned>>
        BY <1>8, <2>2 DEF Sign!OnPlaced, Sign!Beside, Sign!Place
      <3>2. [id |-> next + 1, page |-> signPage, moved |-> FALSE] \in Placements
        BY <1>0, <3>1 DEF Placements, Sign!Ids
      <3>3. placements' \in Seq(Placements) /\ next' \in 0..MaxIds
        BY <1>0, <3>1, <3>2, IdsAppended
      <3>4. signPast' \in Seq(Seq(Placements)) /\ signFuture' \in Seq(Seq(Placements))
        BY ONLY <1>r, <3>1
      <3>5. Sign!IdsOf(placements)' \subseteq Sign!Ids
        BY <3>3, IdsAreIds
      <3> QED
        BY <1>0, <3>1, <3>3, <3>4, <3>5
    <2> QED
      BY <2>1, <2>2
  <1>9. CASE Sign!Undo
    <2>1. /\ signPast # <<>> /\ placements' = Last(signPast) /\ signPast' = Front(signPast)
          /\ signFuture' = Append(signFuture, placements)
          /\ UNCHANGED <<signDoc, seen, account, kept, sig, padOpen, keepIt, asks, signBusy,
                        signPage, signSelected, job, head, burned, next>>
      BY <1>9 DEF Sign!Undo, Sign!Beside, Sign!Last, Sign!Front, Last, Front
    <2>2. /\ placements' \in Seq(Placements) /\ signPast' \in Seq(Seq(Placements))
          /\ signFuture' \in Seq(Seq(Placements))
      BY <1>0, <2>1, KeptFront, KeptAppended
    <2>3. Sign!IdsOf(placements)' \subseteq Sign!Ids
      BY <2>2, IdsAreIds
    <2> QED
      BY <1>0, <2>1, <2>2, <2>3
  <1>10. CASE Sign!Redo
    <2>1. /\ signFuture # <<>> /\ placements' = Last(signFuture)
          /\ signFuture' = Front(signFuture) /\ signPast' = Append(signPast, placements)
          /\ UNCHANGED <<signDoc, seen, account, kept, sig, padOpen, keepIt, asks, signBusy,
                        signPage, signSelected, job, head, burned, next>>
      BY <1>10 DEF Sign!Redo, Sign!Beside, Sign!Last, Sign!Front, Last, Front
    <2>2. /\ placements' \in Seq(Placements) /\ signPast' \in Seq(Seq(Placements))
          /\ signFuture' \in Seq(Seq(Placements))
      BY <1>0, <2>1, KeptFront, KeptAppended
    <2>3. Sign!IdsOf(placements)' \subseteq Sign!Ids
      BY <2>2, IdsAreIds
    <2> QED
      BY <1>0, <2>1, <2>2, <2>3
  <1>11. ASSUME NEW id \in Sign!Ids, Sign!RemovePlacement(id) PROVE SignTypes'
    <2>1. PICK i \in DOMAIN placements : placements' = RemoveAt(placements, i)
      BY <1>11 DEF Sign!RemovePlacement, Sign!Unplace, Sign!RemoveAt, RemoveAt
    <2>2. placements' \in Seq(Placements)
      BY <1>0, <2>1, IdsWithout
    <2>3. Sign!IdsOf(placements)' \subseteq Sign!Ids
      BY <2>2, IdsAreIds
    <2>4. signPast' \in Seq(Seq(Placements)) /\ signFuture' \in Seq(Seq(Placements))
      BY ONLY <1>r, <1>11 DEF Sign!RemovePlacement, Sign!Unplace
    <2>5. /\ UNCHANGED <<signDoc, seen, account, kept, sig, padOpen, keepIt, asks, signBusy,
                        signPage, job, head, burned, next>>
          /\ signSelected' \in {signSelected, None}
      BY <1>11 DEF Sign!RemovePlacement, Sign!Beside
    <2> QED
      BY <1>0, <2>2, <2>3, <2>4, <2>5
  <1>12. ASSUME NEW id \in Sign!Ids, Sign!OnGeometryChanged(id) PROVE SignTypes'
    <2>1. placements' = [i \in DOMAIN placements |->
                           IF placements[i].id = id
                           THEN [placements[i] EXCEPT !.moved = ~@] ELSE placements[i]]
      BY <1>12 DEF Sign!OnGeometryChanged, Sign!MovePlacement
    <2>2. placements' \in Seq(Placements)
      <3>1. \A i \in DOMAIN placements : placements[i] \in Placements
        BY <1>0
      <3>2. \A p \in Placements : [p EXCEPT !.moved = ~@] \in Placements
        BY DEF Placements
      <3>3. placements' \in [1..Len(placements) -> Placements] /\ Len(placements) \in Nat
        BY <1>0, <2>1, <3>1, <3>2
      <3> QED
        BY <3>3
    <2>3. Sign!IdsOf(placements)' \subseteq Sign!Ids
      BY <2>2, IdsAreIds
    <2>4. signPast' \in Seq(Seq(Placements)) /\ signFuture' \in Seq(Seq(Placements))
      BY ONLY <1>r, <1>12 DEF Sign!OnGeometryChanged, Sign!MovePlacement
    <2>5. UNCHANGED <<signDoc, seen, account, kept, sig, padOpen, keepIt, asks, signBusy,
                      signPage, job, head, burned, next, signSelected>>
      BY <1>12 DEF Sign!OnGeometryChanged, Sign!Beside
    <2> QED
      BY <1>0, <2>2, <2>3, <2>4, <2>5
  <1>13. ASSUME NEW id \in Sign!Ids \cup {None}, Sign!OnSelect(id) PROVE SignTypes'
    BY <1>0, <1>13 DEF Sign!OnSelect, Sign!Beside, Sign!IdsOf
  <1>14. ASSUME NEW p \in 0..SignPages - 1, Sign!TurnPage(p) PROVE SignTypes'
    BY <1>0, <1>14 DEF Sign!TurnPage, Sign!IdsOf
  <1>15. CASE Sign!Apply
    <2>1. job' = [doc |-> signDoc, base |-> seen, ids |-> Sign!IdsOf(placements), sig |-> sig,
                  st |-> "sent"]
      BY <1>15 DEF Sign!Apply
    <2>2. job' \in Sign!Jobs
      BY <1>0, <2>1
    <2> QED
      BY <1>0, <1>15, <2>2 DEF Sign!Apply, Sign!IdsOf
  <1>16. CASE Sign!JobAnswer
    <2>1. /\ <<placements', signPast', signFuture'>>
                \in {<<placements, signPast, signFuture>>, <<<<>>, <<>>, <<>>>>}
          /\ seen' \in {seen, head[signDoc]} /\ job' = None /\ signBusy' = FALSE
          /\ UNCHANGED <<signDoc, account, kept, sig, padOpen, keepIt, asks, next, withdrawn,
                        signSelected, signPage, head, burned>>
      BY <1>16 DEF Sign!JobAnswer, Sign!Clear
    <2>2. /\ placements' \in Seq(Placements) /\ signPast' \in Seq(Seq(Placements))
          /\ signFuture' \in Seq(Seq(Placements))
      BY <1>0, <2>1, EmptySeqs
    <2>3. Sign!IdsOf(placements)' \subseteq Sign!Ids
      BY <2>2, IdsAreIds
    <2>4. seen' \in Nat /\ seen' <= head'[signDoc']
      BY <1>0, <2>1
    <2>5. {account', padOpen', keepIt', signBusy'} \subseteq BOOLEAN
      BY <1>0, <2>1
    <2> QED
      BY <1>0, <2>1, <2>2, <2>3, <2>4, <2>5, Zenon
  <1>17. CASE Sign!JobLost
    BY <1>0, <1>17 DEF Sign!JobLost, Sign!IdsOf
  <1>18. CASE Sign!Refreshed
    BY <1>0, <1>18 DEF Sign!Refreshed, Sign!IdsOf
  <1>19. ASSUME NEW d \in SignDocs, Sign!Elsewhere(d) PROVE SignTypes'
    BY <1>0, <1>19 DEF Sign!Elsewhere, Sign!IdsOf
  <1>20. ASSUME NEW d \in SignDocs, Sign!Navigate(d) PROVE SignTypes'
    <2>1. Sign!IdsOf(placements)' = {}
      BY <1>20 DEF Sign!Navigate, Sign!Clear, Sign!IdsOf, Sign!Range
    <2> QED
      BY <1>0, <1>20, <2>1 DEF Sign!Navigate, Sign!Clear
  <1> QED
    BY <1>1, <1>2, <1>3, <1>4, <1>5, <1>6, <1>7, <1>8, <1>9, <1>10, <1>11, <1>12, <1>13,
       <1>14, <1>15, <1>16, <1>17, <1>18, <1>19, <1>20 DEF SignMoves, Sign!Next

LEMMA SignStep == ASSUME SignInv, SignMoves PROVE SignInv'
  <1>t. SignTypes' /\ SignTypes
    BY SignTypesStep DEF SignInv
  <1>w. Sign!Waits
    BY DEF SignMoves
  <1>0. MaxIds \in Nat /\ None \notin SignDocs \cup Sigs
    BY SigningAssumption DEF Sign!Assumptions
  <1>1. ASSUME NEW ok \in BOOLEAN, Sign!Saved(ok) PROVE SignInv'
    BY <1>t, <1>1, Untouched DEF Sign!Saved, Sign!placed, Sign!server
  <1>2. ASSUME NEW ok \in BOOLEAN, Sign!JobServed(ok) PROVE SignInv'
    <2>1. /\ job # None /\ job.st = "sent" /\ job \in Sign!Jobs /\ job.ids = IdsIn(placements)
          /\ UNCHANGED <<signDoc, sig, placements, signPast, signFuture, next, withdrawn>>
      BY <1>2, <1>t DEF Sign!JobServed, Sign!pad, Sign!placed, SignTypes, Sign!TypeOK, SignInv
    <2>2. CASE ok /\ job.base = head[job.doc] /\ head[job.doc] < MaxHead
      <3>1. /\ burned' = [id \in Sign!Ids |-> burned[id] + IF id \in job.ids THEN 1 ELSE 0]
            /\ job' = [job EXCEPT !.st = "ok"]
        BY <1>2, <2>2 DEF Sign!JobServed
      <3>2. job' # None /\ job'.st = "ok" /\ job'.doc = job.doc /\ job'.ids = job.ids
        <4>1. job' \in Sign!Jobs /\ job'.st = "ok" /\ job'.doc = job.doc /\ job'.ids = job.ids
          BY <2>1, <3>1 DEF Sign!Jobs
        <4>2. None \notin Sign!Jobs
          BY SigningAssumption DEF Sign!Assumptions
        <4> QED
          BY <4>1, <4>2
      <3>3. IdsIn(placements) \subseteq 1..next /\ 1..next \subseteq Sign!Ids
        BY <1>0, <1>t DEF SignInv, SignTypes, Sign!Ids
      <3>4. \A id \in Sign!Ids : /\ id \in IdsIn(placements) => burned[id] = 0 /\ burned'[id] = 1
                                 /\ id \notin IdsIn(placements) => burned'[id] = burned[id]
        BY <1>t, <2>1, <3>1 DEF SignInv, SignTypes
      <3>5. \A id \in Sign!Ids : burned'[id] \in {0, 1} /\ (id > next => burned'[id] = 0)
        <4>1. ASSUME NEW id \in Sign!Ids
              PROVE  burned'[id] \in {0, 1} /\ (id > next => burned'[id] = 0)
          <5>1. CASE id \in IdsIn(placements)
            <6>1. id \in 1..next /\ next \in Nat
              BY <1>t, <3>3, <5>1 DEF SignTypes
            <6>2. burned'[id] = 1 /\ ~(id > next)
              BY <3>4, <5>1, <6>1
            <6> QED
              BY <6>2
          <5>2. CASE id \notin IdsIn(placements)
            BY <3>4, <5>2 DEF SignInv
          <5> QED
            BY <5>1, <5>2
        <4> QED
          BY <4>1
      <3>6. \A id \in withdrawn : burned'[id] = 0
        BY <3>3, <3>4 DEF SignInv
      <3>7. \A id \in IdsIn(placements) : burned'[id] > 0
        <4>1. \A id \in IdsIn(placements) : burned'[id] = 1
          BY <3>3, <3>4, Zenon
        <4> QED
          BY <4>1
      <3>8. \A id \in (1..next) \ (IdsIn(placements) \cup withdrawn) : burned'[id] > 0
        BY <3>3, <3>4 DEF SignInv
      <3> QED
        BY <1>t, <2>1, <3>2, <3>5, <3>6, <3>7, <3>8 DEF SignInv
    <2>3. CASE ~(ok /\ job.base = head[job.doc] /\ head[job.doc] < MaxHead)
      <3>1. /\ job' = [job EXCEPT !.st = IF job.base = head[job.doc] THEN "failed"
                                                                     ELSE "conflict"]
            /\ UNCHANGED <<head, burned>>
        BY <1>2, <2>3 DEF Sign!JobServed, Sign!server
      <3>2. job'.st # "ok" /\ job'.doc = job.doc /\ job'.ids = job.ids
        BY <2>1, <3>1 DEF Sign!Jobs
      <3> QED
        BY <1>t, <2>1, <3>1, <3>2 DEF SignInv
    <2> QED
      BY <2>2, <2>3
  <1>3. ASSUME NEW ok \in BOOLEAN, NEW i \in 1..MaxAsks, Sign!SignatureAnswer(i, ok)
        PROVE  SignInv'
    <2>1. sig' = sig \/ sig' # None
      <3>1. i \in 1..Len(asks)
        BY <1>t, <1>3 DEF Sign!SignatureAnswer, SignTypes
      <3>2. asks[i] \in [sig : Sigs, keep : BOOLEAN]
        BY <1>t, <3>1, ElementIs DEF SignTypes
      <3> QED
        BY <1>0, <1>3, <3>2 DEF Sign!SignatureAnswer
    <2> QED
      BY <1>t, <1>3, <2>1, Untouched DEF Sign!SignatureAnswer, Sign!placed, Sign!server
  <1>4. ASSUME NEW s \in Sigs, Sign!Choose(s) PROVE SignInv'
    BY <1>t, <1>0, <1>4, Untouched DEF Sign!Choose, Sign!placed, Sign!server
  <1>5. ASSUME NEW s \in Sigs, Sign!OnSignature(s) PROVE SignInv'
    BY <1>t, <1>5, Untouched DEF Sign!OnSignature, Sign!placed, Sign!server
  <1>6. CASE Sign!TogglePad
    BY <1>t, <1>6, Untouched DEF Sign!TogglePad, Sign!placed, Sign!server
  <1>7. CASE Sign!ToggleKeep
    BY <1>t, <1>7, Untouched DEF Sign!ToggleKeep, Sign!placed, Sign!server
  <1>8. CASE Sign!OnPlaced
    <2>1. CASE sig = None
      BY <1>t, <1>8, <2>1, Untouched DEF Sign!OnPlaced, Sign!Beside, Sign!placed, Sign!server
    <2>2. CASE sig # None
      <3>1. /\ next < MaxIds /\ Sign!Remember /\ next' = next + 1 /\ Sign!Withdraw
            /\ placements' = Append(placements, [id |-> next + 1, page |-> signPage,
                                                moved |-> FALSE])
            /\ UNCHANGED <<signDoc, sig, job, burned>>
        BY <1>8, <2>2 DEF Sign!OnPlaced, Sign!Beside, Sign!Place, Sign!server
      <3>2. [id |-> next + 1, page |-> signPage, moved |-> FALSE] \in Placements
        BY <1>0, <1>t, <3>1 DEF Placements, Sign!Ids, SignTypes, Sign!TypeOK
      <3>3. IdsIn(placements') = IdsIn(placements) \cup {next + 1}
        BY <1>t, <3>1, <3>2, IdsAppended DEF SignTypes
      <3>4. /\ IdsKept(signPast') \subseteq IdsKept(signPast) \cup IdsIn(placements)
            /\ IdsKept(signFuture') = {}
        BY <1>t, <3>1, RememberedKept
      <3>5. withdrawn' = (withdrawn \cup IdsIn(placements)) \ IdsIn(placements')
        BY <3>1, IdsAreIdsIn DEF Sign!Withdraw, IdsOfIs
      <3>6. job = None
        <4>1. next + 1 \notin IdsIn(placements) /\ next \in Nat
          BY <1>t DEF SignInv, SignTypes
        <4>2. placements' # placements
          BY <3>3, <4>1
        <4>3. ~Sign!JobAnswer
          BY <3>1, <4>1 DEF Sign!JobAnswer
        <4> QED
          BY <1>w, <4>2, <4>3 DEF Sign!Waits
      <3>7. next + 1 \in Sign!Ids /\ burned[next + 1] = 0 /\ next \in Nat
        BY <1>t, <1>0, <3>1 DEF Sign!Ids, SignInv, SignTypes
      <3>8. withdrawn' = withdrawn
        BY <3>3, <3>5, <3>7 DEF SignInv
      <3>9. (IdsIn(placements) \cup IdsKept(signPast) \cup IdsKept(signFuture) \cup withdrawn)'
               \subseteq 1..(next + 1)
        BY <3>3, <3>4, <3>7, <3>8 DEF SignInv
      <3>10. /\ \A id \in (IdsIn(placements) \cup IdsKept(signPast)
                              \cup IdsKept(signFuture))' : burned[id] = 0
             /\ \A id \in (1..(next + 1)) \ (IdsIn(placements') \cup withdrawn) :
                   burned[id] > 0
        BY <3>3, <3>4, <3>6, <3>7 DEF SignInv
      <3>11. /\ IdsIn(placements') \cap withdrawn = {}
             /\ \A id \in Sign!Ids : burned[id] \in {0, 1} /\ (id > next + 1 => burned[id] = 0)
             /\ \A id \in withdrawn : burned[id] = 0
        <4>1. \A id \in Sign!Ids : id > next + 1 => id > next
          BY <3>7 DEF Sign!Ids
        <4> QED
          BY <3>3, <3>7, <4>1 DEF SignInv
      <3> QED
        BY <1>t, <2>2, <3>1, <3>6, <3>8, <3>9, <3>10, <3>11 DEF SignInv
    <2> QED
      BY <2>1, <2>2
  <1>9. CASE Sign!Undo
    <2>1. /\ signPast # <<>> /\ placements' = Last(signPast) /\ signPast' = Front(signPast)
          /\ signFuture' = Append(signFuture, placements) /\ Sign!Withdraw
          /\ UNCHANGED <<signDoc, sig, job, burned, next>>
      BY <1>9 DEF Sign!Undo, Sign!Beside, Sign!Last, Sign!Front, Last, Front, Sign!server
    <2>2. /\ IdsIn(placements') \cup IdsKept(signPast') \subseteq IdsKept(signPast)
          /\ IdsKept(signFuture') = IdsKept(signFuture) \cup IdsIn(placements)
      BY <1>t, <2>1, KeptFront, KeptAppended DEF SignTypes
    <2>3. sig # None
      BY <2>1 DEF SignInv
    <2>4. job # None => placements' = placements
      BY <1>w, <2>1 DEF Sign!Waits, Sign!JobAnswer
    <2> QED
      BY <1>t, <2>1, <2>2, <2>3, <2>4, Rearranged
  <1>10. CASE Sign!Redo
    <2>1. /\ signFuture # <<>> /\ placements' = Last(signFuture)
          /\ signFuture' = Front(signFuture)
          /\ signPast' = Append(signPast, placements) /\ Sign!Withdraw
          /\ UNCHANGED <<signDoc, sig, job, burned, next>>
      BY <1>10 DEF Sign!Redo, Sign!Beside, Sign!Last, Sign!Front, Last, Front, Sign!server
    <2>2. /\ IdsIn(placements') \cup IdsKept(signFuture') \subseteq IdsKept(signFuture)
          /\ IdsKept(signPast') = IdsKept(signPast) \cup IdsIn(placements)
      BY <1>t, <2>1, KeptFront, KeptAppended DEF SignTypes
    <2>3. sig # None
      BY <2>1 DEF SignInv
    <2>4. job # None => placements' = placements
      BY <1>w, <2>1 DEF Sign!Waits, Sign!JobAnswer
    <2> QED
      BY <1>t, <2>1, <2>2, <2>3, <2>4, Rearranged
  <1>11. ASSUME NEW id \in Sign!Ids, Sign!RemovePlacement(id) PROVE SignInv'
    <2>1. /\ Sign!Remember /\ Sign!Withdraw /\ id \in IdsIn(placements)
          /\ UNCHANGED <<signDoc, sig, job, burned, next>>
      BY <1>11, IdsAreIdsIn
         DEF Sign!RemovePlacement, Sign!Unplace, Sign!Beside, Sign!server, IdsOfIs
    <2>2. PICK i \in DOMAIN placements : placements' = RemoveAt(placements, i)
      BY <1>11 DEF Sign!RemovePlacement, Sign!Unplace, Sign!RemoveAt, RemoveAt
    <2>3. IdsIn(placements') \subseteq IdsIn(placements)
      <3>1. placements \in Seq(Placements) /\ i \in 1..Len(placements)
        BY <1>t, <2>2 DEF SignTypes
      <3> QED
        BY <2>2, <3>1, IdsWithout
    <2>4. /\ IdsKept(signPast') \subseteq IdsKept(signPast) \cup IdsIn(placements)
          /\ IdsKept(signFuture') = {}
      BY <1>t, <2>1, RememberedKept
    <2>5. sig # None
      BY <2>1, IdsOfNone DEF SignInv
    <2>6. job # None => placements' = placements
      BY <1>w, <2>1 DEF Sign!Waits, Sign!JobAnswer
    <2> QED
      BY <1>t, <2>1, <2>3, <2>4, <2>5, <2>6, Rearranged
  <1>12. ASSUME NEW id \in Sign!Ids, Sign!OnGeometryChanged(id) PROVE SignInv'
    <2>1. /\ Sign!Remember /\ id \in IdsIn(placements)
          /\ placements' = [i \in DOMAIN placements |->
                              IF placements[i].id = id
                              THEN [placements[i] EXCEPT !.moved = ~@] ELSE placements[i]]
          /\ UNCHANGED <<signDoc, sig, job, burned, next, withdrawn>>
      BY <1>12, IdsAreIdsIn
         DEF Sign!OnGeometryChanged, Sign!MovePlacement, Sign!Beside, Sign!server, IdsOfIs
    <2>2. IdsIn(placements') = IdsIn(placements)
      <3>1. \A i \in DOMAIN placements : placements[i] \in Placements
        BY <1>t DEF SignTypes
      <3>2. \A p \in Placements : [p EXCEPT !.moved = ~@].id = p.id
        BY DEF Placements
      <3>3. /\ DOMAIN placements' = DOMAIN placements
            /\ \A i \in DOMAIN placements : placements'[i].id = placements[i].id
        BY <2>1, <3>1, <3>2
      <3> QED
        BY <3>3 DEF IdsIn
    <2>3. /\ IdsKept(signPast') \subseteq IdsKept(signPast) \cup IdsIn(placements)
          /\ IdsKept(signFuture') = {}
      BY <1>t, <2>1, RememberedKept
    <2>4. sig # None
      BY <2>1, IdsOfNone DEF SignInv
    <2>5. job # None => placements' = placements
      BY <1>w, <2>1 DEF Sign!Waits, Sign!JobAnswer
    <2>6. Sign!Withdraw
      <3>1. withdrawn = (withdrawn \cup IdsIn(placements)) \ IdsIn(placements')
        BY <2>2 DEF SignInv
      <3> QED
        BY <2>1, <3>1, IdsAreIdsIn DEF Sign!Withdraw, IdsOfIs
    <2> QED
      BY <1>t, <2>1, <2>2, <2>3, <2>4, <2>5, <2>6, Rearranged
  <1>13. ASSUME NEW id \in Sign!Ids \cup {None}, Sign!OnSelect(id) PROVE SignInv'
    BY <1>t, <1>13, Untouched DEF Sign!OnSelect, Sign!Beside, Sign!placed, Sign!server
  <1>14. ASSUME NEW p \in 0..SignPages - 1, Sign!TurnPage(p) PROVE SignInv'
    BY <1>t, <1>14, Untouched DEF Sign!TurnPage, Sign!pad, Sign!placed, Sign!server
  <1>15. CASE Sign!Apply
    <2>1. /\ job = None /\ job' = [doc |-> signDoc, base |-> seen, ids |-> IdsIn(placements),
                                  sig |-> sig, st |-> "sent"]
          /\ UNCHANGED <<signDoc, placements, signPast, signFuture, next, burned, withdrawn, sig>>
      BY <1>15, IdsAreIdsIn DEF Sign!Apply, Sign!pad, Sign!placed, Sign!server, IdsOfIs
    <2> QED
      BY <1>t, <2>1 DEF SignInv
  <1>16. CASE Sign!JobAnswer
    <2>1. /\ job # None /\ job.st # "sent" /\ job' = None
          /\ UNCHANGED <<signDoc, next, burned, withdrawn, sig>>
      BY <1>16 DEF Sign!JobAnswer, Sign!pad, Sign!server
    <2>2. CASE job.st = "ok"
      <3>1. /\ placements' = <<>> /\ signPast' = <<>> /\ signFuture' = <<>>
            /\ IdsIn(placements') = {} /\ IdsKept(signPast') = {} /\ IdsKept(signFuture') = {}
        BY <1>16, <2>2, IdsOfNone DEF Sign!JobAnswer, Sign!Clear
      <3> QED
        BY <1>t, <2>1, <2>2, <3>1 DEF SignInv
    <2>3. CASE job.st # "ok"
      <3>1. UNCHANGED <<placements, signPast, signFuture>>
        BY <1>16, <2>3 DEF Sign!JobAnswer
      <3> QED
        BY <1>t, <2>1, <2>3, <3>1 DEF SignInv
    <2> QED
      BY <2>2, <2>3
  <1>17. CASE Sign!JobLost
    BY <1>w, <1>16, <1>17 DEF Sign!JobLost, Sign!Waits
  <1>18. CASE Sign!Refreshed
    BY <1>t, <1>18, Untouched DEF Sign!Refreshed, Sign!pad, Sign!placed, Sign!server
  <1>19. ASSUME NEW d \in SignDocs, Sign!Elsewhere(d) PROVE SignInv'
    BY <1>t, <1>19, Untouched DEF Sign!Elsewhere, Sign!pad, Sign!placed
  <1>20. ASSUME NEW d \in SignDocs, Sign!Navigate(d) PROVE SignInv'
    <2>1. /\ placements' = <<>> /\ signPast' = <<>> /\ signFuture' = <<>>
          /\ d # signDoc /\ signDoc' = d /\ Sign!Withdraw /\ sig' = None
          /\ UNCHANGED <<next, burned, job>>
      BY <1>20 DEF Sign!Navigate, Sign!Clear, Sign!server
    <2>2. job = None
      BY <1>w, <2>1 DEF Sign!Waits
    <2>3. IdsIn(placements') = {} /\ IdsKept(signPast') = {} /\ IdsKept(signFuture') = {}
      BY <2>1, IdsOfNone
    <2>4. withdrawn' = withdrawn \cup IdsIn(placements)
      BY <2>1, <2>3, IdsAreIdsIn DEF Sign!Withdraw, IdsOfIs
    <2> QED
      BY <1>t, <2>1, <2>2, <2>3, <2>4 DEF SignInv
  <1> QED
    BY <1>1, <1>2, <1>3, <1>4, <1>5, <1>6, <1>7, <1>8, <1>9, <1>10, <1>11, <1>12, <1>13,
       <1>14, <1>15, <1>16, <1>17, <1>18, <1>19, <1>20 DEF SignMoves, Sign!Next

LEMMA SignSignsOnce == ASSUME SignInv PROVE Sign!SignedOnce
  <1>1. IdsOfIs
    BY IdsAreIdsIn
  <1>2. \A id \in 1..next : id \in Sign!Ids /\ burned[id] \in {0, 1}
    BY SigningAssumption DEF Sign!Assumptions, SignInv, SignTypes, Sign!Ids
  <1> QED
    BY <1>1, <1>2 DEF SignInv, Sign!SignedOnce, IdsOfIs

LEMMA SignStays == SignInv /\ UNCHANGED signVars => SignInv'
  BY DEF signVars, SignInv, SignTypes, Sign!TypeOK

-----------------------------------------------------------------------------
(* A signing ceremony.  The page and the server agree on every field for   *)
(* which nothing is on its way and nothing is being typed.                 *)

Waiting == {"value", "picture", "complete"}
Holding == {"consent", "decline", "report"}
Worded == Texts \cup Ticks
Contents == Vals \cup {Empty}
Tellings == [held : [Letter!Fields -> Contents], status : {"sent", "closed", "completed"},
             me : {"open", "completed"}, turn : BOOLEAN, consented : BOOLEAN]
LetterCalls == [kind : Waiting \cup Holding \cup {"load", "poll"},
                field : Letter!Fields \cup {None},
                val : Contents \cup {None} \cup 0..MaxPolls,
                st : {"sent", "ok", "no", "closed", "lost"},
                got : Tellings \cup BOOLEAN \cup {None, "completed", "waiting"}]
Fits(c) == /\ c.kind = "value" => c.field \in Worded /\ c.val \in Contents
           /\ c.kind = "picture" => c.field \in Pictures /\ c.val \in Contents
           /\ c.kind = "poll" => c.val \in 0..MaxPolls
           /\ c.st = "ok" /\ c.kind = "value" => c.got \in BOOLEAN
           /\ c.st = "ok" /\ c.kind \in {"load", "poll"} => c.got \in Tellings
LetterTypes ==
  /\ Letter!TypeOK
  /\ calls \in Seq(LetterCalls) /\ \A i \in DOMAIN calls : Fits(calls[i])
  /\ Len(calls) <= MaxCalls \/ \E i \in DOMAIN calls : calls[i].kind = "poll"
  /\ me \in {"open", "completed"} /\ request \in {"sent", "closed", "completed"}
  /\ turn \in BOOLEAN /\ consented \in BOOLEAN

\* Nothing is on its way for a field that is not typed in: it shows what the server holds.
Synced(f) ==
  (\A i \in DOMAIN calls : calls[i].kind = "value" => calls[i].field # f) =>
     saved[f] = held[f] /\ (focus # f => values[f] = held[f])
Opening == screen \in {"loading", "consent", "wait"}
Agrees ==
  /\ screen \in {"loading", "consent", "wait", "sign", "done"}
  /\ Opening => /\ me = "open" /\ focus = None /\ dialog \notin Pictures
               /\ \A i, j \in DOMAIN calls :
                     /\ calls[i].kind \notin Waiting
                     /\ calls[i].kind \in Holding => letterBusy
                     /\ calls[i].kind \in Holding /\ calls[j].kind \in Holding => i = j
  /\ screen \in {"consent", "wait"} =>
        \A f \in Worded : values[f] = held[f] /\ saved[f] = held[f]
  /\ screen = "sign" => \A f \in Worded : Synced(f)
  /\ screen = "done" => me = "completed" /\ \A f \in Worded : values[f] = held[f]
  /\ me = "completed" /\ screen = "sign" =>
        \E i \in DOMAIN calls : calls[i].kind = "complete"
  /\ \A i, j \in DOMAIN calls : calls[i].kind = "load" /\ calls[j].kind = "load" => i = j
  /\ \A i \in DOMAIN calls :
        /\ calls[i].kind = "load" => /\ screen \in {"loading", "done"}
                                     /\ calls[i].st = "ok" => /\ calls[i].got.held = held
                                                              /\ calls[i].got.me = me
        /\ calls[i].kind = "consent" => screen = "consent"
        /\ calls[i].kind = "complete" => /\ screen = "sign"
                                         /\ calls[i].st = "ok" => me = "completed"
        /\ calls[i].kind = "value" /\ screen = "sign" =>
              /\ calls[i].val = values[calls[i].field]
              /\ calls[i].st = "ok" => held[calls[i].field] = calls[i].val
LetterInv ==
  /\ LetterTypes
  /\ \A i, j \in DOMAIN calls :
        calls[i].kind \in Waiting /\ calls[j].kind \in Waiting => i = j
  /\ dialog # None \/ (\E i \in DOMAIN calls : calls[i].kind \in Waiting) => focus = None
  /\ failed \/ Agrees
LetterMoves == Letter!Next /\ Letter!Patient

\* One call settled, one sent, one answered.
LEMMA CallsSettled ==
  ASSUME calls \in Seq(LetterCalls), NEW i \in DOMAIN calls,
         NEW s \in {"sent", "ok", "no", "closed", "lost"},
         NEW g \in Tellings \cup BOOLEAN \cup {None, "completed", "waiting"},
         Letter!Settle(i, s, g)
  PROVE  /\ calls' \in Seq(LetterCalls) /\ Len(calls') = Len(calls)
         /\ DOMAIN calls' = DOMAIN calls
         /\ \A j \in DOMAIN calls : /\ calls'[j].kind = calls[j].kind
                                    /\ calls'[j].field = calls[j].field
                                    /\ calls'[j].val = calls[j].val
                                    /\ j # i => calls'[j] = calls[j]
         /\ calls'[i].st = s /\ calls'[i].got = g
  <1>1. /\ DOMAIN calls = 1..Len(calls) /\ Len(calls) \in Nat
        /\ \A j \in DOMAIN calls : calls[j] \in LetterCalls
    OBVIOUS
  <1>2. calls' = [calls EXCEPT ![i] = [calls[i] EXCEPT !.st = s, !.got = g]]
    BY <1>1 DEF Letter!Settle, LetterCalls
  <1>3. [calls[i] EXCEPT !.st = s, !.got = g] \in LetterCalls
    BY <1>1 DEF LetterCalls
  <1>4. calls' \in Seq(LetterCalls) /\ Len(calls') = Len(calls) /\ DOMAIN calls' = DOMAIN calls
    BY <1>1, <1>2, <1>3
  <1>5. /\ \A j \in DOMAIN calls : j # i => calls'[j] = calls[j]
        /\ calls'[i] = [calls[i] EXCEPT !.st = s, !.got = g]
    BY <1>1, <1>2
  <1>6. /\ calls'[i].kind = calls[i].kind /\ calls'[i].field = calls[i].field
        /\ calls'[i].val = calls[i].val /\ calls'[i].st = s /\ calls'[i].got = g
    BY <1>1, <1>5 DEF LetterCalls
  <1> QED
    BY <1>4, <1>5, <1>6

LEMMA CallsSent ==
  ASSUME calls \in Seq(LetterCalls), NEW c \in LetterCalls, calls' = Append(calls, c)
  PROVE  /\ calls' \in Seq(LetterCalls) /\ Len(calls') = Len(calls) + 1 /\ Len(calls) \in Nat
         /\ DOMAIN calls' = DOMAIN calls \cup {Len(calls) + 1}
         /\ Len(calls) + 1 \notin DOMAIN calls
         /\ \A j \in DOMAIN calls : calls'[j] = calls[j]
         /\ calls'[Len(calls) + 1] = c
  <1>1. DOMAIN calls = 1..Len(calls) /\ Len(calls) \in Nat
    OBVIOUS
  <1>2. calls' \in Seq(LetterCalls) /\ Len(calls') = Len(calls) + 1
    OBVIOUS
  <1>3. DOMAIN calls' = 1..(Len(calls) + 1)
    BY <1>2
  <1>4. 1..(Len(calls) + 1) = 1..Len(calls) \cup {Len(calls) + 1}
    BY <1>1
  <1> QED
    BY <1>1, <1>2, <1>3, <1>4

Kept(l, i) == [j \in 1..(Len(l) - 1) |-> IF j < i THEN j ELSE j + 1]
LEMMA CallsDropped ==
  ASSUME calls \in Seq(LetterCalls), NEW i \in DOMAIN calls
  PROVE  LET left == RemoveAt(calls, i)
             at == Kept(calls, i)
         IN  /\ left \in Seq(LetterCalls) /\ Len(left) = Len(calls) - 1
             /\ \A j \in DOMAIN left : at[j] \in DOMAIN calls \ {i} /\ left[j] = calls[at[j]]
             /\ \A j, k \in DOMAIN left : at[j] = at[k] => j = k
             /\ \A k \in DOMAIN calls \ {i} : \E j \in DOMAIN left : at[j] = k
  <1> DEFINE left == RemoveAt(calls, i)
             at == Kept(calls, i)
  <1>a. DOMAIN calls = 1..Len(calls) /\ Len(calls) \in Nat
    OBVIOUS
  <1>0. i \in 1..Len(calls) /\ DOMAIN calls = 1..Len(calls) /\ Len(calls) \in Nat
    BY ONLY <1>a, i \in DOMAIN calls
  <1>1. /\ left \in Seq(LetterCalls) /\ Len(left) = Len(calls) - 1
        /\ \A j \in 1..(Len(calls) - 1) :
              left[j] = IF j < i THEN calls[j] ELSE calls[j + 1]
    BY <1>0, RemoveAtIs
  <1> HIDE DEF left
  <1>2. DOMAIN left = 1..(Len(calls) - 1)
    BY <1>1
  <1>3. \A j \in DOMAIN left : at[j] \in DOMAIN calls \ {i} /\ left[j] = calls[at[j]]
    BY <1>0, <1>1, <1>2 DEF Kept
  <1>4. \A j, k \in DOMAIN left : at[j] = at[k] => j = k
    BY <1>0, <1>2 DEF Kept
  <1>5. ASSUME NEW k \in DOMAIN calls \ {i} PROVE \E j \in DOMAIN left : at[j] = k
    <2>1. CASE k < i
      BY <1>0, <1>2, <2>1 DEF Kept
    <2>2. CASE ~(k < i)
      <3>1. k - 1 \in DOMAIN left /\ ~(k - 1 < i)
        BY <1>0, <1>2, <2>2
      <3> QED
        BY <1>0, <1>2, <3>1 DEF Kept
    <2> QED
      BY <2>1, <2>2
  <1> QED
    BY <1>1, <1>3, <1>4, <1>5 DEF left

LEMMA LetterInit == Letter!Init => LetterInv
  <1> SUFFICES ASSUME Letter!Init PROVE LetterInv
    OBVIOUS
  <1>0. /\ MaxPolls \in Nat /\ {LetterPages, MaxCalls} \subseteq Nat \ {0}
        /\ {None, "decline", "report"} \cap Letter!Fields = {}
    BY SigningAssumption DEF Letter!Assumptions
  <1>1. /\ calls = <<Letter!Call("load", None, None)>> /\ Len(calls) = 1 /\ DOMAIN calls = {1}
        /\ calls[1].kind = "load" /\ calls[1].st = "sent" /\ calls[1] \in LetterCalls
        /\ calls \in Seq(LetterCalls)
    BY DEF Letter!Init, Letter!Call, LetterCalls
  <1>2. /\ consented \in BOOLEAN /\ turn \in BOOLEAN
        /\ letterFilled \in [Letter!Fields -> BOOLEAN]
    BY DEF Letter!Init
  <1>3. Letter!TypeOK
    BY <1>0, <1>1, <1>2 DEF Letter!Init, Letter!TypeOK, Letter!Nothing, Contents
  <1>4. LetterTypes
    BY <1>0, <1>1, <1>2, <1>3 DEF LetterTypes, Letter!Init, Fits
  <1>5. None \notin Pictures
    BY <1>0 DEF Letter!Fields
  <1>6. Agrees
    BY <1>1, <1>5 DEF Letter!Init, Agrees, Opening, Waiting, Holding
  <1> QED
    BY <1>1, <1>4, <1>6 DEF LetterInv, Letter!Init, Waiting

\* The calls fit their kinds, as they are sent, settled and answered.
LEMMA FitsSettled ==
  ASSUME LetterTypes, NEW i \in DOMAIN calls,
         NEW s \in {"sent", "ok", "no", "closed", "lost"},
         NEW g \in Tellings \cup BOOLEAN \cup {None, "completed", "waiting"},
         Letter!Settle(i, s, g),
         s = "ok" /\ calls[i].kind = "value" => g \in BOOLEAN,
         s = "ok" /\ calls[i].kind \in {"load", "poll"} => g \in Tellings
  PROVE  /\ calls' \in Seq(LetterCalls) /\ (\A j \in DOMAIN calls : Fits(calls[j]))'
         /\ (Len(calls) <= MaxCalls \/ \E j \in DOMAIN calls : calls[j].kind = "poll")'
         /\ Len(calls') \in 0..(MaxCalls + 1)
  <1>1. /\ calls' \in Seq(LetterCalls) /\ Len(calls') = Len(calls)
        /\ DOMAIN calls' = DOMAIN calls
        /\ \A j \in DOMAIN calls : /\ calls'[j].kind = calls[j].kind
                                   /\ calls'[j].field = calls[j].field
                                   /\ calls'[j].val = calls[j].val
                                   /\ j # i => calls'[j] = calls[j]
        /\ calls'[i].st = s /\ calls'[i].got = g
    BY CallsSettled DEF LetterTypes
  <1>2. \A j \in DOMAIN calls : Fits(calls[j])
    BY DEF LetterTypes
  <1>3. \A j \in DOMAIN calls : Fits(calls'[j])
    BY <1>1, <1>2 DEF Fits
  <1>4. Len(calls') \in 0..(MaxCalls + 1)
    BY <1>1 DEF LetterTypes, Letter!TypeOK
  <1>5. (Len(calls) <= MaxCalls \/ \E j \in DOMAIN calls : calls[j].kind = "poll")'
    BY <1>1 DEF LetterTypes
  <1> QED
    BY <1>1, <1>3, <1>4, <1>5

LEMMA FitsSent ==
  ASSUME LetterTypes, NEW c \in LetterCalls, Fits(c), calls' = Append(calls, c),
         Len(calls) < MaxCalls \/ (c.kind = "poll" /\ Len(calls) <= MaxCalls)
  PROVE  /\ calls' \in Seq(LetterCalls) /\ (\A j \in DOMAIN calls : Fits(calls[j]))'
         /\ (Len(calls) <= MaxCalls \/ \E j \in DOMAIN calls : calls[j].kind = "poll")'
         /\ Len(calls') \in 0..(MaxCalls + 1)
  <1>0. MaxCalls \in Nat
    BY SigningAssumption DEF Letter!Assumptions
  <1>1. /\ calls' \in Seq(LetterCalls) /\ Len(calls') = Len(calls) + 1 /\ Len(calls) \in Nat
        /\ DOMAIN calls' = DOMAIN calls \cup {Len(calls) + 1}
        /\ \A j \in DOMAIN calls : calls'[j] = calls[j]
        /\ calls'[Len(calls) + 1] = c
    BY CallsSent DEF LetterTypes
  <1>2. \A j \in DOMAIN calls' : Fits(calls'[j])
    BY <1>1 DEF LetterTypes
  <1>3. Len(calls') \in 0..(MaxCalls + 1)
    BY <1>0, <1>1
  <1>4. (Len(calls) <= MaxCalls \/ \E j \in DOMAIN calls : calls[j].kind = "poll")'
    BY <1>0, <1>1
  <1> QED
    BY <1>1, <1>2, <1>3, <1>4

LEMMA FitsDropped ==
  ASSUME LetterTypes, NEW i \in DOMAIN calls
  PROVE  LET left == RemoveAt(calls, i)
         IN  /\ left \in Seq(LetterCalls) /\ \A j \in DOMAIN left : Fits(left[j])
             /\ Len(left) <= MaxCalls /\ Len(left) = Len(calls) - 1 /\ Len(left) \in Nat
             /\ Len(left) < MaxCalls \/ calls[i].kind = "poll"
                   \/ \E j \in DOMAIN left : left[j].kind = "poll"
  <1> DEFINE left == RemoveAt(calls, i)
             at == Kept(calls, i)
  <1>0. MaxCalls \in Nat /\ Len(calls) \in 0..(MaxCalls + 1)
    BY SigningAssumption DEF Letter!Assumptions, LetterTypes, Letter!TypeOK
  <1>1. /\ left \in Seq(LetterCalls) /\ Len(left) = Len(calls) - 1
        /\ \A j \in DOMAIN left : at[j] \in DOMAIN calls \ {i} /\ left[j] = calls[at[j]]
        /\ \A k \in DOMAIN calls \ {i} : \E j \in DOMAIN left : at[j] = k
    BY CallsDropped DEF LetterTypes
  <1> HIDE DEF left, at
  <1>2. \A j \in DOMAIN left : Fits(left[j])
    BY <1>1 DEF LetterTypes
  <1>3. Len(left) \in Nat
    BY <1>1
  <1>4. CASE Len(left) < MaxCalls
    BY <1>1, <1>2, <1>3, <1>4, <1>0 DEF left
  <1>5. CASE ~(Len(left) < MaxCalls)
    <2>1. Len(calls) = MaxCalls + 1 /\ Len(left) = MaxCalls
      BY <1>0, <1>1, <1>5
    <2>2. PICK k \in DOMAIN calls : calls[k].kind = "poll"
      BY <1>0, <2>1 DEF LetterTypes
    <2>3. k # i => \E j \in DOMAIN left : left[j].kind = "poll"
      BY <1>1, <2>2
    <2> QED
      BY <1>0, <1>1, <1>2, <1>3, <2>1, <2>2, <2>3 DEF left
  <1> QED
    BY <1>4, <1>5

\* The types of all but the calls.
LetterRest ==
  /\ screen \in {"loading", "consent", "sign", "wait", "done", "closed", "error"}
  /\ values \in [Letter!Fields -> Contents] /\ saved \in [Letter!Fields -> Contents]
  /\ letterFilled \in [Letter!Fields -> BOOLEAN] /\ letterPage \in 0..LetterPages - 1
  /\ focus \in Texts \cup {None} /\ dialog \in Pictures \cup {None, "decline", "report"}
  /\ attempt \in 0..MaxPolls \cup {None} /\ held \in [Letter!Fields -> Contents]
  /\ me \in {"open", "completed"} /\ request \in {"sent", "closed", "completed"}
  /\ turn \in BOOLEAN /\ consented \in BOOLEAN
LetterCallsFit ==
  /\ calls \in Seq(LetterCalls) /\ (\A j \in DOMAIN calls : Fits(calls[j]))
  /\ Len(calls) <= MaxCalls \/ \E j \in DOMAIN calls : calls[j].kind = "poll"
  /\ Len(calls) \in 0..(MaxCalls + 1)

LEMMA LetterTypesAre == LetterTypes <=> LetterRest /\ LetterCallsFit
  BY DEF LetterTypes, Letter!TypeOK, LetterRest, LetterCallsFit, Contents

LEMMA LetterServeTypes ==
  ASSUME LetterTypes, NEW i \in Letter!Slots, Letter!Serve(i) PROVE LetterTypes'
  <1> USE DEF LetterRest, Letter!browser, Letter!shown, Letter!seal, Letter!server
  <1>0. LetterRest /\ LetterCallsFit /\ Letter!Told \in Tellings
    <2>1. LetterRest /\ LetterCallsFit
      BY LetterTypesAre
    <2> QED
      BY <2>1 DEF Letter!Told, Tellings
  <1>1. ASSUME NEW s \in {"ok", "no", "closed", "lost"},
               NEW g \in Tellings \cup BOOLEAN \cup {None, "completed", "waiting"},
               i \in DOMAIN calls, Letter!Settle(i, s, g),
               s = "ok" /\ calls[i].kind = "value" => g \in BOOLEAN,
               s = "ok" /\ calls[i].kind \in {"load", "poll"} => g \in Tellings
        PROVE  LetterCallsFit'
    BY <1>1, FitsSettled DEF LetterCallsFit
  <1>b. UNCHANGED Letter!browser
    BY DEF Letter!Serve
  <1>r. LetterRest' /\ LetterCallsFit' => LetterTypes'
    BY LetterTypesAre, PTL
  <1>2. CASE Letter!ServeRead(i)
    <2>1. LetterRest'
      BY <1>0, <1>b, <1>2 DEF Letter!ServeRead
    <2>2. /\ i \in DOMAIN calls
          /\ calls[i].kind \in {"load", "poll"}
          /\ Letter!Settle(i, "ok", Letter!Told) \/ Letter!Settle(i, "closed", None)
      BY <1>2 DEF Letter!ServeRead, Letter!Asked
    <2> QED
      BY <1>0, <1>1, <1>r, <2>1, <2>2
  <1>3. CASE Letter!ServeConsent(i)
    <2>1. LetterRest'
      BY <1>0, <1>b, <1>3 DEF Letter!ServeConsent
    <2>2. /\ i \in DOMAIN calls
          /\ calls[i].kind = "consent"
          /\ Letter!Settle(i, "ok", None) \/ Letter!Settle(i, "no", None)
      BY <1>3 DEF Letter!ServeConsent, Letter!Asked
    <2> QED
      BY <1>0, <1>1, <1>r, <2>1, <2>2
  <1>4. CASE Letter!ServeField(i)
    <2>1. i \in DOMAIN calls /\ calls[i].kind \in {"value", "picture"}
      BY <1>4 DEF Letter!ServeField, Letter!Asked
    <2>2. Fits(calls[i])
      BY <1>0, <2>1 DEF LetterCallsFit
    <2>3. calls[i].field \in Letter!Fields /\ calls[i].val \in Contents
      BY <2>1, <2>2 DEF Fits, Letter!Fields, Worded
    <2>4. LetterRest'
      BY <1>0, <1>b, <1>4, <2>3 DEF Letter!ServeField
    <2>5. \/ Letter!Settle(i, "ok", calls[i].val # Empty)
          \/ Letter!Settle(i, "no", None)
      BY <1>4 DEF Letter!ServeField
    <2> QED
      BY <1>1, <1>r, <2>1, <2>4, <2>5
  <1>5. ASSUME NEW b \in BOOLEAN, Letter!ServeComplete(i, b) PROVE LetterTypes'
    <2>1. LetterRest'
      BY <1>0, <1>b, <1>5 DEF Letter!ServeComplete
    <2>2. /\ i \in DOMAIN calls
          /\ calls[i].kind = "complete"
          /\ \/ Letter!Settle(i, "ok", "completed") \/ Letter!Settle(i, "ok", "waiting")
             \/ Letter!Settle(i, "no", None)
      BY <1>5 DEF Letter!ServeComplete, Letter!Asked
    <2> QED
      BY <1>1, <1>r, <2>1, <2>2
  <1>6. CASE Letter!ServeDecline(i)
    <2>1. LetterRest'
      BY <1>0, <1>b, <1>6 DEF Letter!ServeDecline
    <2>2. /\ i \in DOMAIN calls
          /\ calls[i].kind = "decline"
          /\ Letter!Settle(i, "ok", None) \/ Letter!Settle(i, "no", None)
      BY <1>6 DEF Letter!ServeDecline, Letter!Asked
    <2> QED
      BY <1>1, <1>r, <2>1, <2>2
  <1>7. ASSUME NEW b \in BOOLEAN, Letter!ServeReport(i, b) PROVE LetterTypes'
    <2>1. LetterRest'
      BY <1>0, <1>b, <1>7 DEF Letter!ServeReport
    <2>2. /\ i \in DOMAIN calls
          /\ calls[i].kind = "report"
          /\ Letter!Settle(i, "ok", None) \/ Letter!Settle(i, "no", None)
      BY <1>7 DEF Letter!ServeReport, Letter!Asked
    <2> QED
      BY <1>1, <1>r, <2>1, <2>2
  <1>8. CASE Letter!Lose(i)
    <2>1. LetterRest'
      BY <1>0, <1>b, <1>8 DEF Letter!Lose
    <2>2. i \in DOMAIN calls /\ Letter!Settle(i, "lost", None)
      BY <1>8 DEF Letter!Lose
    <2> QED
      BY <1>1, <1>r, <2>1, <2>2
  <1> QED
    BY <1>2, <1>3, <1>4, <1>5, <1>6, <1>7, <1>8 DEF Letter!Serve

LEMMA LetterPersonTypes ==
  ASSUME LetterTypes, Letter!Person \/ Letter!Others \/ Letter!Poll PROVE LetterTypes'
  <1> USE DEF LetterRest, Letter!browser, Letter!shown, Letter!seal, Letter!server
  <1>0. LetterRest /\ LetterCallsFit
    BY LetterTypesAre
  <1>k. /\ MaxPolls \in Nat /\ {None, "decline", "report"} \cap Letter!Fields = {}
        /\ None \notin 0..MaxPolls
    BY SigningAssumption DEF Letter!Assumptions
  <1>r. LetterRest' /\ LetterCallsFit' => LetterTypes'
    BY LetterTypesAre, PTL
  <1>u. calls' = calls => LetterCallsFit'
    BY <1>0 DEF LetterCallsFit
  <1>1. ASSUME NEW c \in LetterCalls, Fits(c), Letter!Send(c) PROVE LetterCallsFit'
    BY <1>1, FitsSent DEF LetterCallsFit, Letter!Send
  <1>2. /\ \A k \in {"consent", "complete", "decline", "report"} :
              /\ Letter!Call(k, None, None) \in LetterCalls
              /\ Fits(Letter!Call(k, None, None))
        /\ \A f \in Worded, v \in Contents : /\ Letter!Call("value", f, v) \in LetterCalls
                                             /\ Fits(Letter!Call("value", f, v))
        /\ \A f \in Pictures, v \in Vals : /\ Letter!Call("picture", f, v) \in LetterCalls
                                           /\ Fits(Letter!Call("picture", f, v))
        /\ \A n \in 0..MaxPolls : /\ Letter!Call("poll", None, n) \in LetterCalls
                                  /\ Fits(Letter!Call("poll", None, n))
    BY DEF Letter!Call, LetterCalls, Fits, Waiting, Holding, Worded, Contents, Letter!Fields
  <1>3. CASE Letter!Others
    BY <1>0, <1>r, <1>u, <1>3 DEF Letter!Others
  <1>4. CASE Letter!Poll
    <2>1. /\ attempt \in 0..MaxPolls /\ calls' = Append(calls, Letter!Call("poll", None, attempt))
          /\ Len(calls) <= MaxCalls
      BY <1>0, <1>4 DEF Letter!Poll, LetterCallsFit
    <2>2. LetterCallsFit'
      <3>1. Letter!Call("poll", None, attempt).kind = "poll"
        BY DEF Letter!Call
      <3> QED
        BY <1>2, <2>1, <3>1, FitsSent DEF LetterCallsFit
    <2> QED
      BY <1>0, <1>r, <1>4, <2>2 DEF Letter!Poll
  <1>5. CASE Letter!Consent
    BY <1>0, <1>1, <1>2, <1>r, <1>5 DEF Letter!Consent
  <1>6. CASE Letter!Commit
    <2>1. focus \in Worded /\ values[focus] \in Contents
      BY <1>0, <1>6 DEF Letter!Commit, Worded, Letter!Fields
    <2> QED
      BY <1>0, <1>1, <1>2, <1>r, <1>u, <1>6, <2>1 DEF Letter!Commit
  <1>7. CASE Letter!Cancel
    BY <1>0, <1>r, <1>u, <1>7 DEF Letter!Cancel
  <1>8. CASE Letter!Confirm
    BY <1>0, <1>1, <1>2, <1>r, <1>8 DEF Letter!Confirm
  <1>9. CASE Letter!Finish
    BY <1>0, <1>1, <1>2, <1>r, <1>9 DEF Letter!Finish
  <1>10. ASSUME NEW f \in Letter!Fields, Letter!OpenPad(f) PROVE LetterTypes'
    BY <1>0, <1>r, <1>u, <1>10 DEF Letter!OpenPad
  <1>11. ASSUME NEW f \in Letter!Fields, NEW v \in Vals \cup {Empty}, Letter!Stage(f, v)
         PROVE  LetterTypes'
    BY <1>0, <1>r, <1>u, <1>11 DEF Letter!Stage, Contents
  <1>12. ASSUME NEW v \in Vals, Letter!OnSignature(v) PROVE LetterTypes'
    BY <1>0, <1>1, <1>2, <1>r, <1>12 DEF Letter!OnSignature
  <1>13. ASSUME NEW v \in Vals, NEW f \in Ticks, Letter!Tick(f, v) PROVE LetterTypes'
    <2>1. f \in Worded /\ v \in Contents
      BY DEF Worded, Contents
    <2> QED
      BY <1>0, <1>1, <1>2, <1>r, <1>13, <2>1 DEF Letter!Tick
  <1>14. ASSUME NEW d \in {"decline", "report"}, Letter!OpenDialog(d) PROVE LetterTypes'
    BY <1>0, <1>r, <1>u, <1>14 DEF Letter!OpenDialog
  <1>15. ASSUME NEW n \in 0..LetterPages - 1, Letter!Turn(n) PROVE LetterTypes'
    BY <1>0, <1>r, <1>u, <1>15 DEF Letter!Turn
  <1> QED
    BY <1>3, <1>4, <1>5, <1>6, <1>7, <1>8, <1>9, <1>10, <1>11, <1>12, <1>13, <1>14, <1>15
       DEF Letter!Person

LEMMA LetterAnswerTypes ==
  ASSUME LetterTypes, NEW i \in Letter!Slots, Letter!Answer(i) PROVE LetterTypes'
  <1> USE DEF LetterRest, Letter!browser, Letter!shown, Letter!seal, Letter!server
  <1>0. LetterRest /\ LetterCallsFit
    BY LetterTypesAre
  <1>k. MaxPolls \in Nat /\ MaxCalls \in Nat
    BY SigningAssumption DEF Letter!Assumptions
  <1>r. LetterRest' /\ LetterCallsFit' => LetterTypes'
    BY LetterTypesAre, PTL
  <1>d. ASSUME i \in DOMAIN calls
        PROVE  LET left == RemoveAt(calls, i)
               IN  /\ left \in Seq(LetterCalls) /\ \A j \in DOMAIN left : Fits(left[j])
                   /\ Len(left) <= MaxCalls /\ Len(left) \in Nat
                   /\ Len(left) < MaxCalls \/ calls[i].kind = "poll"
                         \/ \E j \in DOMAIN left : left[j].kind = "poll"
    BY <1>d, FitsDropped
  <1>1. ASSUME NEW k, Letter!Answers(i, k), Letter!Drop(i)
        PROVE  LetterCallsFit' /\ i \in DOMAIN calls
    <2>1. i \in DOMAIN calls /\ calls' = RemoveAt(calls, i)
      BY <1>1 DEF Letter!Answers, Letter!Drop, Letter!RemoveAt, RemoveAt
    <2>2. Len(calls') \in 0..(MaxCalls + 1)
      BY <1>d, <1>k, <2>1
    <2> QED
      BY <1>d, <2>1, <2>2 DEF LetterCallsFit
  <1>2. ASSUME i \in DOMAIN calls PROVE Fits(calls[i])
    BY <1>0, <1>2 DEF LetterCallsFit
  <1>3. CASE Letter!Loaded(i)
    <2>1. LetterCallsFit' /\ i \in DOMAIN calls /\ calls[i].kind = "load"
      BY <1>1, <1>3 DEF Letter!Loaded, Letter!Answers
    <2>2. CASE calls[i].st = "ok"
      <3>1. calls[i].got \in Tellings
        BY <1>2, <2>1, <2>2 DEF Fits
      <3>2. /\ Letter!ScreenFor(calls[i].got) \in {"done", "wait", "consent", "sign"}
            /\ calls[i].got.held \in [Letter!Fields -> Contents]
        BY <3>1 DEF Letter!ScreenFor, Tellings
      <3>3. letterFilled' \in [Letter!Fields -> BOOLEAN]
        <4>1. letterFilled' = [f \in Letter!Fields |-> calls[i].got.held[f] # Empty]
          BY <1>3, <2>2 DEF Letter!Loaded
        <4> QED
          BY <4>1
      <3> QED
        BY <1>0, <1>r, <1>3, <2>1, <2>2, <3>2, <3>3 DEF Letter!Loaded
    <2>3. CASE calls[i].st # "ok"
      BY <1>0, <1>r, <1>3, <2>1, <2>3 DEF Letter!Loaded
    <2> QED
      BY <2>2, <2>3
  <1>4. CASE Letter!Consented(i)
    BY <1>0, <1>r, <1>1, <1>4 DEF Letter!Consented
  <1>5. CASE Letter!ValueSaved(i)
    <2>1. LetterCallsFit' /\ i \in DOMAIN calls /\ calls[i].kind = "value"
      BY <1>1, <1>5 DEF Letter!ValueSaved, Letter!Answers
    <2>2. CASE calls[i].st = "ok"
      <3>1. /\ calls[i].field \in Letter!Fields /\ calls[i].val \in Contents
            /\ calls[i].got \in BOOLEAN
        BY <1>2, <2>1, <2>2 DEF Fits, Worded, Letter!Fields
      <3>2. letterFilled' = [letterFilled EXCEPT ![calls[i].field] = calls[i].got]
            /\ saved' = [saved EXCEPT ![calls[i].field] = calls[i].val]
        BY <1>5, <2>2 DEF Letter!ValueSaved, Letter!Learn
      <3>3. letterFilled' \in [Letter!Fields -> BOOLEAN] /\ saved' \in [Letter!Fields -> Contents]
        BY <1>0, <3>1, <3>2
      <3> QED
        BY <1>0, <1>r, <1>5, <2>1, <3>3 DEF Letter!ValueSaved
    <2>3. CASE calls[i].st # "ok"
      BY <1>0, <1>r, <1>5, <2>1, <2>3 DEF Letter!ValueSaved
    <2> QED
      BY <2>2, <2>3
  <1>6. CASE Letter!PictureSaved(i)
    <2>1. LetterCallsFit' /\ i \in DOMAIN calls /\ calls[i].kind = "picture"
      BY <1>1, <1>6 DEF Letter!PictureSaved, Letter!Answers
    <2>2. calls[i].field \in Letter!Fields
      BY <1>2, <2>1 DEF Fits, Letter!Fields
    <2>3. /\ letterFilled' \in {letterFilled, [letterFilled EXCEPT ![calls[i].field] = TRUE]}
          /\ dialog' \in {dialog, None}
      BY <1>6 DEF Letter!PictureSaved
    <2>4. letterFilled' \in [Letter!Fields -> BOOLEAN]
      BY <1>0, <2>2, <2>3
    <2> QED
      BY <1>0, <1>r, <1>6, <2>1, <2>3, <2>4 DEF Letter!PictureSaved
  <1>7. CASE Letter!Finished(i)
    <2>1. i \in DOMAIN calls /\ calls[i].kind = "complete"
      BY <1>7 DEF Letter!Finished, Letter!Answers
    <2>2. CASE calls[i].st = "ok"
      <3> DEFINE left == RemoveAt(calls, i)
                 c == Letter!Call("load", None, None)
      <3>1. /\ calls' = Append(left, c) /\ screen' = "done" /\ attempt' \in {attempt, 0}
            /\ UNCHANGED <<values, saved, letterFilled, letterPage, focus, dialog, held,
                          consented, turn, me, request>>
        BY <1>7, <2>2 DEF Letter!Finished, Letter!RemoveAt, RemoveAt
      <3>2. /\ left \in Seq(LetterCalls) /\ \A j \in DOMAIN left : Fits(left[j])
            /\ Len(left) <= MaxCalls /\ Len(left) \in Nat
            /\ Len(left) < MaxCalls \/ \E j \in DOMAIN left : left[j].kind = "poll"
        BY <1>d, <2>1
      <3>3. c \in LetterCalls /\ Fits(c)
        BY DEF Letter!Call, LetterCalls, Fits
      <3> HIDE DEF left, c
      <3>4. /\ calls' \in Seq(LetterCalls) /\ Len(calls') = Len(left) + 1
            /\ DOMAIN calls' = DOMAIN left \cup {Len(left) + 1}
            /\ \A j \in DOMAIN left : calls'[j] = left[j]
            /\ calls'[Len(left) + 1] = c
        <4>1. /\ calls' \in Seq(LetterCalls) /\ Len(calls') = Len(left) + 1
              /\ \A j \in DOMAIN left : calls'[j] = left[j]
              /\ calls'[Len(left) + 1] = c
          BY <3>1, <3>2, <3>3
        <4>2. DOMAIN calls' = 1..(Len(left) + 1) /\ DOMAIN left = 1..Len(left)
          BY <3>2, <4>1
        <4>3. 1..(Len(left) + 1) = 1..Len(left) \cup {Len(left) + 1}
          BY <3>2
        <4> QED
          BY <4>1, <4>2, <4>3
      <3>5. \A j \in DOMAIN calls' : Fits(calls'[j])
        BY <3>2, <3>3, <3>4
      <3>6. Len(calls') \in 0..(MaxCalls + 1)
        BY <1>k, <3>2, <3>4
      <3>7. Len(calls') <= MaxCalls \/ \E j \in DOMAIN calls' : calls'[j].kind = "poll"
        BY <1>k, <3>2, <3>4
      <3>8. LetterCallsFit'
        BY <3>4, <3>5, <3>6, <3>7 DEF LetterCallsFit
      <3> QED
        BY <1>0, <1>k, <1>r, <3>1, <3>8
    <2>3. CASE calls[i].st # "ok"
      BY <1>0, <1>r, <1>1, <1>7, <2>3 DEF Letter!Finished
    <2> QED
      BY <2>2, <2>3
  <1>8. CASE Letter!Declined(i)
    BY <1>0, <1>r, <1>1, <1>8 DEF Letter!Declined
  <1>9. CASE Letter!Reported(i)
    BY <1>0, <1>r, <1>1, <1>9 DEF Letter!Reported
  <1>10. CASE Letter!Polled(i)
    <2>1. LetterCallsFit' /\ i \in DOMAIN calls /\ calls[i].kind = "poll"
      BY <1>1, <1>10 DEF Letter!Polled, Letter!Answers
    <2>2. calls[i].val \in 0..MaxPolls
      BY <1>2, <2>1 DEF Fits
    <2>3. attempt' \in 0..MaxPolls \cup {None}
      BY <1>0, <1>k, <1>10, <2>2 DEF Letter!Polled, Letter!Again
    <2> QED
      BY <1>0, <1>r, <1>10, <2>1, <2>3 DEF Letter!Polled
  <1> QED
    BY <1>3, <1>4, <1>5, <1>6, <1>7, <1>8, <1>9, <1>10 DEF Letter!Answer

\* What is said of the calls, as a server settles one of them.
Exclusive == \A i, j \in DOMAIN calls :
                calls[i].kind \in Waiting /\ calls[j].kind \in Waiting => i = j
Looks == dialog # None \/ (\E i \in DOMAIN calls : calls[i].kind \in Waiting) => focus = None

LEMMA LetterServeStep ==
  ASSUME LetterInv, LetterTypes', NEW i \in Letter!Slots, Letter!Serve(i) PROVE LetterInv'
  <1> USE DEF Letter!browser, Letter!shown, Letter!seal, Letter!server
  <1>0. /\ UNCHANGED <<screen, meta, values, saved, focus, dialog, letterBusy, failed>>
        /\ calls \in Seq(LetterCalls) /\ LetterTypes /\ Exclusive /\ Looks
    BY DEF Letter!Serve, LetterInv, LetterTypes, Exclusive, Looks
  <1>1. ASSUME NEW s \in {"ok", "no", "closed", "lost"},
               NEW g \in Tellings \cup BOOLEAN \cup {None, "completed", "waiting"},
               i \in DOMAIN calls, Letter!Settle(i, s, g)
        PROVE  /\ DOMAIN calls' = DOMAIN calls
               /\ \A j \in DOMAIN calls : /\ calls'[j].kind = calls[j].kind
                                          /\ calls'[j].field = calls[j].field
                                          /\ calls'[j].val = calls[j].val
                                          /\ j # i => calls'[j] = calls[j]
               /\ calls'[i].st = s /\ calls'[i].got = g
               /\ Exclusive' /\ Looks'
    <2>1. /\ DOMAIN calls' = DOMAIN calls
          /\ \A j \in DOMAIN calls : /\ calls'[j].kind = calls[j].kind
                                     /\ calls'[j].field = calls[j].field
                                     /\ calls'[j].val = calls[j].val
                                     /\ j # i => calls'[j] = calls[j]
          /\ calls'[i].st = s /\ calls'[i].got = g
      BY <1>0, <1>1, CallsSettled
    <2> QED
      BY <1>0, <2>1 DEF Exclusive, Looks
  <1>r. Exclusive' /\ Looks' /\ (failed' \/ Agrees') => LetterInv'
    BY DEF LetterInv, Exclusive, Looks
  <1>f. failed => failed'
    BY <1>0
  <1>a. failed \/ Agrees
    BY DEF LetterInv
  <1>t. Letter!Told \in Tellings /\ Letter!Told.held = held /\ Letter!Told.me = me
    BY <1>0 DEF Letter!Told, Tellings, LetterTypes, Letter!TypeOK, Contents
  <1>2. CASE Letter!ServeRead(i)
    <2>1. /\ i \in DOMAIN calls /\ calls[i].kind \in {"load", "poll"}
          /\ Letter!Settle(i, "ok", Letter!Told) \/ Letter!Settle(i, "closed", None)
          /\ UNCHANGED <<held, me>>
      BY <1>2 DEF Letter!ServeRead, Letter!Asked
    <2>2. /\ DOMAIN calls' = DOMAIN calls
          /\ \A j \in DOMAIN calls : /\ calls'[j].kind = calls[j].kind
                                     /\ calls'[j].field = calls[j].field
                                     /\ calls'[j].val = calls[j].val
                                     /\ j # i => calls'[j] = calls[j]
          /\ calls'[i].st = "ok" => calls'[i].got = Letter!Told
          /\ Exclusive' /\ Looks'
      BY <1>1, <1>t, <2>1
    <2>3. Agrees => Agrees'
      BY <1>0, <1>t, <2>1, <2>2 DEF Agrees, Opening, Synced, Waiting
    <2> QED
      BY <1>r, <1>f, <1>a, <2>2, <2>3
  <1>3. CASE Letter!ServeConsent(i)
    <2>1. /\ i \in DOMAIN calls /\ calls[i].kind = "consent"
          /\ Letter!Settle(i, "ok", None) \/ Letter!Settle(i, "no", None)
          /\ UNCHANGED <<held, me>>
      BY <1>3 DEF Letter!ServeConsent, Letter!Asked
    <2>2. /\ DOMAIN calls' = DOMAIN calls
          /\ \A j \in DOMAIN calls : /\ calls'[j].kind = calls[j].kind
                                     /\ calls'[j].field = calls[j].field
                                     /\ calls'[j].val = calls[j].val
                                     /\ j # i => calls'[j] = calls[j]
          /\ Exclusive' /\ Looks'
      BY <1>1, <2>1
    <2>3. Agrees => Agrees'
      BY <1>0, <2>1, <2>2 DEF Agrees, Opening, Synced, Waiting
    <2> QED
      BY <1>r, <1>f, <1>a, <2>2, <2>3
  <1>4. CASE Letter!ServeField(i)
    <2>0. /\ i \in DOMAIN calls /\ calls[i].kind \in {"value", "picture"}
          /\ Fits(calls[i]) /\ UNCHANGED me
      BY <1>0, <1>4 DEF Letter!ServeField, Letter!Asked, LetterTypes
    <2>1. CASE Letter!Acting
      <3>1. /\ held' = [held EXCEPT ![calls[i].field] = calls[i].val] /\ me = "open"
            /\ Letter!Settle(i, "ok", calls[i].val # Empty)
        BY <1>4, <2>1 DEF Letter!ServeField, Letter!Acting
      <3>2. /\ DOMAIN calls' = DOMAIN calls
            /\ \A j \in DOMAIN calls : /\ calls'[j].kind = calls[j].kind
                                       /\ calls'[j].field = calls[j].field
                                       /\ calls'[j].val = calls[j].val
                                       /\ j # i => calls'[j] = calls[j]
            /\ Exclusive' /\ Looks'
        BY <1>1, <2>0, <3>1
      <3>3. ASSUME Agrees PROVE Agrees'
        <4>1. screen = "sign"
          BY <2>0, <3>1, <3>3 DEF Agrees, Opening, Waiting
        <4>2. \A j \in DOMAIN calls : calls[j].kind \notin {"load", "consent", "complete"}
          BY <1>0, <2>0, <3>3, <4>1 DEF Agrees, Exclusive, Waiting
        <4>3. held \in [Letter!Fields -> Contents]
          BY <1>0 DEF LetterTypes, Letter!TypeOK, Contents
        <4>4. \A f \in Worded : f # calls[i].field => held'[f] = held[f]
          BY <3>1, <4>3 DEF Worded, Letter!Fields
        <4>5. calls[i].kind = "picture" => calls[i].field \notin Worded
          BY <2>0, SigningAssumption DEF Fits, Worded, Letter!Assumptions
        <4>6. calls[i].kind = "value" => /\ held'[calls[i].field] = calls[i].val
                                         /\ \A j \in DOMAIN calls : calls[j].kind = "value" => j = i
          BY <1>0, <2>0, <3>1, <4>3 DEF Fits, Worded, Letter!Fields, Exclusive, Waiting
        <4>7. \A f \in Worded : Synced(f)'
          <5>1. \A f \in Worded : Synced(f)
            BY <3>3, <4>1 DEF Agrees
          <5>2. ASSUME NEW f \in Worded,
                       \A j \in DOMAIN calls : calls[j].kind = "value" => calls[j].field # f
                PROVE  held'[f] = held[f]
            BY <2>0, <4>4, <4>5, <5>2
          <5> QED
            BY <1>0, <3>2, <5>1, <5>2 DEF Synced
        <4>8. \A j \in DOMAIN calls : calls[j].kind = "value" =>
                 calls'[j].val = values'[calls'[j].field] /\ held'[calls'[j].field] = calls'[j].val
          <5>1. ASSUME NEW j \in DOMAIN calls, calls[j].kind = "value"
                PROVE  calls[j].val = values[calls[j].field] /\ held'[calls[j].field] = calls[j].val
            <6>1. calls[j].val = values[calls[j].field]
              BY <3>3, <4>1, <5>1 DEF Agrees
            <6>2. j = i /\ held'[calls[i].field] = calls[i].val
              BY <1>0, <2>0, <4>6, <5>1 DEF Exclusive, Waiting
            <6> QED
              BY <6>1, <6>2
          <5> QED
            BY <1>0, <3>2, <5>1
        <4> QED
          BY <1>0, <2>0, <3>1, <3>2, <4>1, <4>2, <4>7, <4>8 DEF Agrees, Opening
      <3> QED
        BY <1>r, <1>f, <1>a, <3>2, <3>3
    <2>2. CASE ~Letter!Acting
      <3>1. Letter!Settle(i, "no", None) /\ held' = held
        BY <1>4, <2>2 DEF Letter!ServeField
      <3>2. /\ DOMAIN calls' = DOMAIN calls
            /\ \A j \in DOMAIN calls : /\ calls'[j].kind = calls[j].kind
                                       /\ calls'[j].field = calls[j].field
                                       /\ calls'[j].val = calls[j].val
                                       /\ j # i => calls'[j] = calls[j]
            /\ calls'[i].st = "no"
            /\ Exclusive' /\ Looks'
        BY <1>1, <2>0, <3>1
      <3>3. Agrees => Agrees'
        BY <1>0, <2>0, <3>1, <3>2 DEF Agrees, Opening, Synced, Waiting
      <3> QED
        BY <1>r, <1>f, <1>a, <3>2, <3>3
    <2> QED
      BY <2>1, <2>2
  <1>5. ASSUME NEW b \in BOOLEAN, Letter!ServeComplete(i, b) PROVE LetterInv'
    <2>1. /\ i \in DOMAIN calls /\ calls[i].kind = "complete" /\ held' = held
          /\ \/ Letter!Acting /\ me' = "completed"
                /\ (Letter!Settle(i, "ok", "completed") \/ Letter!Settle(i, "ok", "waiting"))
             \/ me' = me /\ Letter!Settle(i, "no", None)
      BY <1>5 DEF Letter!ServeComplete, Letter!Asked
    <2>2. /\ DOMAIN calls' = DOMAIN calls
          /\ \A j \in DOMAIN calls : /\ calls'[j].kind = calls[j].kind
                                     /\ calls'[j].field = calls[j].field
                                     /\ calls'[j].val = calls[j].val
                                     /\ j # i => calls'[j] = calls[j]
          /\ me' = "completed" \/ (me' = me /\ calls'[i].st = "no")
          /\ Exclusive' /\ Looks'
      <3>1. CASE me' = "completed" /\ Letter!Settle(i, "ok", "completed")
        BY <1>1, <2>1, <3>1
      <3>2. CASE me' = "completed" /\ Letter!Settle(i, "ok", "waiting")
        BY <1>1, <2>1, <3>2
      <3>3. CASE me' = me /\ Letter!Settle(i, "no", None)
        BY <1>1, <2>1, <3>3
      <3> QED
        BY <2>1, <3>1, <3>2, <3>3
    <2>3. ASSUME Agrees PROVE Agrees'
      <3>1. screen = "sign" /\ \A j \in DOMAIN calls : calls[j].kind \notin {"load", "consent"}
        BY <2>1, <2>3 DEF Agrees
      <3>2. \A j \in DOMAIN calls : calls[j].kind \in Waiting => j = i
        BY <1>0, <2>1 DEF Exclusive, Waiting
      <3> QED
        BY <1>0, <2>1, <2>2, <2>3, <3>1, <3>2 DEF Agrees, Opening, Synced, Waiting
    <2> QED
      BY <1>r, <1>f, <1>a, <2>2, <2>3
  <1>6. CASE Letter!ServeDecline(i) \/ \E b \in BOOLEAN : Letter!ServeReport(i, b)
    <2>1. /\ i \in DOMAIN calls /\ calls[i].kind \in {"decline", "report"}
          /\ Letter!Settle(i, "ok", None) \/ Letter!Settle(i, "no", None)
          /\ UNCHANGED <<held, me>>
      BY <1>6 DEF Letter!ServeDecline, Letter!ServeReport, Letter!Asked
    <2>2. /\ DOMAIN calls' = DOMAIN calls
          /\ \A j \in DOMAIN calls : /\ calls'[j].kind = calls[j].kind
                                     /\ calls'[j].field = calls[j].field
                                     /\ calls'[j].val = calls[j].val
                                     /\ j # i => calls'[j] = calls[j]
          /\ Exclusive' /\ Looks'
      BY <1>1, <2>1
    <2>3. Agrees => Agrees'
      BY <1>0, <2>1, <2>2 DEF Agrees, Opening, Synced, Waiting
    <2> QED
      BY <1>r, <1>f, <1>a, <2>2, <2>3
  <1>7. CASE Letter!Lose(i)
    <2>1. /\ i \in DOMAIN calls /\ Letter!Settle(i, "lost", None)
          /\ UNCHANGED <<held, me>>
      BY <1>7 DEF Letter!Lose
    <2>2. /\ DOMAIN calls' = DOMAIN calls
          /\ \A j \in DOMAIN calls : /\ calls'[j].kind = calls[j].kind
                                     /\ calls'[j].field = calls[j].field
                                     /\ calls'[j].val = calls[j].val
                                     /\ j # i => calls'[j] = calls[j]
          /\ calls'[i].st = "lost"
          /\ Exclusive' /\ Looks'
      BY <1>1, <2>1
    <2>3. Agrees => Agrees'
      BY <1>0, <2>1, <2>2 DEF Agrees, Opening, Synced, Waiting
    <2> QED
      BY <1>r, <1>f, <1>a, <2>2, <2>3
  <1> QED
    BY <1>2, <1>3, <1>4, <1>5, <1>6, <1>7 DEF Letter!Serve

LEMMA LetterPersonStep ==
  ASSUME LetterInv, LetterTypes', Letter!Patient, Letter!Person \/ Letter!Others \/ Letter!Poll
  PROVE  LetterInv'
  <1> USE DEF Letter!browser, Letter!shown, Letter!seal, Letter!server
  <1>0. calls \in Seq(LetterCalls) /\ LetterTypes /\ Exclusive /\ Looks
    BY DEF LetterInv, LetterTypes, Exclusive, Looks
  <1>k. /\ {None, "decline", "report"} \cap Letter!Fields = {}
        /\ None # "decline" /\ None # "report"
    BY SigningAssumption DEF Letter!Assumptions
  <1>r. Exclusive' /\ Looks' /\ (failed' \/ Agrees') => LetterInv'
    BY DEF LetterInv, Exclusive, Looks
  <1>a. failed \/ Agrees
    BY DEF LetterInv
  <1>p. (\E j \in DOMAIN calls : calls[j].kind \in Waiting) =>
           values' = values /\ Len(calls') <= Len(calls)
    BY DEF Letter!Patient, Waiting
  <1>1. ASSUME NEW c \in LetterCalls, Letter!Send(c) \/ calls' = Append(calls, c)
        PROVE  /\ DOMAIN calls' = DOMAIN calls \cup {Len(calls) + 1}
               /\ Len(calls) + 1 \notin DOMAIN calls
               /\ \A j \in DOMAIN calls : calls'[j] = calls[j]
               /\ calls'[Len(calls) + 1] = c
               /\ \A j \in DOMAIN calls : calls[j].kind \notin Waiting
    <2>1. calls' = Append(calls, c)
      BY <1>1 DEF Letter!Send
    <2> QED
      BY <1>0, <1>p, <2>1, CallsSent
  <1>2. /\ \A k \in {"consent", "complete", "decline", "report"} :
              Letter!Call(k, None, None) \in LetterCalls
        /\ \A f \in Worded, v \in Contents : Letter!Call("value", f, v) \in LetterCalls
        /\ \A f \in Pictures, v \in Vals : Letter!Call("picture", f, v) \in LetterCalls
        /\ \A n \in 0..MaxPolls : Letter!Call("poll", None, n) \in LetterCalls
        /\ \A k, f, v : /\ Letter!Call(k, f, v).kind = k /\ Letter!Call(k, f, v).field = f
                       /\ Letter!Call(k, f, v).val = v /\ Letter!Call(k, f, v).st = "sent"
    BY DEF Letter!Call, LetterCalls, Waiting, Holding, Worded, Contents, Letter!Fields
  <1>3. CASE Letter!Others
    BY <1>0, <1>r, <1>a, <1>3 DEF Letter!Others, Exclusive, Looks, Agrees, Opening, Synced
  <1>4. CASE Letter!Poll
    <2> DEFINE c == Letter!Call("poll", None, attempt)
    <2>1. /\ calls' = Append(calls, c) /\ attempt \in 0..MaxPolls
          /\ UNCHANGED <<screen, values, saved, focus, dialog, letterBusy, failed, held, me>>
      BY <1>0, <1>4 DEF Letter!Poll, LetterTypes, Letter!TypeOK
    <2>2. c \in LetterCalls /\ c.kind = "poll"
      BY <1>2, <2>1
    <2> HIDE DEF c
    <2>3. /\ DOMAIN calls' = DOMAIN calls \cup {Len(calls) + 1}
          /\ Len(calls) + 1 \notin DOMAIN calls
          /\ \A j \in DOMAIN calls : calls'[j] = calls[j]
          /\ calls'[Len(calls) + 1] = c
      BY <1>0, <2>1, <2>2, CallsSent
    <2>4. Exclusive' /\ Looks'
      BY <1>0, <2>1, <2>2, <2>3 DEF Exclusive, Looks, Waiting
    <2>5. Agrees => Agrees'
      BY <2>1, <2>2, <2>3 DEF Agrees, Opening, Synced, Waiting, Holding
    <2> QED
      BY <1>a, <1>r, <2>1, <2>4, <2>5
  <1>5. CASE Letter!Consent
    <2> DEFINE c == Letter!Call("consent", None, None)
    <2>1. /\ Letter!Send(c) /\ screen = "consent" /\ ~letterBusy /\ letterBusy' = TRUE
          /\ UNCHANGED <<screen, values, saved, focus, dialog, failed, held, me>>
      BY <1>5 DEF Letter!Consent
    <2>2. c \in LetterCalls /\ c.kind = "consent"
      BY <1>2
    <2> HIDE DEF c
    <2>3. /\ DOMAIN calls' = DOMAIN calls \cup {Len(calls) + 1}
          /\ Len(calls) + 1 \notin DOMAIN calls
          /\ \A j \in DOMAIN calls : calls'[j] = calls[j]
          /\ calls'[Len(calls) + 1] = c
      BY <1>1, <2>1, <2>2
    <2>4. Exclusive' /\ Looks'
      BY <1>0, <2>1, <2>2, <2>3 DEF Exclusive, Looks, Waiting
    <2>5. Agrees => Agrees'
      BY <2>1, <2>2, <2>3 DEF Agrees, Opening, Synced, Waiting, Holding
    <2> QED
      BY <1>a, <1>r, <2>1, <2>4, <2>5
  <1>6. CASE Letter!Commit
    <2>1. /\ screen = "sign" /\ focus # None /\ focus' = None /\ focus \in Texts
          /\ UNCHANGED <<screen, values, saved, dialog, letterBusy, failed, held, me>>
      BY <1>0, <1>6 DEF Letter!Commit, Letter!Signing, LetterTypes, Letter!TypeOK
    <2>2. CASE saved[focus] # values[focus]
      <3> DEFINE c == Letter!Call("value", focus, values[focus])
      <3>1. focus \in Worded /\ values[focus] \in Contents
        BY <1>0, <2>1 DEF Worded, LetterTypes, Letter!TypeOK, Letter!Fields, Contents
      <3>2. /\ c \in LetterCalls /\ c.kind = "value" /\ c.field = focus
            /\ c.val = values[focus] /\ c.st = "sent"
        BY <1>2, <3>1
      <3>3. Letter!Send(c)
        BY <1>6, <2>2 DEF Letter!Commit, Letter!Changed
      <3> HIDE DEF c
      <3>4. /\ DOMAIN calls' = DOMAIN calls \cup {Len(calls) + 1}
            /\ Len(calls) + 1 \notin DOMAIN calls
            /\ \A j \in DOMAIN calls : calls'[j] = calls[j]
            /\ calls'[Len(calls) + 1] = c
            /\ \A j \in DOMAIN calls : calls[j].kind \notin Waiting
        BY <1>1, <3>2, <3>3
      <3>5. Exclusive' /\ Looks'
        BY <1>0, <2>1, <3>2, <3>4 DEF Exclusive, Looks, Waiting
      <3>6. Agrees => Agrees'
        BY <2>1, <3>2, <3>4 DEF Agrees, Opening, Synced, Waiting, Holding
      <3> QED
        BY <1>a, <1>r, <2>1, <3>5, <3>6
    <2>3. CASE saved[focus] = values[focus]
      <3>1. calls' = calls
        BY <1>6, <2>3 DEF Letter!Commit, Letter!Changed
      <3>2. Exclusive' /\ Looks'
        BY <1>0, <2>1, <3>1 DEF Exclusive, Looks
      <3>3. Agrees => Agrees'
        BY <2>1, <2>3, <3>1 DEF Agrees, Opening, Synced
      <3> QED
        BY <1>a, <1>r, <2>1, <3>2, <3>3
    <2> QED
      BY <2>2, <2>3
  <1>7. CASE Letter!Cancel
    <2>1. /\ dialog # None /\ dialog' = None
          /\ UNCHANGED <<calls, screen, values, saved, focus, letterBusy, failed, held, me>>
      BY <1>7 DEF Letter!Cancel
    <2>2. Exclusive' /\ Looks'
      BY <1>0, <2>1 DEF Exclusive, Looks
    <2>3. Agrees => Agrees'
      BY <1>k, <2>1 DEF Agrees, Opening, Synced, Letter!Fields
    <2> QED
      BY <1>a, <1>r, <2>1, <2>2, <2>3
  <1>8. CASE Letter!Confirm
    <2> DEFINE c == Letter!Call(dialog, None, None)
    <2>1. /\ Letter!Send(c) /\ dialog \in {"decline", "report"} /\ ~letterBusy /\ letterBusy' = TRUE
          /\ UNCHANGED <<screen, values, saved, focus, dialog, failed, held, me>>
      BY <1>8 DEF Letter!Confirm
    <2>2. c \in LetterCalls /\ c.kind \in {"decline", "report"}
      BY <1>2, <2>1
    <2> HIDE DEF c
    <2>3. /\ DOMAIN calls' = DOMAIN calls \cup {Len(calls) + 1}
          /\ Len(calls) + 1 \notin DOMAIN calls
          /\ \A j \in DOMAIN calls : calls'[j] = calls[j]
          /\ calls'[Len(calls) + 1] = c
      BY <1>1, <2>1, <2>2
    <2>4. Exclusive' /\ Looks'
      BY <1>0, <2>1, <2>2, <2>3 DEF Exclusive, Looks, Waiting
    <2>5. Agrees => Agrees'
      BY <2>1, <2>2, <2>3 DEF Agrees, Opening, Synced, Waiting, Holding
    <2> QED
      BY <1>a, <1>r, <2>1, <2>4, <2>5
  <1>9. CASE Letter!Finish
    <2> DEFINE c == Letter!Call("complete", None, None)
    <2>1. /\ Letter!Send(c) /\ screen = "sign" /\ focus = None
          /\ UNCHANGED <<screen, values, saved, focus, dialog, failed, held, me>>
      BY <1>9 DEF Letter!Finish, Letter!Signing
    <2>2. c \in LetterCalls /\ c.kind = "complete" /\ c.st = "sent"
      BY <1>2
    <2> HIDE DEF c
    <2>3. /\ DOMAIN calls' = DOMAIN calls \cup {Len(calls) + 1}
          /\ Len(calls) + 1 \notin DOMAIN calls
          /\ \A j \in DOMAIN calls : calls'[j] = calls[j]
          /\ calls'[Len(calls) + 1] = c
          /\ \A j \in DOMAIN calls : calls[j].kind \notin Waiting
      BY <1>1, <2>1, <2>2
    <2>4. Exclusive' /\ Looks'
      BY <1>0, <2>1, <2>2, <2>3 DEF Exclusive, Looks, Waiting
    <2>5. Agrees => Agrees'
      BY <2>1, <2>2, <2>3 DEF Agrees, Opening, Synced, Waiting, Holding
    <2> QED
      BY <1>a, <1>r, <2>1, <2>4, <2>5
  <1>10. ASSUME NEW f \in Letter!Fields, Letter!OpenPad(f) PROVE LetterInv'
    <2>1. /\ screen = "sign" /\ focus = None
          /\ UNCHANGED <<calls, screen, values, saved, focus, letterBusy, failed, held, me>>
      BY <1>10 DEF Letter!OpenPad, Letter!Signing
    <2>2. Exclusive' /\ Looks'
      BY <1>0, <2>1 DEF Exclusive, Looks
    <2>3. Agrees => Agrees'
      BY <2>1 DEF Agrees, Opening, Synced
    <2> QED
      BY <1>a, <1>r, <2>1, <2>2, <2>3
  <1>11. ASSUME NEW f \in Letter!Fields, NEW v \in Vals \cup {Empty}, Letter!Stage(f, v)
         PROVE  LetterInv'
    <2>1. /\ screen = "sign" /\ dialog = None /\ focus \in {None, f} /\ focus' = f
          /\ v # values[f] /\ values' = [values EXCEPT ![f] = v]
          /\ UNCHANGED <<calls, screen, saved, dialog, letterBusy, failed, held, me>>
      BY <1>11 DEF Letter!Stage, Letter!Signing
    <2>2. values \in [Letter!Fields -> Contents]
      BY <1>0 DEF LetterTypes, Letter!TypeOK, Contents
    <2>3. \A j \in DOMAIN calls : calls[j].kind \notin Waiting
      <3>1. values'[f] # values[f]
        BY <2>1, <2>2
      <3> QED
        BY <1>p, <3>1
    <2>4. Exclusive' /\ Looks'
      BY <1>0, <2>1, <2>3 DEF Exclusive, Looks
    <2>5. Agrees => Agrees'
      <3>1. \A g \in Worded : g # f => values'[g] = values[g]
        BY <2>1, <2>2 DEF Worded, Letter!Fields
      <3>2. ASSUME Agrees, NEW g \in Worded PROVE Synced(g)'
        <4>1. Synced(g)
          BY <2>1, <3>2 DEF Agrees
        <4>2. g = f => focus' = g
          BY <2>1
        <4>3. focus' # g => focus # g
          BY <1>k, <2>1, <4>2 DEF Worded, Letter!Fields
        <4> QED
          BY <2>1, <3>1, <4>1, <4>2, <4>3 DEF Synced
      <3> QED
        BY <2>1, <2>3, <3>2 DEF Agrees, Opening, Waiting
    <2> QED
      BY <1>a, <1>r, <2>1, <2>4, <2>5
  <1>12. ASSUME NEW v \in Vals, Letter!OnSignature(v) PROVE LetterInv'
    <2> DEFINE c == Letter!Call("picture", dialog, v)
    <2>1. /\ Letter!Send(c) /\ dialog \in Pictures /\ dialog # None
          /\ UNCHANGED <<screen, values, saved, focus, dialog, failed, held, me>>
      BY <1>k, <1>12 DEF Letter!OnSignature, Letter!Fields
    <2>2. c \in LetterCalls /\ c.kind = "picture"
      BY <1>2, <2>1
    <2> HIDE DEF c
    <2>3. /\ DOMAIN calls' = DOMAIN calls \cup {Len(calls) + 1}
          /\ Len(calls) + 1 \notin DOMAIN calls
          /\ \A j \in DOMAIN calls : calls'[j] = calls[j]
          /\ calls'[Len(calls) + 1] = c
          /\ \A j \in DOMAIN calls : calls[j].kind \notin Waiting
      BY <1>1, <2>1, <2>2
    <2>4. Exclusive' /\ Looks'
      BY <1>0, <2>1, <2>2, <2>3 DEF Exclusive, Looks, Waiting
    <2>5. Agrees => Agrees'
      BY <2>1, <2>2, <2>3 DEF Agrees, Opening, Synced, Waiting, Holding
    <2> QED
      BY <1>a, <1>r, <2>1, <2>4, <2>5
  <1>13. ASSUME NEW v \in Vals, NEW f \in Ticks, Letter!Tick(f, v) PROVE LetterInv'
    <2> DEFINE c == Letter!Call("value", f, v)
    <2>1. /\ screen = "sign" /\ dialog = None /\ focus = None
          /\ v # values[f] /\ values' = [values EXCEPT ![f] = v] /\ Letter!Send(c)
          /\ UNCHANGED <<screen, saved, focus, dialog, letterBusy, failed, held, me>>
      BY <1>13 DEF Letter!Tick, Letter!Signing
    <2>2. /\ c \in LetterCalls /\ c.kind = "value" /\ c.field = f /\ c.val = v /\ c.st = "sent"
          /\ f \in Worded /\ f \in Letter!Fields
      <3>1. f \in Worded /\ v \in Contents /\ f \in Letter!Fields
        BY DEF Worded, Contents, Letter!Fields
      <3> QED
        BY <1>2, <3>1
    <2> HIDE DEF c
    <2>3. /\ DOMAIN calls' = DOMAIN calls \cup {Len(calls) + 1}
          /\ Len(calls) + 1 \notin DOMAIN calls
          /\ \A j \in DOMAIN calls : calls'[j] = calls[j]
          /\ calls'[Len(calls) + 1] = c
          /\ \A j \in DOMAIN calls : calls[j].kind \notin Waiting
      BY <1>1, <2>1, <2>2
    <2>4. values \in [Letter!Fields -> Contents]
      BY <1>0 DEF LetterTypes, Letter!TypeOK, Contents
    <2>5. values'[f] = v /\ \A g \in Worded : g # f => values'[g] = values[g]
      BY <2>1, <2>2, <2>4 DEF Worded, Letter!Fields
    <2>6. Exclusive' /\ Looks'
      BY <1>0, <2>1, <2>2, <2>3 DEF Exclusive, Looks, Waiting
    <2>7. Agrees => Agrees'
      BY <2>1, <2>2, <2>3, <2>5 DEF Agrees, Opening, Synced, Waiting, Holding
    <2> QED
      BY <1>a, <1>r, <2>1, <2>6, <2>7
  <1>14. ASSUME NEW d \in {"decline", "report"}, Letter!OpenDialog(d) PROVE LetterInv'
    <2>1. /\ focus = None /\ dialog' = d
          /\ UNCHANGED <<calls, screen, values, saved, focus, letterBusy, failed, held, me>>
      BY <1>14 DEF Letter!OpenDialog
    <2>2. Exclusive' /\ Looks'
      BY <1>0, <2>1 DEF Exclusive, Looks
    <2>3. Agrees => Agrees'
      BY <1>k, <2>1 DEF Agrees, Opening, Synced, Letter!Fields
    <2> QED
      BY <1>a, <1>r, <2>1, <2>2, <2>3
  <1>15. ASSUME NEW n \in 0..LetterPages - 1, Letter!Turn(n) PROVE LetterInv'
    BY <1>0, <1>r, <1>a, <1>15 DEF Letter!Turn, Exclusive, Looks, Agrees, Opening, Synced
  <1> QED
    BY <1>3, <1>4, <1>5, <1>6, <1>7, <1>8, <1>9, <1>10, <1>11, <1>12, <1>13, <1>14, <1>15
       DEF Letter!Person

LEMMA LetterAnswerStep ==
  ASSUME LetterInv, LetterTypes', NEW i \in Letter!Slots, Letter!Answer(i) PROVE LetterInv'
  <1> USE DEF Letter!browser, Letter!shown, Letter!seal, Letter!server
  <1>0. calls \in Seq(LetterCalls) /\ LetterTypes /\ Exclusive /\ Looks
    BY DEF LetterInv, LetterTypes, Exclusive, Looks
  <1>k. /\ {None, "decline", "report"} \cap Letter!Fields = {}
        /\ Texts \cap Pictures = {} /\ Ticks \cap (Texts \cup Pictures) = {}
    BY SigningAssumption DEF Letter!Assumptions
  <1>r. Exclusive' /\ Looks' /\ (failed' \/ Agrees') => LetterInv'
    BY DEF LetterInv, Exclusive, Looks
  <1>a. failed \/ Agrees
    BY DEF LetterInv
  <1>1. i \in DOMAIN calls /\ Fits(calls[i])
    BY <1>0 DEF Letter!Answer, Letter!Answers, Letter!Loaded, Letter!Consented, Letter!ValueSaved,
                Letter!PictureSaved, Letter!Finished, Letter!Declined, Letter!Reported,
                Letter!Polled, LetterTypes
  <1> DEFINE left == RemoveAt(calls, i)
  <1>2. left \in Seq(LetterCalls)
    BY <1>0, <1>1, CallsDropped
  <1>3. PICK to : /\ \A j \in DOMAIN left : to[j] \in DOMAIN calls \ {i} /\ left[j] = calls[to[j]]
                  /\ \A j, k \in DOMAIN left : to[j] = to[k] => j = k
                  /\ \A k \in DOMAIN calls \ {i} : \E j \in DOMAIN left : to[j] = k
    BY <1>0, <1>1, CallsDropped
  <1> HIDE DEF left
  <1>d. Letter!Drop(i) => calls' = left
    BY DEF Letter!Drop, Letter!RemoveAt, RemoveAt, left
  <1>e. ASSUME calls' = left, focus' = focus, dialog' \in {dialog, None}
        PROVE  Exclusive' /\ Looks'
    BY <1>0, <1>3, <1>e DEF Exclusive, Looks
  <1>4. CASE Letter!Loaded(i)
    <2>1. /\ calls[i].kind = "load" /\ calls' = left
          /\ UNCHANGED <<focus, dialog, letterBusy, held, me>>
      BY <1>4, <1>d DEF Letter!Loaded, Letter!Answers
    <2>2. CASE calls[i].st = "ok"
      <3>1. /\ screen' = Letter!ScreenFor(calls[i].got) /\ failed' = failed
            /\ values' = calls[i].got.held /\ saved' = calls[i].got.held
        BY <1>4, <2>2 DEF Letter!Loaded
      <3>2. ASSUME Agrees PROVE Agrees'
        <4>1. /\ screen \in {"loading", "done"} /\ values' = held /\ saved' = held
              /\ calls[i].got.me = me
          BY <1>1, <2>1, <2>2, <3>1, <3>2 DEF Agrees
        <4>2. \A j \in DOMAIN left : /\ left[j].kind \notin {"load", "consent", "complete"}
                                     /\ screen = "loading" => left[j].kind \notin Waiting
          BY <1>1, <1>3, <2>1, <3>2, <4>1 DEF Agrees, Opening
        <4>3. CASE screen = "loading"
          <5>1. /\ me = "open" /\ focus = None /\ dialog \notin Pictures
                /\ screen' \in {"wait", "consent", "sign"}
            BY <3>1, <3>2, <4>1, <4>3 DEF Agrees, Opening, Letter!ScreenFor
          <5>2. \A j, k \in DOMAIN left :
                   /\ left[j].kind \in Holding => letterBusy
                   /\ left[j].kind \in Holding /\ left[k].kind \in Holding => j = k
            BY <1>3, <3>2, <4>3 DEF Agrees, Opening
          <5>3. \A j \in DOMAIN left : left[j].kind # "value"
            BY <4>2, <4>3 DEF Waiting
          <5> QED
            BY <2>1, <4>1, <4>2, <4>3, <5>1, <5>2, <5>3 DEF Agrees, Opening, Synced
        <4>4. CASE screen = "done"
          <5>1. me = "completed" /\ screen' = "done"
            BY <3>1, <3>2, <4>1, <4>4 DEF Agrees, Letter!ScreenFor
          <5> QED
            BY <2>1, <4>1, <4>2, <5>1 DEF Agrees, Opening
        <4> QED
          BY <4>1, <4>3, <4>4
      <3> QED
        BY <1>a, <1>e, <1>r, <2>1, <3>1, <3>2
    <2>3. CASE calls[i].st # "ok"
      <3>1. failed' = TRUE
        BY <1>4, <2>3 DEF Letter!Loaded, Letter!Failure
      <3> QED
        BY <1>e, <1>r, <2>1, <3>1
    <2> QED
      BY <2>2, <2>3
  <1>5. CASE Letter!Consented(i)
    <2>1. /\ calls[i].kind = "consent" /\ calls' = left
          /\ UNCHANGED <<values, saved, focus, dialog, held, me>>
      BY <1>5, <1>d DEF Letter!Consented, Letter!Answers
    <2>2. CASE calls[i].st = "ok"
      <3>1. screen' = "sign" /\ failed' = failed
        BY <1>5, <2>2 DEF Letter!Consented
      <3>2. ASSUME Agrees PROVE Agrees'
        <4>1. /\ screen = "consent" /\ me = "open"
              /\ \A f \in Worded : values[f] = held[f] /\ saved[f] = held[f]
          BY <1>1, <2>1, <3>2 DEF Agrees, Opening
        <4>2. \A j \in DOMAIN left :
                 left[j].kind \notin Waiting /\ left[j].kind \notin {"load", "consent"}
          BY <1>1, <1>3, <2>1, <3>2, <4>1 DEF Agrees, Opening, Holding
        <4> QED
          BY <2>1, <3>1, <4>1, <4>2 DEF Agrees, Opening, Synced, Waiting
      <3> QED
        BY <1>a, <1>e, <1>r, <2>1, <3>1, <3>2
    <2>3. CASE calls[i].st # "ok"
      <3>1. failed' = TRUE
        BY <1>5, <2>3 DEF Letter!Consented, Letter!Failure
      <3> QED
        BY <1>e, <1>r, <2>1, <3>1
    <2> QED
      BY <2>2, <2>3
  <1>6. CASE Letter!ValueSaved(i)
    <2>1. /\ calls[i].kind = "value" /\ calls' = left
          /\ UNCHANGED <<screen, values, focus, dialog, letterBusy, held, me>>
      BY <1>6, <1>d DEF Letter!ValueSaved, Letter!Answers
    <2>2. CASE calls[i].st = "ok"
      <3>1. saved' = [saved EXCEPT ![calls[i].field] = calls[i].val] /\ failed' = failed
        BY <1>6, <2>2 DEF Letter!ValueSaved, Letter!Learn
      <3>2. ASSUME Agrees PROVE Agrees'
        <4>1. screen \in {"sign", "done"} /\ ~Opening
          BY <1>1, <2>1, <3>2 DEF Agrees, Opening, Waiting
        <4>2. \A j \in DOMAIN left : left[j].kind \notin Waiting
          BY <1>0, <1>1, <1>3, <2>1 DEF Exclusive, Waiting
        <4>3. me = "completed" => screen # "sign"
          BY <1>0, <1>1, <2>1, <3>2 DEF Agrees, Exclusive, Waiting
        <4>4. ASSUME screen = "sign", NEW f \in Worded
              PROVE  saved'[f] = held[f] /\ (focus # f => values[f] = held[f])
          <5>1. saved \in [Letter!Fields -> Contents] /\ f \in Letter!Fields
            BY <1>0 DEF LetterTypes, Letter!TypeOK, Contents, Worded, Letter!Fields
          <5>2. CASE f = calls[i].field
            BY <1>1, <2>1, <2>2, <3>1, <3>2, <4>4, <5>1, <5>2 DEF Agrees
          <5>3. CASE f # calls[i].field
            <6>1. \A j \in DOMAIN calls : calls[j].kind = "value" => j = i
              BY <1>0, <1>1, <2>1 DEF Exclusive, Waiting
            <6>2. Synced(f)
              BY <3>2, <4>4 DEF Agrees
            <6> QED
              BY <3>1, <5>1, <5>3, <6>1, <6>2 DEF Synced
          <5> QED
            BY <5>2, <5>3
        <4>5. screen = "sign" => \A f \in Worded : Synced(f)'
          BY <2>1, <4>4 DEF Synced
        <4>6. \A j \in DOMAIN left : left[j].kind \notin {"value", "complete"}
          BY <4>2 DEF Waiting
        <4>7. /\ \A j, k \in DOMAIN left : left[j].kind = "load" /\ left[k].kind = "load" => j = k
              /\ \A j \in DOMAIN left :
                    /\ left[j].kind = "load" => /\ screen \in {"loading", "done"}
                                                /\ left[j].st = "ok" => /\ left[j].got.held = held
                                                                        /\ left[j].got.me = me
                    /\ left[j].kind = "consent" => screen = "consent"
          BY <1>3, <3>2 DEF Agrees
        <4>8. screen = "done" => me = "completed" /\ \A f \in Worded : values[f] = held[f]
          BY <3>2 DEF Agrees
        <4> QED
          BY <2>1, <4>1, <4>3, <4>5, <4>6, <4>7, <4>8 DEF Agrees, Opening
      <3> QED
        BY <1>a, <1>e, <1>r, <2>1, <3>1, <3>2
    <2>3. CASE calls[i].st # "ok"
      <3>1. failed' = TRUE
        BY <1>6, <2>3 DEF Letter!ValueSaved, Letter!Failure
      <3> QED
        BY <1>e, <1>r, <2>1, <3>1
    <2> QED
      BY <2>2, <2>3
  <1>7. CASE Letter!PictureSaved(i)
    <2>1. /\ calls[i].kind = "picture" /\ calls' = left /\ dialog' \in {dialog, None}
          /\ UNCHANGED <<screen, values, saved, focus, held, me>>
      BY <1>7, <1>d DEF Letter!PictureSaved, Letter!Answers
    <2>2. ASSUME Agrees PROVE Agrees'
      <3>1. screen \in {"sign", "done"} /\ ~Opening
        BY <1>1, <2>1, <2>2 DEF Agrees, Opening, Waiting
      <3>2. \A j \in DOMAIN calls : calls[j].kind # "value"
        BY <1>0, <1>1, <2>1 DEF Exclusive, Waiting
      <3>3. \A f \in Worded : Synced(f) => Synced(f)'
        BY <2>1, <3>2 DEF Synced
      <3>4. me = "completed" => screen # "sign"
        BY <1>0, <1>1, <2>1, <2>2 DEF Agrees, Exclusive, Waiting
      <3> QED
        BY <1>3, <2>1, <2>2, <3>1, <3>2, <3>3, <3>4 DEF Agrees, Opening
    <2>3. failed' = failed \/ failed' = TRUE
      BY <1>7 DEF Letter!PictureSaved, Letter!Failure
    <2> QED
      BY <1>a, <1>e, <1>r, <2>1, <2>2, <2>3
  <1>8. CASE Letter!Finished(i)
    <2>1. calls[i].kind = "complete" /\ UNCHANGED <<values, saved, focus, dialog, held, me>>
      BY <1>8 DEF Letter!Finished, Letter!Answers
    <2>2. CASE calls[i].st = "ok"
      <3> DEFINE c == Letter!Call("load", None, None)
      <3>1. screen' = "done" /\ failed' = failed /\ calls' = Append(left, c)
        BY <1>8, <2>2 DEF Letter!Finished, Letter!RemoveAt, RemoveAt, left
      <3>2. c \in LetterCalls /\ c.kind = "load" /\ c.st = "sent"
        BY DEF Letter!Call, LetterCalls
      <3> HIDE DEF c
      <3>3. /\ DOMAIN calls' = DOMAIN left \cup {Len(left) + 1}
            /\ \A j \in DOMAIN left : calls'[j] = left[j]
            /\ calls'[Len(left) + 1] = c
        <4>1. /\ \A j \in DOMAIN left : calls'[j] = left[j]
              /\ calls'[Len(left) + 1] = c
              /\ DOMAIN calls' = 1..(Len(left) + 1) /\ DOMAIN left = 1..Len(left)
              /\ Len(left) \in Nat
          BY <1>2, <3>1, <3>2
        <4>2. 1..(Len(left) + 1) = 1..Len(left) \cup {Len(left) + 1}
          BY <4>1
        <4> QED
          BY <4>1, <4>2
      <3>4. Exclusive' /\ Looks'
        BY <1>0, <1>3, <2>1, <3>2, <3>3 DEF Exclusive, Looks, Waiting
      <3>5. ASSUME Agrees PROVE Agrees'
        <4>1. screen = "sign" /\ me = "completed"
          BY <1>1, <2>1, <2>2, <3>5 DEF Agrees
        <4>2. \A j \in DOMAIN left :
                 left[j].kind \notin Waiting /\ left[j].kind \notin {"load", "consent"}
          BY <1>0, <1>1, <1>3, <2>1, <3>5, <4>1 DEF Agrees, Exclusive, Waiting
        <4>3. focus = None
          BY <1>0, <1>1, <2>1 DEF Looks, Waiting
        <4>4. \A f \in Worded : values[f] = held[f]
          <5>1. \A j \in DOMAIN calls : calls[j].kind # "value"
            BY <1>0, <1>1, <2>1 DEF Exclusive, Waiting
          <5>2. \A f \in Worded : Synced(f) /\ f # None
            BY <1>k, <3>5, <4>1 DEF Agrees, Worded, Letter!Fields
          <5> QED
            BY <4>3, <5>1, <5>2 DEF Synced
        <4>5. \A j \in DOMAIN left : left[j].kind \notin {"value", "complete"}
          BY <4>2 DEF Waiting
        <4> QED
          BY <2>1, <3>1, <3>2, <3>3, <4>1, <4>2, <4>4, <4>5 DEF Agrees, Opening
      <3> QED
        BY <1>a, <1>r, <3>1, <3>4, <3>5
    <2>3. CASE calls[i].st # "ok"
      <3>1. failed' = TRUE /\ calls' = left
        BY <1>8, <1>d, <2>3 DEF Letter!Finished, Letter!Failure
      <3> QED
        BY <1>e, <1>r, <2>1, <3>1
    <2> QED
      BY <2>2, <2>3
  <1>9. CASE Letter!Declined(i)
    <2>1. calls' = left /\ failed' = TRUE /\ focus' = focus /\ dialog' \in {dialog, None}
      BY <1>9, <1>d DEF Letter!Declined, Letter!Failure
    <2> QED
      BY <1>e, <1>r, <2>1
  <1>10. CASE Letter!Reported(i)
    <2>1. /\ calls[i].kind = "report" /\ calls' = left /\ dialog' \in {dialog, None}
          /\ UNCHANGED <<screen, values, saved, focus, failed, held, me>>
      BY <1>10, <1>d DEF Letter!Reported, Letter!Answers
    <2>2. ASSUME Agrees PROVE Agrees'
      <3>1. Opening => \A j \in DOMAIN left : left[j].kind \notin Holding
        BY <1>1, <1>3, <2>1, <2>2 DEF Agrees, Opening, Holding
      <3>2. dialog \notin Pictures => dialog' \notin Pictures
        BY <1>k, <2>1 DEF Letter!Fields
      <3>3. \A f \in Worded : Synced(f) => Synced(f)'
        <4>1. ASSUME NEW f \in Worded,
                     \A j \in DOMAIN left : left[j].kind = "value" => left[j].field # f
              PROVE  \A j \in DOMAIN calls : calls[j].kind = "value" => calls[j].field # f
          BY <1>3, <2>1, <4>1
        <4> QED
          BY <2>1, <4>1 DEF Synced
      <3>4. (\E j \in DOMAIN calls : calls[j].kind = "complete")
              => \E j \in DOMAIN left : left[j].kind = "complete"
        BY <1>3, <2>1
      <3>5. Opening' = Opening
        BY <2>1 DEF Opening
      <3> QED
        BY <1>3, <2>1, <2>2, <3>1, <3>2, <3>3, <3>4, <3>5 DEF Agrees
    <2> QED
      BY <1>a, <1>e, <1>r, <2>1, <2>2
  <1>11. CASE Letter!Polled(i)
    <2>1. /\ calls[i].kind = "poll" /\ calls' = left
          /\ UNCHANGED <<screen, values, saved, focus, dialog, letterBusy, failed, held, me>>
      BY <1>11, <1>d DEF Letter!Polled, Letter!Answers
    <2>2. ASSUME Agrees PROVE Agrees'
      <3>1. \A f \in Worded : Synced(f) => Synced(f)'
        <4>1. ASSUME NEW f \in Worded,
                     \A j \in DOMAIN left : left[j].kind = "value" => left[j].field # f
              PROVE  \A j \in DOMAIN calls : calls[j].kind = "value" => calls[j].field # f
          BY <1>3, <2>1, <4>1
        <4> QED
          BY <2>1, <4>1 DEF Synced
      <3>2. (\E j \in DOMAIN calls : calls[j].kind = "complete")
              => \E j \in DOMAIN left : left[j].kind = "complete"
        BY <1>3, <2>1
      <3>3. Opening' = Opening
        BY <2>1 DEF Opening
      <3>4. Opening => /\ me = "open" /\ focus = None /\ dialog \notin Pictures
                      /\ \A j, k \in DOMAIN left :
                            /\ left[j].kind \notin Waiting
                            /\ left[j].kind \in Holding => letterBusy
                            /\ left[j].kind \in Holding /\ left[k].kind \in Holding => j = k
        BY <1>3, <2>2 DEF Agrees
      <3> QED
        BY <1>3, <2>1, <2>2, <3>1, <3>2, <3>3, <3>4 DEF Agrees
    <2> QED
      BY <1>a, <1>e, <1>r, <2>1, <2>2
  <1> QED
    BY <1>4, <1>5, <1>6, <1>7, <1>8, <1>9, <1>10, <1>11 DEF Letter!Answer

LEMMA LetterStep == LetterInv /\ LetterMoves => LetterInv'
  <1> SUFFICES ASSUME LetterInv, Letter!Next, Letter!Patient PROVE LetterInv'
    BY DEF LetterMoves
  <1>0. LetterTypes
    BY DEF LetterInv
  <1>1. CASE Letter!Person \/ Letter!Others \/ Letter!Poll
    <2>1. LetterTypes'
      BY <1>0, <1>1, LetterPersonTypes
    <2> QED
      BY <1>1, <2>1, LetterPersonStep
  <1>2. ASSUME NEW i \in Letter!Slots, Letter!Serve(i) PROVE LetterInv'
    <2>1. LetterTypes'
      BY <1>0, <1>2, LetterServeTypes
    <2> QED
      BY <1>2, <2>1, LetterServeStep
  <1>3. ASSUME NEW i \in Letter!Slots, Letter!Answer(i) PROVE LetterInv'
    <2>1. LetterTypes'
      BY <1>0, <1>3, LetterAnswerTypes
    <2> QED
      BY <1>3, <2>1, LetterAnswerStep
  <1> QED
    BY <1>1, <1>2, <1>3 DEF Letter!Next

LEMMA LetterSigns == LetterInv => Letter!TypeOK /\ Letter!SignedIsShown
  <1> SUFFICES ASSUME LetterInv PROVE Letter!TypeOK /\ Letter!SignedIsShown
    OBVIOUS
  <1>1. Letter!TypeOK
    BY DEF LetterInv, LetterTypes
  <1>2. ASSUME me = "completed", ~failed PROVE \A f \in Worded : values[f] = held[f]
    <2>1. Agrees /\ Exclusive /\ Looks
      BY <1>2 DEF LetterInv, Exclusive, Looks
    <2>2. CASE screen = "sign"
      <3>1. PICK i \in DOMAIN calls : calls[i].kind = "complete"
        BY <1>2, <2>1, <2>2 DEF Agrees
      <3>2. focus = None /\ \A j \in DOMAIN calls : calls[j].kind # "value"
        BY <2>1, <3>1 DEF Exclusive, Looks, Waiting
      <3>3. \A f \in Worded : Synced(f) /\ f # None
        BY <2>1, <2>2, SigningAssumption DEF Agrees, Letter!Assumptions, Worded, Letter!Fields
      <3> QED
        BY <3>2, <3>3 DEF Synced
    <2>3. CASE screen # "sign"
      BY <1>2, <2>1, <2>3 DEF Agrees, Opening
    <2> QED
      BY <2>2, <2>3
  <1> QED
    BY <1>1, <1>2 DEF Letter!SignedIsShown, Worded

LEMMA LetterStays == LetterInv /\ UNCHANGED letterVars => LetterInv'
  <1> SUFFICES ASSUME LetterInv, UNCHANGED letterVars PROVE LetterInv'
    OBVIOUS
  <1>1. LetterTypes'
    BY DEF letterVars, LetterInv, LetterTypes, Letter!TypeOK
  <1>2. Agrees' <=> Agrees
    BY DEF letterVars, Agrees, Opening, Synced
  <1> QED
    BY <1>1, <1>2 DEF letterVars, LetterInv

-----------------------------------------------------------------------------
(* The request builder.  A call carries what its step shows, and from the  *)
(* second step on all that is placed, or can be placed again by undo or    *)
(* redo, is for one of the recipients, who are the draft's.                *)

Owners == {recipients[i].id : i \in DOMAIN recipients}
Theirs == {p \in Builder!Placings : p.owner \in Owners}
Short(P) == {s \in Seq(P) : Len(s) <= MaxFields}

BuilderTypes ==
  /\ step \in 1..5 /\ builderBusy = (call # None) /\ call \in Builder!Calls \cup {None}
  /\ recipients \in Seq(Builder!Rows) /\ Len(recipients) <= MaxRows
  /\ fields \in Short(Builder!Placings)
  /\ builderPast \in Seq(Short(Builder!Placings))
  /\ builderFuture \in Seq(Short(Builder!Placings))
  /\ Len(builderPast) + Len(builderFuture) <= BuilderLimit
  /\ builderSelected \in 1..MaxFields \cup {None} /\ builderPage \in 0..BuilderPages - 1
  /\ armedFor \in Builder!Ids /\ unverified \in BOOLEAN
  /\ draft \in [recipients : Seq(Builder!Rows), fields : Seq(Builder!Placings),
                status : {"draft", "sent"}]
  /\ Len(draft.recipients) <= MaxRows /\ saves \in 0..MaxSaves
CallIsOfStep ==
  call # None =>
     /\ call.kind = "recipients" => /\ step = 1 /\ call.rows \in Seq(Builder!Rows)
                                    /\ Len(call.rows) <= MaxRows
                                    /\ call.st = "sent" => saves < MaxSaves
     /\ call.kind = "fields" => /\ step = 2 /\ call.rows = fields
                                /\ call.st = "ok" => draft.fields = fields
     /\ call.kind = "message" => step = 3
     /\ call.kind = "send" => step = 4
AllPlaced ==
  /\ step >= 2 => /\ recipients = draft.recipients /\ fields \in Short(Theirs)
                  /\ builderPast \in Seq(Short(Theirs)) /\ builderFuture \in Seq(Short(Theirs))
                  /\ armedFor \in Owners \cup {None}
  /\ step > 2 => fields = draft.fields
BuilderInv == BuilderTypes /\ CallIsOfStep /\ AllPlaced
BuilderMoves == Builder!Next /\ Builder!Waits

LEMMA BuilderConstants ==
  /\ None \notin Builder!Calls /\ BuilderPages \in Nat \ {0} /\ BuilderLimit \in Nat \ {0}
  /\ MaxFields \in Nat /\ MaxSaves \in Nat /\ MaxRows \in Nat \ {0}
  BY SigningAssumption DEF Builder!Assumptions

LEMMA BuilderListsAre ==
  /\ \A S, k : Builder!Nth(S, k) = Nth(S, k)
  /\ \A s, T : Builder!Filtered(s, T) = Filtered(s, T)
  /\ \A s, i : Builder!RemoveAt(s, i) = RemoveAt(s, i)
  /\ \A s : Builder!Last(s) = Last(s) /\ Builder!Front(s) = Front(s)
  /\ \A S : Builder!Cardinality(S) = Cardinality(S)
  <1>1. \A S : Builder!Cardinality(S) = Cardinality(S)
    BY DEF Builder!Cardinality, Cardinality
  <1>2. \A S, k : Builder!Nth(S, k) = Nth(S, k)
    BY <1>1 DEF Builder!Nth, Nth
  <1>3. \A S : Builder!InOrder(S) = InOrder(S)
    BY <1>1, <1>2 DEF Builder!InOrder, InOrder
  <1>4. \A s, T : Builder!Filtered(s, T) = Filtered(s, T)
    BY <1>3 DEF Builder!Filtered, Filtered
  <1> QED
    BY <1>1, <1>2, <1>4
       DEF Builder!RemoveAt, RemoveAt, Builder!Last, Last, Builder!Front, Front

\* A history of lists, as it grows and shrinks.
LEMMA HistoryIs ==
  ASSUME NEW T, NEW h \in Seq(T)
  PROVE  /\ \A s \in T : Append(h, s) \in Seq(T) /\ Len(Append(h, s)) = Len(h) + 1
         /\ h # <<>> => /\ Tail(h) \in Seq(T) /\ Len(Tail(h)) = Len(h) - 1
                        /\ Front(h) \in Seq(T) /\ Len(Front(h)) = Len(h) - 1
                        /\ Last(h) \in T /\ Len(h) > 0
         /\ Len(h) \in Nat /\ <<>> \in Seq(T) /\ Len(<<>>) = 0
  <1>1. \A s \in T : Append(h, s) \in Seq(T) /\ Len(Append(h, s)) = Len(h) + 1
    OBVIOUS
  <1>2. ASSUME h # <<>> PROVE Tail(h) \in Seq(T) /\ Len(Tail(h)) = Len(h) - 1 /\ Len(h) > 0
    BY <1>2
  <1>3. ASSUME h # <<>> PROVE Front(h) \in Seq(T) /\ Len(Front(h)) = Len(h) - 1
    BY <1>3, <1>2 DEF Front
  <1>4. ASSUME h # <<>> PROVE Last(h) \in T
    BY <1>4, <1>2 DEF Last
  <1>5. Len(h) \in Nat /\ <<>> \in Seq(T) /\ Len(<<>>) = 0
    OBVIOUS
  <1> QED
    BY <1>1, <1>2, <1>3, <1>4, <1>5

\* A list of places, as one is added, taken away or moved.
LEMMA ShortIs ==
  ASSUME NEW P, NEW s \in Short(P), MaxFields \in Nat
  PROVE  /\ \A p \in P : Len(s) < MaxFields => Append(s, p) \in Short(P)
         /\ \A i \in DOMAIN s : RemoveAt(s, i) \in Short(P)
         /\ (\A p \in P : [p EXCEPT !.moved = ~@] \in P) =>
               \A i \in DOMAIN s : [s EXCEPT ![i].moved = ~@] \in Short(P)
         /\ <<>> \in Short(P)
  <1>1. s \in Seq(P) /\ Len(s) <= MaxFields /\ Len(s) \in Nat /\ DOMAIN s = 1..Len(s)
    BY DEF Short
  <1>2. ASSUME NEW p \in P, Len(s) < MaxFields PROVE Append(s, p) \in Short(P)
    BY <1>1, <1>2 DEF Short
  <1>3. ASSUME NEW i \in DOMAIN s PROVE RemoveAt(s, i) \in Short(P)
    <2>1. RemoveAt(s, i) \in Seq(P) /\ Len(RemoveAt(s, i)) = Len(s) - 1
      BY <1>1, RemoveAtIs
    <2>2. PICK n \in Nat : n = Len(s)
      BY <1>1
    <2>3. Len(RemoveAt(s, i)) <= MaxFields
      BY ONLY <1>1, <2>1, <2>2, SigningAssumption DEF Builder!Assumptions
    <2> QED
      BY <2>1, <2>3 DEF Short
  <1>4. ASSUME \A p \in P : [p EXCEPT !.moved = ~@] \in P, NEW i \in DOMAIN s
        PROVE  [s EXCEPT ![i].moved = ~@] \in Short(P)
    <2>1. s[i] \in P
      BY <1>1
    <2> DEFINE p == [s[i] EXCEPT !.moved = ~@]
    <2>2. p \in P
      BY <1>4, <2>1
    <2>3. [s EXCEPT ![i].moved = ~@] = [s EXCEPT ![i] = p]
      OBVIOUS
    <2> HIDE DEF p
    <2>4. [s EXCEPT ![i] = p] \in Seq(P) /\ Len([s EXCEPT ![i] = p]) = Len(s)
      BY <1>1, <2>2
    <2> QED
      BY <1>1, <2>3, <2>4 DEF Short
  <1>5. <<>> \in Short(P)
    BY DEF Short
  <1> QED
    BY <1>2, <1>3, <1>4, <1>5

\* What can be undone next, after a change to the places.
LEMMA RememberedIs ==
  ASSUME NEW P, Builder!Remember, fields \in Short(P), builderPast \in Seq(Short(P)),
         BuilderLimit \in Nat, Len(builderPast) <= BuilderLimit
  PROVE  /\ builderPast' \in Seq(Short(P)) /\ builderFuture' \in Seq(Short(P))
         /\ Len(builderPast') + Len(builderFuture') <= BuilderLimit
  <1> DEFINE longer == Append(builderPast, fields)
  <1>1. longer \in Seq(Short(P)) /\ Len(longer) = Len(builderPast) + 1 /\ Len(builderPast) \in Nat
    BY HistoryIs
  <1>2. /\ builderPast' = IF Len(longer) > BuilderLimit THEN Tail(longer) ELSE longer
        /\ builderFuture' = <<>>
    BY DEF Builder!Remember
  <1> HIDE DEF longer
  <1>3. longer # <<>> /\ <<>> \in Seq(Short(P)) /\ Len(<<>>) = 0
    BY <1>1
  <1>4. Tail(longer) \in Seq(Short(P)) /\ Len(Tail(longer)) = Len(longer) - 1
    BY <1>1, <1>3, HistoryIs
  <1> QED
    BY <1>1, <1>2, <1>3, <1>4

LEMMA BuilderInit == Builder!Init => BuilderInv
  <1> SUFFICES ASSUME Builder!Init PROVE BuilderInv
    OBVIOUS
  <1>1. <<Builder!Blank>> \in Seq(Builder!Rows) /\ Len(<<Builder!Blank>>) = 1
    BY DEF Builder!Blank, Builder!Rows, Builder!Ids, Builder!Roles
  <1>2. /\ <<>> \in Short(Builder!Placings) /\ <<>> \in Seq(Short(Builder!Placings))
        /\ <<>> \in Seq(Builder!Rows) /\ <<>> \in Seq(Builder!Placings) /\ Len(<<>>) = 0
    BY BuilderConstants DEF Short
  <1>3. builderBusy = (call # None) /\ unverified \in BOOLEAN
    BY DEF Builder!Init
  <1>4. BuilderTypes
    BY <1>1, <1>2, <1>3, BuilderConstants DEF Builder!Init, BuilderTypes, Builder!Ids
  <1> QED
    BY <1>4 DEF Builder!Init, BuilderInv, CallIsOfStep, AllPlaced

\* The steps of the first screen, and those that only send a call.
LEMMA BuilderFirst ==
  ASSUME BuilderInv, Builder!Waits,
         \/ Builder!AddRecipient \/ Builder!SaveRecipients
         \/ \E i \in 1..MaxRows : \/ Builder!RemoveRecipient(i)
                                  \/ \E who \in People \cup {None}, role \in Builder!Roles :
                                        Builder!Update(i, who, role)
         \/ Builder!SaveFields \/ Builder!SaveMessage \/ Builder!SendRequest
  PROVE  BuilderInv'
  <1> USE DEF Builder!history, Builder!server
  <1>0. BuilderTypes /\ CallIsOfStep /\ AllPlaced
    BY DEF BuilderInv
  <1>k. None \notin Builder!Calls /\ MaxFields \in Nat /\ MaxRows \in Nat /\ MaxSaves \in Nat
    BY BuilderConstants
  <1>1. CASE Builder!AddRecipient
    <2>1. /\ step = 1 /\ Len(recipients) < MaxRows
          /\ recipients' = Append(recipients, Builder!Blank)
          /\ UNCHANGED <<step, builderBusy, call, fields, builderPast, builderFuture,
                        builderSelected, builderPage, armedFor, unverified, draft, saves>>
      BY <1>1 DEF Builder!AddRecipient
    <2>2. recipients' \in Seq(Builder!Rows) /\ Len(recipients') <= MaxRows
      <3>1. Builder!Blank \in Builder!Rows
        BY DEF Builder!Blank, Builder!Rows, Builder!Ids, Builder!Roles
      <3> QED
        BY <1>0, <1>k, <2>1, <3>1 DEF BuilderTypes
    <2> QED
      BY <1>0, <2>1, <2>2 DEF BuilderInv, BuilderTypes, CallIsOfStep, AllPlaced
  <1>2. ASSUME NEW i \in 1..MaxRows, Builder!RemoveRecipient(i) PROVE BuilderInv'
    <2>1. /\ step = 1 /\ i \in DOMAIN recipients /\ recipients' = RemoveAt(recipients, i)
          /\ fields' = <<>>
          /\ UNCHANGED <<step, builderBusy, call, builderPast, builderFuture,
                        builderSelected, builderPage, armedFor, unverified, draft, saves>>
      BY <1>2, BuilderListsAre DEF Builder!RemoveRecipient
    <2>2. recipients' \in Seq(Builder!Rows) /\ Len(recipients') <= MaxRows
      <3>1. /\ recipients \in Seq(Builder!Rows) /\ Len(recipients) <= MaxRows
            /\ i \in 1..Len(recipients) /\ Len(recipients) \in Nat
        BY <1>0, <2>1 DEF BuilderTypes
      <3>2. /\ RemoveAt(recipients, i) \in Seq(Builder!Rows)
            /\ Len(RemoveAt(recipients, i)) = Len(recipients) - 1
        BY ONLY <3>1, RemoveAtIs
      <3> QED
        BY <1>k, <2>1, <3>1, <3>2
    <2>3. fields' \in Short(Builder!Placings)
      BY <1>k, <2>1 DEF Short
    <2> QED
      BY <1>0, <2>1, <2>2, <2>3 DEF BuilderInv, BuilderTypes, CallIsOfStep, AllPlaced
  <1>3. ASSUME NEW i \in 1..MaxRows, NEW who \in People \cup {None}, NEW role \in Builder!Roles,
               Builder!Update(i, who, role)
        PROVE  BuilderInv'
    <2>1. /\ step = 1 /\ i \in DOMAIN recipients
          /\ recipients' = [recipients EXCEPT ![i].who = who, ![i].role = role]
          /\ UNCHANGED <<step, builderBusy, call, fields, builderPast, builderFuture,
                        builderSelected, builderPage, armedFor, unverified, draft, saves>>
      BY <1>3 DEF Builder!Update
    <2>2. recipients' \in Seq(Builder!Rows) /\ Len(recipients') <= MaxRows
      <3> DEFINE row == [recipients[i] EXCEPT !.who = who, !.role = role]
      <3>1. recipients \in Seq(Builder!Rows) /\ recipients[i] \in Builder!Rows
        BY <1>0, <2>1 DEF BuilderTypes
      <3>2. row \in Builder!Rows /\ recipients' = [recipients EXCEPT ![i] = row]
        BY <2>1, <3>1 DEF Builder!Rows
      <3> HIDE DEF row
      <3>3. Len(recipients) <= MaxRows /\ i \in DOMAIN recipients
        BY <1>0, <2>1 DEF BuilderTypes
      <3> QED
        BY ONLY <3>1, <3>2, <3>3
    <2> QED
      BY <1>0, <2>1, <2>2 DEF BuilderInv, BuilderTypes, CallIsOfStep, AllPlaced
  <1>s. ASSUME NEW kind \in {"recipients", "fields", "message", "send"},
               NEW rows \in Seq(Builder!Rows) \cup Seq(Builder!Placings) \cup {None},
               Builder!Send(kind, rows), Builder!Keep
        PROVE  /\ BuilderTypes' /\ AllPlaced'
               /\ call' = [kind |-> kind, rows |-> rows, st |-> "sent"]
               /\ UNCHANGED <<step, fields, saves>>
    <2>1. /\ builderBusy' = TRUE /\ call' = [kind |-> kind, rows |-> rows, st |-> "sent"]
          /\ UNCHANGED <<step, recipients, fields, builderPast, builderFuture,
                        builderSelected, builderPage, armedFor, unverified, draft, saves>>
      BY <1>s DEF Builder!Send, Builder!Keep
    <2>2. call' \in Builder!Calls
      BY <2>1 DEF Builder!Calls
    <2>3. builderBusy' = (call' # None)
      BY <1>k, <2>1, <2>2
    <2>4. Theirs' = Theirs /\ Owners' = Owners
      BY <2>1 DEF Theirs, Owners
    <2>5. BuilderTypes'
      BY <1>0, <2>1, <2>2, <2>3 DEF BuilderTypes
    <2>6. AllPlaced'
      BY <1>0, <2>1, <2>4 DEF AllPlaced
    <2> QED
      BY <2>1, <2>5, <2>6
  <1>4. CASE Builder!SaveRecipients
    <2> DEFINE T == {r \in Builder!Range(recipients) : r.who # None}
               rows == Filtered(recipients, T)
    <2>1. step = 1 /\ saves < MaxSaves /\ Builder!Send("recipients", rows) /\ Builder!Keep
      BY <1>4, BuilderListsAre DEF Builder!SaveRecipients
    <2>2. rows \in Seq(Builder!Rows) /\ Len(rows) <= MaxRows
      <3>1. /\ recipients \in Seq(Builder!Rows) /\ Len(recipients) <= MaxRows
            /\ Len(recipients) \in Nat
        BY <1>0 DEF BuilderTypes
      <3> HIDE DEF T
      <3>2. rows \in Seq(Builder!Rows) /\ Len(rows) <= Len(recipients) /\ Len(rows) \in Nat
        BY ONLY <3>1, FilteredIs
      <3> QED
        BY <1>k, <3>1, <3>2
    <2> HIDE DEF rows
    <2>3. /\ BuilderTypes' /\ AllPlaced'
          /\ call' = [kind |-> "recipients", rows |-> rows, st |-> "sent"]
          /\ UNCHANGED <<step, fields, saves>>
      BY <1>s, <2>1, <2>2
    <2> QED
      BY <2>1, <2>2, <2>3 DEF BuilderInv, CallIsOfStep
  <1>5. CASE Builder!SaveFields
    <2>1. step = 2 /\ Builder!Send("fields", fields) /\ Builder!Keep
      BY <1>5 DEF Builder!SaveFields
    <2>2. fields \in Seq(Builder!Placings)
      BY <1>0 DEF BuilderTypes, Short
    <2>3. /\ BuilderTypes' /\ AllPlaced'
          /\ call' = [kind |-> "fields", rows |-> fields, st |-> "sent"]
          /\ UNCHANGED <<step, fields, saves>>
      BY <1>s, <2>1, <2>2
    <2> QED
      BY <2>1, <2>3 DEF BuilderInv, CallIsOfStep
  <1>6. CASE Builder!SaveMessage
    <2>1. step = 3 /\ Builder!Send("message", None) /\ Builder!Keep
      BY <1>6 DEF Builder!SaveMessage
    <2>3. /\ BuilderTypes' /\ AllPlaced'
          /\ call' = [kind |-> "message", rows |-> None, st |-> "sent"]
          /\ UNCHANGED <<step, fields, saves>>
      BY <1>s, <2>1
    <2> QED
      BY <2>1, <2>3 DEF BuilderInv, CallIsOfStep
  <1>7. CASE Builder!SendRequest
    <2>1. step = 4 /\ Builder!Send("send", None) /\ Builder!Keep
      BY <1>7 DEF Builder!SendRequest
    <2>3. /\ BuilderTypes' /\ AllPlaced'
          /\ call' = [kind |-> "send", rows |-> None, st |-> "sent"]
          /\ UNCHANGED <<step, fields, saves>>
      BY <1>s, <2>1
    <2> QED
      BY <2>1, <2>3 DEF BuilderInv, CallIsOfStep
  <1> QED
    BY <1>1, <1>2, <1>3, <1>4, <1>5, <1>6, <1>7

\* The places shown are among those of the request.
LEMMA PlaceIsOne ==
  ASSUME BuilderTypes, NEW k \in Builder!Spots
  PROVE  Builder!PlaceOf(k) \in DOMAIN fields
  <1>1. /\ Len(fields) \in Nat /\ Builder!OnPage \in SUBSET (1..Len(fields))
        /\ DOMAIN fields = 1..Len(fields)
    BY DEF Builder!OnPage, BuilderTypes, Short
  <1>2. k \in 1..Cardinality(Builder!OnPage) /\ Builder!PlaceOf(k) = Nth(Builder!OnPage, k)
    BY BuilderListsAre DEF Builder!Spots, Builder!PlaceOf
  <1> QED
    BY <1>1, <1>2, NthIs

\* The steps of the second screen that place, move and take away.
LEMMA BuilderPlaces ==
  ASSUME BuilderInv, Builder!Waits,
         \/ Builder!OnDrawn \/ Builder!Undo \/ Builder!Redo
         \/ \E k \in 1..MaxFields : Builder!RemoveField(k) \/ Builder!OnGeometryChanged(k)
  PROVE  BuilderInv'
  <1> USE DEF Builder!history, Builder!server
  <1>0. BuilderTypes /\ CallIsOfStep /\ AllPlaced
    BY DEF BuilderInv
  <1>k. /\ None \notin Builder!Calls /\ MaxFields \in Nat /\ BuilderLimit \in Nat
        /\ Len(builderPast) \in Nat /\ Len(builderFuture) \in Nat
    BY <1>0, BuilderConstants DEF BuilderTypes
  <1>1. /\ step = 2
        /\ UNCHANGED <<step, builderBusy, call, recipients, builderPage, armedFor, unverified,
                      draft, saves>>
        /\ builderSelected' \in {builderSelected, None}
    BY DEF Builder!OnDrawn, Builder!Undo, Builder!Redo, Builder!RemoveField,
           Builder!OnGeometryChanged
  <1>2. call # None => fields' = fields
    BY <1>1 DEF Builder!Waits
  <1>3. CallIsOfStep'
    BY <1>0, <1>1, <1>2 DEF CallIsOfStep
  <1>4. Theirs' = Theirs /\ Owners' = Owners
    BY <1>1 DEF Theirs, Owners
  <1>t. Theirs \subseteq Builder!Placings
    BY DEF Theirs
  <1>p. /\ fields \in Short(Theirs) /\ builderPast \in Seq(Short(Theirs))
        /\ builderFuture \in Seq(Short(Theirs))
    BY <1>0, <1>1 DEF AllPlaced
  <1>w. /\ \A s \in Short(Theirs) : s \in Short(Builder!Placings)
        /\ \A h \in Seq(Short(Theirs)) : h \in Seq(Short(Builder!Placings))
    <2>1. \A s \in Short(Theirs) : s \in Short(Builder!Placings)
      BY <1>t DEF Short
    <2> QED
      BY <2>1
  <1>r. ASSUME fields' \in Short(Theirs), builderPast' \in Seq(Short(Theirs)),
               builderFuture' \in Seq(Short(Theirs)),
               Len(builderPast') + Len(builderFuture') <= BuilderLimit
        PROVE  BuilderInv'
    <2>1. BuilderTypes'
      BY <1>0, <1>1, <1>r, <1>w DEF BuilderTypes
    <2>2. AllPlaced'
      BY <1>0, <1>1, <1>4, <1>r DEF AllPlaced
    <2> QED
      BY <1>3, <2>1, <2>2 DEF BuilderInv
  <1>m. Builder!Remember => /\ builderPast' \in Seq(Short(Theirs))
                            /\ builderFuture' \in Seq(Short(Theirs))
                            /\ Len(builderPast') + Len(builderFuture') <= BuilderLimit
    <2>1. Len(builderPast) <= BuilderLimit
      BY <1>0, <1>k DEF BuilderTypes
    <2> QED
      BY <1>k, <1>p, <2>1, RememberedIs
  <1>5. CASE Builder!OnDrawn
    <2> DEFINE f == [owner |-> armedFor, page |-> builderPage, moved |-> FALSE]
    <2>1. /\ armedFor # None /\ Len(fields) < MaxFields /\ Builder!Remember
          /\ fields' = Append(fields, f)
      BY <1>5 DEF Builder!OnDrawn
    <2>2. f \in Theirs
      BY <1>0, <1>1, <2>1 DEF AllPlaced, BuilderTypes, Theirs, Builder!Placings
    <2> HIDE DEF f
    <2>3. fields' \in Short(Theirs)
      BY <1>k, <1>p, <2>1, <2>2, ShortIs
    <2> QED
      BY <1>m, <1>r, <2>1, <2>3
  <1>6. ASSUME NEW k \in 1..MaxFields, Builder!RemoveField(k) PROVE BuilderInv'
    <2> DEFINE i == Builder!PlaceOf(k)
    <2>1. Builder!Remember /\ fields' = RemoveAt(fields, i) /\ k \in Builder!Spots
      BY <1>6, BuilderListsAre DEF Builder!RemoveField
    <2>2. i \in DOMAIN fields
      BY <1>0, <2>1, PlaceIsOne
    <2> HIDE DEF i
    <2>3. fields' \in Short(Theirs)
      BY <1>k, <1>p, <2>1, <2>2, ShortIs
    <2> QED
      BY <1>m, <1>r, <2>1, <2>3
  <1>7. ASSUME NEW k \in 1..MaxFields, Builder!OnGeometryChanged(k) PROVE BuilderInv'
    <2> DEFINE i == Builder!PlaceOf(k)
    <2>1. Builder!Remember /\ fields' = [fields EXCEPT ![i].moved = ~@] /\ k \in Builder!Spots
      BY <1>7 DEF Builder!OnGeometryChanged
    <2>2. i \in DOMAIN fields
      BY <1>0, <2>1, PlaceIsOne
    <2> HIDE DEF i
    <2>3. \A p \in Theirs : [p EXCEPT !.moved = ~@] \in Theirs
      BY DEF Theirs, Builder!Placings
    <2>4. fields' \in Short(Theirs)
      BY <1>k, <1>p, <2>1, <2>2, <2>3, ShortIs
    <2> QED
      BY <1>m, <1>r, <2>1, <2>4
  <1>8. CASE Builder!Undo
    <2>1. /\ builderPast # <<>> /\ fields' = Last(builderPast)
          /\ builderPast' = Front(builderPast) /\ builderFuture' = Append(builderFuture, fields)
      BY <1>8, BuilderListsAre DEF Builder!Undo
    <2>2. /\ fields' \in Short(Theirs)
          /\ builderPast' \in Seq(Short(Theirs)) /\ Len(builderPast') = Len(builderPast) - 1
      BY <1>p, <2>1, HistoryIs
    <2>3. /\ builderFuture' \in Seq(Short(Theirs))
          /\ Len(builderFuture') = Len(builderFuture) + 1
      BY <1>p, <2>1, HistoryIs
    <2>4. Len(builderPast') + Len(builderFuture') <= BuilderLimit
      BY <1>0, <1>k, <2>2, <2>3 DEF BuilderTypes
    <2> QED
      BY <1>r, <2>2, <2>3, <2>4
  <1>9. CASE Builder!Redo
    <2>1. /\ builderFuture # <<>> /\ fields' = Last(builderFuture)
          /\ builderFuture' = Front(builderFuture) /\ builderPast' = Append(builderPast, fields)
      BY <1>9, BuilderListsAre DEF Builder!Redo
    <2>2. /\ fields' \in Short(Theirs)
          /\ builderFuture' \in Seq(Short(Theirs)) /\ Len(builderFuture') = Len(builderFuture) - 1
      BY <1>p, <2>1, HistoryIs
    <2>3. /\ builderPast' \in Seq(Short(Theirs))
          /\ Len(builderPast') = Len(builderPast) + 1
      BY <1>p, <2>1, HistoryIs
    <2>4. Len(builderPast') + Len(builderFuture') <= BuilderLimit
      BY <1>0, <1>k, <2>2, <2>3 DEF BuilderTypes
    <2> QED
      BY <1>r, <2>2, <2>3, <2>4
  <1> QED
    BY <1>5, <1>6, <1>7, <1>8, <1>9

\* The other steps of the person.
LEMMA BuilderLooks ==
  ASSUME BuilderInv, Builder!Waits,
         \/ \E id \in (1..MaxSaves) \X (1..MaxRows) : Builder!ArmFor(id)
         \/ \E k \in 1..MaxFields \cup {None} : Builder!OnSelect(k)
         \/ \E p \in 0..BuilderPages - 1 : Builder!TurnPage(p)
         \/ \E n \in 1..3 : Builder!Back(n)
  PROVE  BuilderInv'
  <1> USE DEF Builder!history, Builder!server
  <1>0. BuilderTypes /\ CallIsOfStep /\ AllPlaced
    BY DEF BuilderInv
  <1>1. ASSUME NEW id \in (1..MaxSaves) \X (1..MaxRows), Builder!ArmFor(id) PROVE BuilderInv'
    <2>1. /\ step = 2 /\ armedFor' = id
          /\ UNCHANGED <<step, builderBusy, call, recipients, fields, builderPast, builderFuture,
                        builderSelected, builderPage, unverified, draft, saves>>
      BY <1>1 DEF Builder!ArmFor
    <2>2. armedFor' \in Builder!Ids
      BY <2>1 DEF Builder!Ids
    <2>3. armedFor' \in Owners'
      BY <1>1, <2>1 DEF Builder!ArmFor, Builder!Range, Owners
    <2>4. Theirs' = Theirs
      BY <2>1 DEF Theirs, Owners
    <2> QED
      BY <1>0, <2>1, <2>2, <2>3, <2>4 DEF BuilderInv, BuilderTypes, CallIsOfStep, AllPlaced
  <1>2. ASSUME NEW k \in 1..MaxFields \cup {None}, Builder!OnSelect(k) PROVE BuilderInv'
    <2>1. /\ builderSelected' = k
          /\ UNCHANGED <<step, builderBusy, call, recipients, fields, builderPast, builderFuture,
                        builderPage, armedFor, unverified, draft, saves>>
      BY <1>2 DEF Builder!OnSelect
    <2>2. Theirs' = Theirs /\ Owners' = Owners
      BY <2>1 DEF Theirs, Owners
    <2> QED
      BY <1>0, <2>1, <2>2 DEF BuilderInv, BuilderTypes, CallIsOfStep, AllPlaced
  <1>3. ASSUME NEW p \in 0..BuilderPages - 1, Builder!TurnPage(p) PROVE BuilderInv'
    <2>1. /\ builderPage' = p
          /\ UNCHANGED <<step, builderBusy, call, recipients, fields, builderPast, builderFuture,
                        builderSelected, armedFor, unverified, draft, saves>>
      BY <1>3 DEF Builder!TurnPage
    <2>2. Theirs' = Theirs /\ Owners' = Owners
      BY <2>1 DEF Theirs, Owners
    <2> QED
      BY <1>0, <2>1, <2>2 DEF BuilderInv, BuilderTypes, CallIsOfStep, AllPlaced
  <1>4. ASSUME NEW n \in 1..3, Builder!Back(n) PROVE BuilderInv'
    <2>1. /\ step \in 2..4 /\ n = step - 1 /\ step' = n
          /\ UNCHANGED <<builderBusy, call, recipients, fields, builderPast, builderFuture,
                        builderSelected, builderPage, armedFor, unverified, draft, saves>>
      BY <1>4 DEF Builder!Back
    <2>2. Theirs' = Theirs /\ Owners' = Owners
      BY <2>1 DEF Theirs, Owners
    <2>3. call = None
      BY <2>1 DEF Builder!Waits
    <2> QED
      BY <1>0, <2>1, <2>2, <2>3 DEF BuilderInv, BuilderTypes, CallIsOfStep, AllPlaced
  <1> QED
    BY <1>1, <1>2, <1>3, <1>4

LEMMA BuilderServe ==
  ASSUME BuilderInv, Builder!Waits, Builder!Serve PROVE BuilderInv'
  <1> USE DEF Builder!history, Builder!server
  <1>0. BuilderTypes /\ CallIsOfStep /\ AllPlaced
    BY DEF BuilderInv
  <1>k. None \notin Builder!Calls /\ MaxSaves \in Nat /\ MaxRows \in Nat
    BY BuilderConstants
  <1>1. /\ call # None /\ call.st = "sent" /\ call \in Builder!Calls
        /\ UNCHANGED <<step, builderBusy, recipients, fields, builderPast, builderFuture,
                      builderSelected, builderPage, armedFor, unverified>>
    BY <1>0 DEF Builder!Serve, BuilderTypes
  <1>2. Theirs' = Theirs /\ Owners' = Owners
    BY <1>1 DEF Theirs, Owners
  <1>3. ASSUME NEW ok \in BOOLEAN, Builder!Answered(ok)
        PROVE  /\ call' \in Builder!Calls /\ call' # None /\ call'.kind = call.kind
               /\ call'.rows = call.rows /\ call'.st # "sent" /\ (call'.st = "ok" <=> ok)
    <2>1. call' = [call EXCEPT !.st = IF ok THEN "ok" ELSE "no"]
      BY <1>3 DEF Builder!Answered
    <2>2. call' \in Builder!Calls
      BY <1>1, <2>1 DEF Builder!Calls
    <2> QED
      BY <1>k, <1>1, <2>1, <2>2 DEF Builder!Calls
  <1>b. call' # None => builderBusy' = (call' # None)
    BY <1>0, <1>1 DEF BuilderTypes
  <1>4. CASE Builder!ReplaceRecipients
    <2>1. /\ call.kind = "recipients" /\ Builder!Answered(TRUE) /\ saves' = saves + 1
          /\ draft' = [draft EXCEPT !.recipients = Builder!Numbered(call.rows), !.fields = <<>>]
      BY <1>4 DEF Builder!ReplaceRecipients
    <2>2. /\ step = 1 /\ call.rows \in Seq(Builder!Rows) /\ Len(call.rows) <= MaxRows
          /\ saves < MaxSaves
      BY <1>0, <1>1, <2>1 DEF CallIsOfStep
    <2> DEFINE rows == call.rows
               new == Builder!Numbered(rows)
    <2>3. new \in Seq(Builder!Rows) /\ Len(new) = Len(rows)
      <3>1. /\ Len(rows) \in Nat /\ DOMAIN rows = 1..Len(rows)
            /\ \A i \in 1..Len(rows) : rows[i] \in Builder!Rows
        BY <2>2
      <3>2. \A i \in 1..Len(rows) : <<saves + 1, i>> \in Builder!Ids
        BY <1>0, <3>1 DEF BuilderTypes, Builder!Ids
      <3>3. \A i \in 1..Len(rows) : [rows[i] EXCEPT !.id = <<saves + 1, i>>] \in Builder!Rows
        BY <3>1, <3>2 DEF Builder!Rows
      <3>4. new = [i \in 1..Len(rows) |-> [rows[i] EXCEPT !.id = <<saves + 1, i>>]]
        BY <3>1 DEF Builder!Numbered
      <3> HIDE DEF new, rows
      <3>5. new \in [1..Len(rows) -> Builder!Rows]
        BY <3>3, <3>4
      <3> QED
        BY <3>1, <3>5
    <2> HIDE DEF new
    <2>4. /\ draft' \in [recipients : Seq(Builder!Rows), fields : Seq(Builder!Placings),
                         status : {"draft", "sent"}]
          /\ Len(draft'.recipients) <= MaxRows
      <3>1. draft' = [recipients |-> new, fields |-> <<>>, status |-> draft.status]
        BY <1>0, <2>1 DEF BuilderTypes, new
      <3>2. <<>> \in Seq(Builder!Placings) /\ draft.status \in {"draft", "sent"}
        BY <1>0 DEF BuilderTypes
      <3> QED
        BY ONLY <2>2, <2>3, <3>1, <3>2
    <2>5. saves' \in 0..MaxSaves
      BY <1>0, <1>k, <2>1, <2>2 DEF BuilderTypes
    <2>6. /\ call' \in Builder!Calls /\ call' # None /\ call'.kind = call.kind
          /\ call'.rows = call.rows /\ call'.st # "sent"
      BY <1>3, <2>1
    <2>7. BuilderTypes'
      BY <1>0, <1>1, <1>b, <2>4, <2>5, <2>6 DEF BuilderTypes
    <2>8. CallIsOfStep' /\ AllPlaced'
      BY <1>1, <2>1, <2>2, <2>6 DEF CallIsOfStep, AllPlaced
    <2> QED
      BY <2>7, <2>8 DEF BuilderInv
  <1>5. CASE Builder!ReplaceFields
    <2>1. /\ call.kind = "fields" /\ Builder!Answered(TRUE) /\ saves' = saves
          /\ draft' = [draft EXCEPT !.fields = call.rows]
      BY <1>5 DEF Builder!ReplaceFields
    <2>2. step = 2 /\ call.rows = fields /\ fields \in Seq(Builder!Placings)
      BY <1>0, <1>1, <2>1 DEF CallIsOfStep, BuilderTypes, Short
    <2>3. /\ draft' \in [recipients : Seq(Builder!Rows), fields : Seq(Builder!Placings),
                         status : {"draft", "sent"}]
          /\ draft'.recipients = draft.recipients /\ draft'.fields = fields
      BY <1>0, <2>1, <2>2 DEF BuilderTypes
    <2>4. /\ call' \in Builder!Calls /\ call' # None /\ call'.kind = call.kind
          /\ call'.rows = call.rows /\ call'.st # "sent"
      BY <1>3, <2>1
    <2>5. BuilderTypes'
      BY <1>0, <1>1, <1>b, <2>1, <2>3, <2>4 DEF BuilderTypes
    <2>6. CallIsOfStep' /\ AllPlaced'
      BY <1>0, <1>1, <1>2, <2>1, <2>2, <2>3, <2>4 DEF CallIsOfStep, AllPlaced
    <2> QED
      BY <2>5, <2>6 DEF BuilderInv
  <1>6. CASE Builder!PatchMessage \/ Builder!Refuse
    <2>1. /\ UNCHANGED <<draft, saves>>
          /\ \/ Builder!Answered(TRUE) /\ call.kind = "message"
             \/ Builder!Answered(FALSE)
      BY <1>6 DEF Builder!PatchMessage, Builder!Refuse
    <2>2. /\ call' \in Builder!Calls /\ call' # None /\ call'.kind = call.kind
          /\ call'.rows = call.rows /\ call'.st # "sent"
          /\ call'.st = "ok" => call.kind = "message"
      BY <1>3, <2>1
    <2>3. BuilderTypes'
      BY <1>0, <1>1, <1>b, <2>1, <2>2 DEF BuilderTypes
    <2>4. CallIsOfStep' /\ AllPlaced'
      BY <1>0, <1>1, <1>2, <2>1, <2>2 DEF CallIsOfStep, AllPlaced
    <2> QED
      BY <2>3, <2>4 DEF BuilderInv
  <1>7. CASE Builder!SendOut
    <2>1. /\ call.kind = "send" /\ Builder!Answered(TRUE) /\ saves' = saves
          /\ draft' = [draft EXCEPT !.status = "sent"]
      BY <1>7 DEF Builder!SendOut
    <2>2. /\ draft' \in [recipients : Seq(Builder!Rows), fields : Seq(Builder!Placings),
                         status : {"draft", "sent"}]
          /\ draft'.recipients = draft.recipients /\ draft'.fields = draft.fields
      BY <1>0, <2>1 DEF BuilderTypes
    <2>3. /\ call' \in Builder!Calls /\ call' # None /\ call'.kind = call.kind
          /\ call'.rows = call.rows /\ call'.st # "sent"
      BY <1>3, <2>1
    <2>4. BuilderTypes'
      BY <1>0, <1>1, <1>b, <2>1, <2>2, <2>3 DEF BuilderTypes
    <2>5. CallIsOfStep' /\ AllPlaced'
      BY <1>0, <1>1, <1>2, <2>1, <2>2, <2>3 DEF CallIsOfStep, AllPlaced
    <2> QED
      BY <2>4, <2>5 DEF BuilderInv
  <1> QED
    BY <1>4, <1>5, <1>6, <1>7 DEF Builder!Serve

\* Whoever signs first is one of the recipients.
LEMMA FirstSignerIs ==
  ASSUME BuilderTypes
  PROVE  Builder!FirstSigner
            \in {draft.recipients[i].id : i \in DOMAIN draft.recipients} \cup {None}
  <1> DEFINE rows == draft.recipients
             signing == {i \in DOMAIN rows : rows[i].role = "signer"}
  <1>1. rows \in Seq(Builder!Rows)
    BY DEF BuilderTypes
  <1>2. Builder!FirstSigner = IF signing = {} THEN None ELSE rows[Nth(signing, 1)].id
    BY BuilderListsAre DEF Builder!FirstSigner
  <1> HIDE DEF rows
  <1>3. Len(rows) \in Nat /\ DOMAIN rows = 1..Len(rows) /\ signing \in SUBSET (1..Len(rows))
    BY <1>1
  <1> HIDE DEF signing
  <1>4. /\ IsFiniteSet(signing) /\ Cardinality(signing) \in 0..Len(rows)
        /\ \A k \in 1..Cardinality(signing) : Nth(signing, k) \in signing
    BY ONLY <1>3, NthIs
  <1>5. signing # {} => 1 \in 1..Cardinality(signing)
    <2>1. signing # {} => Cardinality(signing) # 0
      BY ONLY <1>4, FS_EmptySet
    <2> QED
      BY <1>3, <1>4, <2>1
  <1>6. signing # {} => Nth(signing, 1) \in DOMAIN rows
    BY <1>3, <1>4, <1>5
  <1> QED
    BY <1>2, <1>6 DEF rows

LEMMA BuilderAnswers ==
  ASSUME BuilderInv, Builder!Waits,
         \/ Builder!RecipientsSaved \/ Builder!FieldsSaved \/ Builder!MessageSaved \/ Builder!Sent
         \/ \E confirm \in BOOLEAN : Builder!NotSaved(confirm)
  PROVE  BuilderInv'
  <1> USE DEF Builder!history, Builder!server
  <1>0. BuilderTypes /\ CallIsOfStep /\ AllPlaced
    BY DEF BuilderInv
  <1>1. call # None /\ call' = None /\ builderBusy' = FALSE
    BY DEF Builder!RecipientsSaved, Builder!FieldsSaved, Builder!MessageSaved, Builder!Sent,
           Builder!NotSaved, Builder!Answer
  <1>2. CallIsOfStep' /\ builderBusy' = (call' # None)
    BY <1>1 DEF CallIsOfStep
  <1>3. CASE Builder!RecipientsSaved
    <2>1. /\ recipients' = draft.recipients /\ fields' = <<>> /\ builderPast' = <<>>
          /\ builderFuture' = <<>> /\ builderSelected' = None /\ step' = 2
          /\ armedFor' = Builder!FirstSigner
          /\ UNCHANGED <<builderPage, unverified, draft, saves>>
      BY <1>3 DEF Builder!RecipientsSaved
    <2>2. /\ draft.recipients \in Seq(Builder!Rows) /\ Len(draft.recipients) <= MaxRows
          /\ draft.fields \in Seq(Builder!Placings)
      BY <1>0 DEF BuilderTypes
    <2>3. armedFor' \in Owners' \cup {None}
      BY <1>0, <2>1, FirstSignerIs DEF Owners
    <2>4. armedFor' \in Builder!Ids
      <3>1. \A i \in DOMAIN draft.recipients : draft.recipients[i] \in Builder!Rows
        BY <2>2
      <3>2. \A i \in DOMAIN draft.recipients : draft.recipients[i].id \in Builder!Ids
        BY <3>1 DEF Builder!Rows
      <3>3. None \in Builder!Ids
        BY DEF Builder!Ids
      <3> QED
        BY <2>1, <2>3, <3>2, <3>3 DEF Owners
    <2>5. \A P : <<>> \in Short(P) /\ <<>> \in Seq(Short(P)) /\ Len(<<>>) = 0
      BY BuilderConstants DEF Short
    <2>6. BuilderTypes'
      BY <1>0, <1>1, <1>2, <2>1, <2>2, <2>4, <2>5, BuilderConstants DEF BuilderTypes
    <2>7. AllPlaced'
      BY <2>1, <2>3, <2>5 DEF AllPlaced
    <2> QED
      BY <1>2, <2>6, <2>7 DEF BuilderInv
  <1>4. CASE ~Builder!RecipientsSaved
    <2>1. /\ UNCHANGED <<recipients, fields, builderPast, builderFuture, builderSelected,
                        builderPage, armedFor, draft, saves>>
          /\ unverified' \in BOOLEAN
      BY <1>0, <1>4 DEF Builder!FieldsSaved, Builder!MessageSaved, Builder!Sent, Builder!NotSaved,
                        BuilderTypes
    <2>2. /\ step' \in {step, 3, 4, 5} /\ (step' >= 2 => step >= 2)
          /\ step' > 2 => fields = draft.fields
      <3>1. CASE Builder!FieldsSaved
        <4>1. call.kind = "fields" /\ call.st = "ok" /\ step' = 3
          BY <3>1 DEF Builder!FieldsSaved, Builder!Answer
        <4> QED
          BY <1>0, <1>1, <4>1 DEF CallIsOfStep
      <3>2. CASE Builder!MessageSaved
        <4>1. call.kind = "message" /\ step' = 4
          BY <3>2 DEF Builder!MessageSaved, Builder!Answer
        <4> QED
          BY <1>0, <1>1, <4>1 DEF CallIsOfStep, AllPlaced
      <3>3. CASE Builder!Sent
        <4>1. call.kind = "send" /\ step' = 5
          BY <3>3 DEF Builder!Sent, Builder!Answer
        <4> QED
          BY <1>0, <1>1, <4>1 DEF CallIsOfStep, AllPlaced
      <3>4. CASE \E confirm \in BOOLEAN : Builder!NotSaved(confirm)
        BY <1>0, <3>4 DEF Builder!NotSaved, AllPlaced
      <3> QED
        BY <1>4, <3>1, <3>2, <3>3, <3>4
    <2>3. Theirs' = Theirs /\ Owners' = Owners
      BY <2>1 DEF Theirs, Owners
    <2>4. BuilderTypes'
      BY <1>0, <1>1, <1>2, <2>1, <2>2 DEF BuilderTypes
    <2>5. AllPlaced'
      BY <1>0, <2>1, <2>2, <2>3 DEF AllPlaced
    <2> QED
      BY <1>2, <2>4, <2>5 DEF BuilderInv
  <1> QED
    BY <1>3, <1>4

LEMMA BuilderStep == BuilderInv /\ BuilderMoves => BuilderInv'
  BY BuilderFirst, BuilderPlaces, BuilderLooks, BuilderServe, BuilderAnswers
     DEF BuilderMoves, Builder!Next

LEMMA BuilderReviews == BuilderInv => Builder!TypeOK /\ Builder!ReviewedIsSent
  <1> SUFFICES ASSUME BuilderInv PROVE Builder!TypeOK /\ Builder!ReviewedIsSent
    OBVIOUS
  <1>0. BuilderTypes /\ AllPlaced
    BY DEF BuilderInv
  <1>1. Builder!TypeOK
    <2>1. Len(builderPast) \in Nat /\ Len(builderFuture) \in Nat /\ BuilderLimit \in Nat
      BY <1>0, BuilderConstants DEF BuilderTypes
    <2>2. Len(builderPast) <= BuilderLimit + Len(builderFuture) + 1
      BY <1>0, <2>1 DEF BuilderTypes
    <2>3. Len(fields) <= MaxFields /\ draft.status \in {"draft", "sent"}
      BY <1>0 DEF BuilderTypes, Short
    <2> QED
      BY <1>0, <2>2, <2>3 DEF BuilderTypes, Builder!TypeOK
  <1>2. \A s \in Short(Theirs) : Builder!Placed(s)
    <2> SUFFICES ASSUME NEW s \in Short(Theirs) PROVE Builder!Placed(s)
      OBVIOUS
    <2>1. \A i \in DOMAIN s : s[i] \in Theirs
      BY DEF Short
    <2> QED
      BY <2>1 DEF Builder!Placed, Theirs, Owners, Builder!Range
  <1>3. \A h \in Seq(Short(Theirs)) : \A i \in DOMAIN h : h[i] \in Short(Theirs)
    OBVIOUS
  <1>4. step > 2 => step >= 2
    BY <1>0 DEF BuilderTypes
  <1> QED
    BY <1>0, <1>1, <1>2, <1>3, <1>4 DEF AllPlaced, Builder!ReviewedIsSent

LEMMA BuilderStays == BuilderInv /\ UNCHANGED builderVars => BuilderInv'
  BY DEF builderVars, BuilderInv, BuilderTypes, CallIsOfStep, AllPlaced, Theirs, Owners

-----------------------------------------------------------------------------
(* The parts together.                                                      *)

\* Each part in its own state; the others do not move.
PartsInv ==
  /\ part = "session" => SessionInv
  /\ part = "library" => LibraryInv
  /\ part = "panels" => PanelsInv
  /\ part = "letter" => LetterInv
  /\ part = "pad" => PadInv
  /\ part = "builder" => BuilderInv
  /\ part = "sign" => SignInv
  /\ part = "visit" => VisitInv
  /\ part = "tool" => ToolInv

\* A step is of the part a behaviour is of, or changes nothing.
LEMMA PartsMove ==
  ASSUME [Next]_vars
  PROVE  /\ part' = part
         /\ part = "session" => SessionMoves \/ UNCHANGED sessionVars
         /\ part = "library" => LibraryMoves \/ UNCHANGED libraryVars
         /\ part = "panels" => PanelsMoves \/ UNCHANGED panelsVars
         /\ part = "letter" => LetterMoves \/ UNCHANGED letterVars
         /\ part = "pad" => PadMoves \/ UNCHANGED padVars
         /\ part = "builder" => BuilderMoves \/ UNCHANGED builderVars
         /\ part = "sign" => SignMoves \/ UNCHANGED signVars
         /\ part = "visit" => VisitMoves \/ UNCHANGED visitVars
         /\ part = "tool" => Tool!Next \/ UNCHANGED toolVars
  <1>1. CASE UNCHANGED vars
    BY <1>1 DEF vars
  <1>2. CASE Next
    BY <1>2 DEF Next, SessionMoves, LibraryMoves, PanelsMoves, LetterMoves, PadMoves,
                BuilderMoves, SignMoves, VisitMoves
  <1> QED
    BY <1>1, <1>2

LEMMA PartsInit == Init => PartsInv
  BY SessionInit, LibraryInit, PanelsInit, LetterInit, PadInit, BuilderInit, SignInit,
     VisitInit, ToolInit DEF Init, PartsInv

LEMMA PartsStep == PartsInv /\ [Next]_vars => PartsInv'
  <1> SUFFICES ASSUME PartsInv, [Next]_vars PROVE PartsInv'
    OBVIOUS
  <1>0. part' = part
    BY PartsMove
  <1>1. (part = "session" => SessionInv)'
    BY <1>0, PartsMove, SessionStep, SessionStays DEF PartsInv
  <1>2. (part = "library" => LibraryInv)'
    BY <1>0, PartsMove, LibraryStep, LibraryStays DEF PartsInv
  <1>3. (part = "panels" => PanelsInv)'
    BY <1>0, PartsMove, PanelsStep, PanelsStays DEF PartsInv
  <1>4. (part = "letter" => LetterInv)'
    BY <1>0, PartsMove, LetterStep, LetterStays DEF PartsInv
  <1>5. (part = "pad" => PadInv)'
    BY <1>0, PartsMove, PadStep, PadStays DEF PartsInv
  <1>6. (part = "builder" => BuilderInv)'
    BY <1>0, PartsMove, BuilderStep, BuilderStays DEF PartsInv
  <1>7. (part = "sign" => SignInv)'
    BY <1>0, PartsMove, SignStep, SignStays DEF PartsInv
  <1>8. (part = "visit" => VisitInv)'
    BY <1>0, PartsMove, VisitStep, VisitStays DEF PartsInv
  <1>9. (part = "tool" => ToolInv)'
    BY <1>0, PartsMove, ToolStep, ToolStays DEF PartsInv
  <1> QED
    BY <1>1, <1>2, <1>3, <1>4, <1>5, <1>6, <1>7, <1>8, <1>9 DEF PartsInv

LEMMA PartsCorrect == Spec => []PartsInv
  BY PartsInit, PartsStep, PTL DEF Spec

-----------------------------------------------------------------------------
\* The values every part's state can have.
THEOREM TypeCorrect == Spec => []TypeOK
  <1>1. SessionInv => Session!TypeOK
    BY SessionTypesAre DEF SessionInv
  <1>2. PanelsInv => Panels!TypeOK
    BY DEF PanelsInv, PanelTypes
  <1>3. PadInv => Pad!TypeOK
    BY DEF PadInv
  <1>4. SignInv => Sign!TypeOK
    BY DEF SignInv, SignTypes
  <1>5. VisitInv => Visit!TypeOK
    BY DEF VisitInv
  <1>6. PartsInv => TypeOK
    BY <1>1, <1>2, <1>3, <1>4, <1>5, LibraryListsAreTrue, LetterSigns, BuilderReviews,
       ToolTells DEF PartsInv, TypeOK
  <1> QED
    BY <1>6, PartsCorrect, PTL

\* A consent taken back takes the advertiser's script off the page, at the latest with the
\* reload that is on its way; and no update is activated under a visitor who has work open.
THEOREM VisitorKeepsCorrect == Spec => []VisitorKeeps
  <1>1. PartsInv => VisitorKeeps
    BY DEF PartsInv, VisitInv, VisitorKeeps
  <1> QED
    BY <1>1, PartsCorrect, PTL

\* The library shows no document twice and, once it has an answer, none is missing from the
\* windows it has asked for; and what the panels report is of the documents on screen.
THEOREM ListsAreTrueCorrect == Spec => []ListsAreTrue
  <1>1. PartsInv => ListsAreTrue
    BY LibraryListsAreTrue, PanelsListsAreTrue DEF PartsInv, ListsAreTrue
  <1> QED
    BY <1>1, PartsCorrect, PTL

\* What is signed, sent or given to an operation is what was on screen when it was: the values
\* of a ceremony, the draft of a request, the picture of a signature, the placements of a
\* signature, the files and the pages of a tool.
THEOREM SentIsSeenCorrect == Spec => []SentIsSeen
  <1>1. PartsInv => SentIsSeen
    BY LetterSigns, BuilderReviews, PadGives, SignSignsOnce, ToolTells DEF PartsInv, SentIsSeen
  <1> QED
    BY <1>1, PartsCorrect, PTL

\* A guest session that has work in it stays in reach of the tab while it lives, a step that
\* is not an answer to it does not let go of it, and a refresh token is spent once.
THEOREM WorkIsInReachCorrect == Spec => WorkIsInReach
  <1>1. PartsInv => (part = "session" => Session!WorkIsInReach)
    BY SessionReaches DEF PartsInv
  <1>2. PartsInv /\ [Next]_vars => (part = "session" => Session!GuestIsKept /\ Session!SpentOnce)
    BY PartsMove, SessionStep, SessionStays DEF PartsInv
  <1>3. (PartsInv => (part = "session" => Session!WorkIsInReach))'
    BY <1>1, PTL
  <1>4. PartsInv /\ [Next]_vars /\ PartsInv' =>
           [part = "session" => /\ Session!WorkIsInReach'
                                /\ Session!GuestIsKept /\ Session!SpentOnce]_vars
    BY <1>2, <1>3, PartsMove
  <1> QED
    BY <1>4, PartsCorrect, PTL DEF Spec, WorkIsInReach
=============================================================================
