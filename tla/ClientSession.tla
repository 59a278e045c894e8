--------------------------- MODULE ClientSession ----------------------------
(***************************************************************************)
(* The credentials of one browser tab: the interceptor every request goes   *)
(* through, the account's tokens and their renewal, the guest session and   *)
(* its recovery, and the endings of both.  The server is who honours them.  *)
(*                                                                           *)
(* A token is a number, the access token and the refresh token of one       *)
(* answer the same one; 0 is no token.                                      *)
(***************************************************************************)
EXTENDS Integers, Sequences

CONSTANTS Reqs,          \* requests a page has under way at once
          MaxToken,      \* token pairs issued: a bound of the model
          MaxGuest       \* guest sessions minted: a bound of the model

VARIABLES
    issued,    \* token pairs the server has issued
    alive,     \* access tokens it still takes
    usable,    \* refresh tokens it has neither rotated nor blacklisted
    guests,    \* the guest sessions, in the order they were minted
    works,     \* guest sessions something was written into
    jwt,       \* TokenService: the pair in this tab
    guest,     \* GuestTokenService.token
    notice,    \* GuestFacade.expiredNotice
    req,       \* the page's requests
    mint,      \* GuestFacade.minting: the shared mint, and its answer
    renewal,   \* AuthService.refreshInFlight: the shared refresh, and its answer
    login,     \* the login form's request
    goodbye    \* the token a logout has asked the server to blacklist

vars == <<issued, alive, usable, guests, works, jwt, guest, notice, req, mint, renewal,
          login, goodbye>>
server == <<issued, alive, usable, guests, works>>

Assumptions == MaxToken \in Nat \ {0} /\ MaxGuest \in Nat \ {0}

Tokens == 0..MaxToken
Guests == 0..MaxGuest
\* A request carries what the tab held when it was sent; `got` is the session its answer
\* minted; `replay` says what it was sent again with.
Requests == [st : {"idle", "sent", "ok", "failed", "gone", "refused", "minting", "renewing"},
             write : BOOLEAN, access : Tokens, guest : Guests,
             replay : {"no", "guest", "renewed"}, got : Guests]
Idle     == [st |-> "idle", write |-> FALSE, access |-> 0, guest |-> 0, replay |-> "no", got |-> 0]
\* A request of its own: `key` is the credential it is about, `got` what its answer brings.
Flights  == [st : {"no", "sent", "ok", "failed"}, key : 0..MaxToken + MaxGuest, got : 0..MaxToken + MaxGuest]
NoFlight == [st |-> "no", key |-> 0, got |-> 0]
Asking(key) == [st |-> "sent", key |-> key, got |-> 0]

Waiting(stage) == {r \in Reqs : req[r].st = stage}
Honoured(g)    == g # 0 /\ guests[g] = "live"
Principal      == jwt # 0 \/ guest # 0
\* (Whatever is refused is what the tab holds.)
Superseded_Never(r) == FALSE
Superseded(r)  == guest # req[r].guest     \* the verdict is about a token since replaced

-----------------------------------------------------------------------------
(* A page's requests.                                                       *)

\* Exactly one credential goes out; both are remembered.
Send(r, write) ==
    /\ req[r].st = "idle"
    /\ req' = [req EXCEPT ![r] = [Idle EXCEPT !.st = "sent", !.write = write,
                                              !.access = jwt, !.guest = guest]]
    /\ UNCHANGED <<server, jwt, guest, notice, mint, renewal, login, goodbye>>

\* The server answers: 401 to a dead access token, 410 to a session that ended, and a write
\* from nobody mints a session.  Anything may fail otherwise.
Serve(r, ok) ==
    LET q == req[r] IN
    /\ q.st = "sent"
    /\ CASE q.access # 0 ->
              /\ req' = [req EXCEPT ![r].st = IF q.access \notin alive THEN "refused"
                                              ELSE IF ok THEN "ok" ELSE "failed"]
              /\ UNCHANGED <<guests, works>>
         [] q.access = 0 /\ q.guest # 0 ->
              /\ req' = [req EXCEPT ![r].st = IF ~Honoured(q.guest) THEN "gone"
                                              ELSE IF ok THEN "ok" ELSE "failed"]
              /\ works' = IF Honoured(q.guest) /\ ok /\ q.write
                          THEN works \cup {q.guest} ELSE works
              /\ UNCHANGED guests
         [] q.access = 0 /\ q.guest = 0 ->
              IF ok /\ q.write /\ Len(guests) < MaxGuest
              THEN /\ guests' = Append(guests, "live")
                   /\ works' = works \cup {Len(guests) + 1}
                   /\ req' = [req EXCEPT ![r].st = "ok", ![r].got = Len(guests) + 1]
              ELSE /\ req' = [req EXCEPT ![r].st = "failed"]
                   /\ UNCHANGED <<guests, works>>
    /\ UNCHANGED <<issued, alive, usable, jwt, guest, notice, mint, renewal, login, goodbye>>

\* A session minted by the answer is captured.
Succeeds(r) ==
    /\ req[r].st = "ok"
    /\ IF req[r].got # 0 /\ req[r].got # req[r].guest
       THEN guest' = req[r].got /\ notice' = FALSE
       ELSE UNCHANGED <<guest, notice>>
    /\ req' = [req EXCEPT ![r] = Idle]
    /\ UNCHANGED <<server, jwt, mint, renewal, login, goodbye>>

\* What catches a failed renewal catches its replay too.
Fails(r) ==
    /\ req[r].st = "failed" \/ (req[r].st = "refused" /\ req[r].replay = "renewed")
    /\ jwt' = IF req[r].replay = "renewed" THEN 0 ELSE jwt
    /\ notice' = (notice \/ req[r].replay = "guest")
    /\ req' = [req EXCEPT ![r] = Idle]
    /\ UNCHANGED <<server, guest, mint, renewal, login, goodbye>>

\* The guest session is over: onSessionExpired, ensureSession, and the replay.
Recover(r) ==
    LET held == IF Superseded(r) THEN guest ELSE 0
        asks == ~Superseded(r) /\ jwt = 0             \* ensureSession with no principal
    IN
    /\ req[r].st = "gone"
    /\ CASE req[r].replay = "guest" ->
              /\ notice' = TRUE /\ req' = [req EXCEPT ![r] = Idle]
              /\ UNCHANGED <<guest, mint>>
         [] req[r].replay = "no" /\ asks ->
              /\ guest' = 0
              /\ mint' = IF mint.st = "no" THEN Asking(0) ELSE mint
              /\ req' = [req EXCEPT ![r].st = "minting"]
              /\ UNCHANGED notice
         [] req[r].replay = "no" /\ ~asks /\ held # 0 ->
              /\ req' = [req EXCEPT ![r].st = "sent", ![r].guest = held, ![r].replay = "guest"]
              /\ UNCHANGED <<guest, mint, notice>>
         [] req[r].replay = "no" /\ ~asks /\ held = 0 ->
              /\ guest' = 0 /\ notice' = TRUE
              /\ req' = [req EXCEPT ![r] = Idle]
              /\ UNCHANGED mint
    /\ UNCHANGED <<server, jwt, renewal, login, goodbye>>

\* A dead access token: wait for the shared renewal, or end the session.
Renew(r) ==
    /\ req[r].st = "refused" /\ req[r].replay = "no"
    /\ IF jwt # 0
       THEN /\ renewal' = IF renewal.st = "no" THEN Asking(jwt) ELSE renewal
            /\ req' = [req EXCEPT ![r].st = "renewing"]
       ELSE /\ req' = [req EXCEPT ![r] = Idle] /\ UNCHANGED renewal
    /\ UNCHANGED <<server, jwt, guest, notice, mint, login, goodbye>>

-----------------------------------------------------------------------------
(* The shared mint, and the shared renewal.                                 *)

\* A tool page makes sure of a principal before it writes in parallel.
EnsureSession ==
    /\ ~Principal /\ mint.st = "no"
    /\ mint' = Asking(0)
    /\ UNCHANGED <<server, jwt, guest, notice, req, renewal, login, goodbye>>

MintServed(ok) ==
    /\ mint.st = "sent"
    /\ IF ok /\ Len(guests) < MaxGuest
       THEN /\ guests' = Append(guests, "live")
            /\ mint' = [mint EXCEPT !.st = "ok", !.got = Len(guests) + 1]
       ELSE /\ mint' = [mint EXCEPT !.st = "failed"] /\ UNCHANGED guests
    /\ UNCHANGED <<issued, alive, usable, works, jwt, guest, notice, req, renewal, login, goodbye>>

\* Everybody who waited replays with the token there now is, or says the session ended.
MintAnswer ==
    LET token == IF mint.st = "ok" THEN mint.got ELSE guest
        back(r) == token # 0 /\ token # req[r].guest
    IN
    /\ mint.st \in {"ok", "failed"}
    /\ guest' = token
    /\ req' = [r \in Reqs |-> IF r \notin Waiting("minting") THEN req[r]
                              ELSE IF back(r)
                              THEN [req[r] EXCEPT !.st = "sent", !.access = 0, !.guest = token,
                                                  !.replay = "guest"]
                              ELSE Idle]
    /\ notice' = ((notice /\ mint.st # "ok") \/ \E r \in Waiting("minting") : ~back(r))
    /\ mint' = NoFlight
    /\ UNCHANGED <<server, jwt, renewal, login, goodbye>>

\* The viewer fetches the file itself, and renews before it tries again.
RefreshAccess ==
    /\ jwt # 0 /\ renewal.st = "no"
    /\ renewal' = Asking(jwt)
    /\ UNCHANGED <<server, jwt, guest, notice, req, mint, login, goodbye>>

\* The server rotates: the token used is blacklisted.
RenewalServed ==
    /\ renewal.st = "sent"
    /\ IF renewal.key \in usable /\ issued < MaxToken
       THEN /\ issued' = issued + 1
            /\ alive' = alive \cup {issued + 1}
            /\ usable' = (usable \ {renewal.key}) \cup {issued + 1}
            /\ renewal' = [renewal EXCEPT !.st = "ok", !.got = issued + 1]
       ELSE /\ renewal' = [renewal EXCEPT !.st = "failed"]
            /\ UNCHANGED <<issued, alive, usable>>
    /\ UNCHANGED <<guests, works, jwt, guest, notice, req, mint, login, goodbye>>

\* The network loses a renewal on its way, or its answer on the way back.
RenewalLost ==
    /\ renewal.st \in {"sent", "ok"}
    /\ renewal' = [renewal EXCEPT !.st = "failed"]
    /\ UNCHANGED <<server, jwt, guest, notice, req, mint, login, goodbye>>

\* The new pair is stored and everybody replays; or the session ends for them.
RenewalAnswer ==
    /\ renewal.st \in {"ok", "failed"}
    /\ jwt' = CASE renewal.st = "ok" -> renewal.got
                 [] renewal.st = "failed" /\ Waiting("renewing") # {} -> 0
                 [] OTHER -> jwt
    /\ req' = [r \in Reqs |-> IF r \notin Waiting("renewing") THEN req[r]
                              ELSE IF renewal.st = "ok"
                              THEN [req[r] EXCEPT !.st = "sent", !.access = renewal.got,
                                                  !.replay = "renewed"]
                              ELSE Idle]
    /\ renewal' = NoFlight
    /\ UNCHANGED <<server, guest, notice, mint, login, goodbye>>

-----------------------------------------------------------------------------
(* Signing in and out.                                                      *)

\* The login carries the guest token, on purpose.
Login ==
    /\ login.st = "no"
    /\ login' = Asking(guest)
    /\ UNCHANGED <<server, jwt, guest, notice, req, mint, renewal, goodbye>>

\* A session that was carried is claimed with everything in it.
LoginServed(ok) ==
    /\ login.st = "sent"
    /\ IF ok /\ issued < MaxToken
       THEN /\ issued' = issued + 1
            /\ alive' = alive \cup {issued + 1}
            /\ usable' = usable \cup {issued + 1}
            /\ guests' = IF Honoured(login.key) THEN [guests EXCEPT ![login.key] = "claimed"]
                         ELSE guests
            /\ login' = [login EXCEPT !.st = "ok", !.got = issued + 1]
       ELSE /\ login' = [login EXCEPT !.st = "failed"]
            /\ UNCHANGED <<issued, alive, usable, guests>>
    /\ UNCHANGED <<works, jwt, guest, notice, req, mint, renewal, goodbye>>

\* discardAfterClaim: whatever guest token there is goes.
OnClaimed == guest' = 0 /\ notice' = FALSE

LoginAnswer ==
    /\ login.st \in {"ok", "failed"}
    /\ IF login.st = "ok"
       THEN jwt' = login.got /\ OnClaimed
       ELSE UNCHANGED <<jwt, guest, notice>>
    /\ login' = NoFlight
    /\ UNCHANGED <<server, req, mint, renewal, goodbye>>

\* The tab forgets its pair.
ClearSession == jwt' = 0

\* The server is asked to blacklist; nobody waits for it.
Logout ==
    /\ jwt # 0 /\ goodbye = 0
    /\ goodbye' = jwt
    /\ ClearSession
    /\ UNCHANGED <<server, guest, notice, req, mint, renewal, login>>

LogoutServed(heard) ==
    /\ goodbye # 0
    /\ usable' = IF heard THEN usable \ {goodbye} ELSE usable
    /\ goodbye' = 0
    /\ UNCHANGED <<issued, alive, guests, works, jwt, guest, notice, req, mint, renewal, login>>

DismissNotice ==
    /\ notice /\ notice' = FALSE
    /\ UNCHANGED <<server, jwt, guest, req, mint, renewal, login, goodbye>>

\* Time passes on the server.
AccessExpires ==
    /\ alive # {} /\ alive' = {}
    /\ UNCHANGED <<issued, usable, guests, works, jwt, guest, notice, req, mint, renewal, login, goodbye>>

GuestExpires(g) ==
    /\ guests[g] = "live"
    /\ guests' = [guests EXCEPT ![g] = "over"]
    /\ UNCHANGED <<issued, alive, usable, works, jwt, guest, notice, req, mint, renewal, login, goodbye>>

-----------------------------------------------------------------------------
Init ==
    /\ issued = 0 /\ alive = {} /\ usable = {} /\ guests = <<>> /\ works = {}
    /\ jwt = 0 /\ guest = 0 /\ notice = FALSE
    /\ req = [r \in Reqs |-> Idle]
    /\ mint = NoFlight /\ renewal = NoFlight /\ login = NoFlight /\ goodbye = 0

Next ==
    \/ \E r \in Reqs, yes \in BOOLEAN : Send(r, yes) \/ Serve(r, yes)
    \/ \E r \in Reqs : Succeeds(r) \/ Fails(r) \/ Recover(r) \/ Renew(r)
    \/ \E yes \in BOOLEAN : MintServed(yes) \/ LoginServed(yes) \/ LogoutServed(yes)
    \/ EnsureSession \/ MintAnswer
    \/ RefreshAccess \/ RenewalServed \/ RenewalLost \/ RenewalAnswer
    \/ Login \/ LoginAnswer \/ Logout
    \/ DismissNotice \/ AccessExpires
    \/ \E g \in 1..Len(guests) : GuestExpires(g)

Spec == Init /\ [][Next]_vars

\* How a person and the pages take turns when nothing overlaps a change of principal:
\* nobody signs in or out while anything is in flight, and a page that writes with no
\* principal waits for the mint first.
Quiet == /\ Waiting("idle") = Reqs
         /\ \A f \in {mint, renewal, login} : f.st = "no"
         /\ goodbye = 0
InTurn == /\ (login.st = "no" /\ login'.st # "no") => Quiet
          /\ (goodbye = 0 /\ goodbye' # 0) => Quiet
          /\ login.st # "no" => req' = req /\ mint' = mint
          /\ (mint.st # "no" \/ ~Principal) =>
                \A r \in Reqs : req[r].st = "idle" => req'[r].st = "idle"
          /\ renewal.st = "ok" /\ renewal'.st = "failed" => Waiting("renewing") # {}

-----------------------------------------------------------------------------
TypeOK ==
    /\ issued \in Tokens /\ alive \subseteq 1..issued /\ usable \subseteq 1..issued
    /\ guests \in Seq({"live", "over", "claimed"}) /\ Len(guests) <= MaxGuest
    /\ works \subseteq 1..Len(guests)
    /\ jwt \in 0..issued /\ guest \in 0..Len(guests) /\ notice \in BOOLEAN
    /\ req \in [Reqs -> Requests]
    /\ mint \in Flights /\ renewal \in Flights /\ login \in Flights
    /\ goodbye \in Tokens

(* A verdict about a credential that has been replaced never costs the new  *)
(* one: the tab lets a guest token go only after the server ended or        *)
(* claimed its session.  (GuestFacade.onSessionExpired, deadToken.)         *)
GuestIsKept == guest # 0 /\ guest' # guest => guests[guest] # "live"
LiveGuestIsKept == [][GuestIsKept]_vars

(* However many requests come back `guest_expired` at once, the work they   *)
(* redo lands in one session: of the sessions still alive, only the one the *)
(* tab holds, or is being told of, has anything in it.                      *)
(* (GuestFacade.ensureSession: "stranding whatever the earlier ones had     *)
(* already written".)                                                       *)
WorkIsInReach ==
    \A g \in works : guests[g] = "live" =>
        g = guest \/ mint.got = g \/ \E r \in Reqs : req[r].st # "idle" /\ req[r].got = g

(* The tab never spends a refresh token twice: what it sends is one the     *)
(* server has not blacklisted.  (AuthService.refreshOnce: "the backend      *)
(* rotates and blacklists the refresh token, so a second parallel call      *)
(* fails".)                                                                 *)
SpentOnce == renewal.st = "no" /\ renewal'.st = "sent" => renewal'.key \in usable
SpendsOnce == [][SpentOnce]_vars
=============================================================================
