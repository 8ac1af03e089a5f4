---------------------------- MODULE SessionTokens ----------------------------
(***************************************************************************)
(* Dashboard sessions of one organization: refresh tokens in the database, *)
(* rotated at each use (auth_service.py), the cookies that carry them      *)
(* (api/auth.py) and the client that holds the cookies, the dashboard's    *)
(* useAuth or another client of the same endpoints.                        *)
(*                                                                         *)
(* A token is its number in order of creation; a login is the number of    *)
(* its first token.  Lifetimes end when they like.  The access token is    *)
(* left out: nothing revokes it.                                           *)
(***************************************************************************)
EXTENDS Naturals, FiniteSets

CONSTANTS
  Browsers,
  Requests,         \* requests in flight
  MaxTokens,        \* bound: tokens ever created
  Refreshes,        \* the client calls /auth/refresh; the dashboard does not
  IgnoresPath,      \* the client sends the refresh cookie to every path
  None

ASSUME ConstantsOK ==
  /\ MaxTokens \in Nat \ {0}
  /\ Refreshes \in BOOLEAN /\ IgnoresPath \in BOOLEAN
  /\ None \notin 1 .. MaxTokens /\ None \notin Requests

Tokens == 1 .. MaxTokens

VARIABLES
  row,      \* row[t]: "none" yet, "live", "revoked" (revoked_at is set), "gone"
  expired,  \* tokens past expires_at
  login,    \* login[t]: the login t descends from
  lock,     \* lock[t]: request that holds the row lock of t, or None
  req,      \* req[r]: the request r carries
  jar,      \* jar[b]: refresh cookie of browser b, or None
  hurt      \* logins a failure struck between rotation and cookie (history)

rows == <<row, login, lock>>
vars == <<rows, expired, req, jar, hurt>>

PCs == {"idle", "refresh", "checked", "rotated", "granted", "denied",
        "logout", "found", "cleared", "failed"}

ReqState ==
  [pc : PCs, by : Browsers \cup {None}, token : Tokens \cup {None}, new : Tokens \cup {None}]
IdleReq == [pc |-> "idle", by |-> None, token |-> None, new |-> None]

(* The type of every variable; a granted request carries its new token. *)
TypeOK ==
  /\ row \in [Tokens -> {"none", "live", "revoked", "gone"}]
  /\ expired \subseteq Tokens
  /\ login \in [Tokens -> Tokens]
  /\ lock \in [Tokens -> Requests \cup {None}]
  /\ req \in [Requests -> ReqState]
  /\ jar \in [Browsers -> Tokens \cup {None}]
  /\ hurt \subseteq Tokens
  /\ \A r \in Requests : req[r].pc = "granted" <=> req[r].new # None

Init ==
  /\ row = [t \in Tokens |-> "none"] /\ expired = {}
  /\ login = [t \in Tokens |-> t]
  /\ lock = [t \in Tokens |-> None]
  /\ req = [r \in Requests |-> IdleReq]
  /\ jar = [b \in Browsers |-> None]
  /\ hurt = {}

Live(t) == row[t] = "live"
Goto(r, p) == req' = [req EXCEPT ![r].pc = p]
At(r, p) == req[r].pc = p

(* A token not used before. *)
Fresh(t) == row[t] = "none" /\ \A u \in Tokens : row[u] = "none" => t <= u

(* Bound: past MaxTokens no one logs in, and to create a token fails. *)
TokenLeft == \E t \in Tokens : row[t] = "none"

-------------------------------------------------------------------------------
(* login_dashboard *)

(* The token is committed, the cookies are set; or the answer is lost. *)
Login(b) ==
  /\ TokenLeft
  /\ \E t \in Tokens :
       /\ Fresh(t)
       /\ row' = [row EXCEPT ![t] = "live"]
       /\ jar' = [jar EXCEPT ![b] = t] \/ UNCHANGED jar
  /\ UNCHANGED <<login, lock, expired, req, hurt>>

-------------------------------------------------------------------------------
(* refresh, rotate_refresh_token *)

Refresh(b, r) ==
  /\ Refreshes /\ jar[b] # None /\ At(r, "idle")
  /\ req' = [req EXCEPT ![r] = [pc |-> "refresh", by |-> b, token |-> jar[b], new |-> None]]
  /\ UNCHANGED <<rows, expired, jar, hurt>>

(* Mutant of Check: the row is read without FOR UPDATE. *)
CheckUnlocked(r) ==
  /\ At(r, "refresh")
  /\ LET t == req[r].token
     IN IF Live(t) /\ t \notin expired THEN Goto(r, "checked") ELSE Goto(r, "denied")
  /\ UNCHANGED <<rows, expired, jar, hurt>>

(* Mutant of Check: revoked_at is not looked at. *)
CheckRevokedToo(r) ==
  /\ At(r, "refresh")
  /\ LET t == req[r].token
     IN /\ lock[t] = None
        /\ IF row[t] # "gone" /\ t \notin expired
             THEN Goto(r, "checked") /\ lock' = [lock EXCEPT ![t] = r]
             ELSE Goto(r, "denied") /\ UNCHANGED lock
  /\ UNCHANGED <<row, login, expired, jar, hurt>>

(* Mutant of Check: the transaction of a refused request stays open. *)
CheckLeavesOpen(r) ==
  /\ At(r, "refresh")
  /\ LET t == req[r].token
     IN /\ lock[t] = None
        /\ lock' = [lock EXCEPT ![t] = r]
        /\ IF Live(t) /\ t \notin expired THEN Goto(r, "checked") ELSE Goto(r, "denied")
  /\ UNCHANGED <<row, login, expired, jar, hurt>>

(* SELECT ... FOR UPDATE waits for the row, and is followed by the checks. *)
Check(r) ==
  /\ At(r, "refresh")
  /\ LET t == req[r].token
     IN /\ lock[t] = None
        /\ IF Live(t) /\ t \notin expired
             THEN Goto(r, "checked") /\ lock' = [lock EXCEPT ![t] = r]
             ELSE Goto(r, "denied") /\ UNCHANGED lock
  /\ UNCHANGED <<row, login, expired, jar, hurt>>

Unlocked(r) == [t \in Tokens |-> IF lock[t] = r THEN None ELSE lock[t]]

(* Mutant of Dead: the sessions of other browsers are cleaned up too. *)
DeadOrOther(t) == row[t] # "none"

(* What the opportunistic cleanup deletes. *)
Dead(t) == row[t] = "revoked" \/ (row[t] # "none" /\ t \in expired)

(* The dead rows whose lock the DELETE of r waits for. *)
Awaited(r) == {t \in Tokens : Dead(t) /\ lock[t] \notin {None, r}}

(* The token is revoked and the organization's other dead ones are deleted, in *)
(* one transaction.                                                            *)
Revoke(r) ==
  /\ At(r, "checked") /\ Awaited(r) = {}
  /\ row' = [t \in Tokens |-> IF t = req[r].token THEN "revoked"
                              ELSE IF Dead(t) THEN "gone" ELSE row[t]]
  /\ lock' = Unlocked(r)
  /\ Goto(r, "rotated")
  /\ UNCHANGED <<login, expired, jar, hurt>>

(* Two rotations whose tokens expired meanwhile wait for each other: the        *)
(* database aborts one, which is answered with an error.  (Two cleanups that    *)
(* wait for each other's deleted rows end in the same way; Revoke takes a       *)
(* cleanup as one step, Fail has that outcome.)                                 *)
Abort(r) ==
  /\ At(r, "checked")
  /\ \E t \in Awaited(r) : req[r].token \in Awaited(lock[t])
  /\ lock' = Unlocked(r)
  /\ Goto(r, "denied")
  /\ UNCHANGED <<row, login, expired, jar, hurt>>

(* create_refresh_token, in a second transaction. *)
Create(r) ==
  /\ At(r, "rotated")
  /\ \E t \in Tokens :
       /\ Fresh(t)
       /\ row' = [row EXCEPT ![t] = "live"]
       /\ login' = [login EXCEPT ![t] = login[req[r].token]]
       /\ req' = [req EXCEPT ![r].pc = "granted", ![r].new = t]
  /\ UNCHANGED <<lock, expired, jar, hurt>>

Refreshed(r) ==
  /\ At(r, "granted")
  /\ jar' = [jar EXCEPT ![req[r].by] = IF req[r].new \in expired THEN None ELSE req[r].new]
  /\ req' = [req EXCEPT ![r] = IdleReq]
  /\ UNCHANGED <<rows, expired, hurt>>

Denied(r) ==
  /\ At(r, "denied")
  /\ req' = [req EXCEPT ![r] = IdleReq]
  /\ UNCHANGED <<rows, expired, jar, hurt>>

(* The request is cancelled, the process dies, the second transaction fails or *)
(* the answer is lost: open transactions are rolled back, committed ones stay. *)
Fail(r) ==
  /\ req[r].pc \in {"refresh", "checked", "rotated", "granted"}
  /\ hurt' = IF req[r].pc \in {"rotated", "granted"}
               THEN hurt \cup {login[req[r].token]} ELSE hurt
  /\ lock' = Unlocked(r)
  /\ req' = [req EXCEPT ![r] = IdleReq]
  /\ UNCHANGED <<row, login, expired, jar>>

-------------------------------------------------------------------------------
(* logout, revoke_refresh_token *)

(* The refresh cookie has the path /auth/refresh: a browser does not send it.  *)
Logout(b, r) ==
  /\ jar[b] # None /\ At(r, "idle")
  /\ req' = [req EXCEPT ![r] = [pc |-> "logout", by |-> b,
                                token |-> IF IgnoresPath THEN jar[b] ELSE None, new |-> None]]
  /\ UNCHANGED <<rows, expired, jar, hurt>>

(* The row is read without a lock; an unknown or revoked token is left alone.  *)
Find(r) ==
  /\ At(r, "logout")
  /\ IF req[r].token # None /\ Live(req[r].token)
       THEN Goto(r, "found") ELSE Goto(r, "cleared")
  /\ UNCHANGED <<rows, expired, jar, hurt>>

(* The UPDATE waits for the row; one that a cleanup deleted is an error. *)
RevokeFound(r) ==
  /\ At(r, "found") /\ lock[req[r].token] = None
  /\ IF row[req[r].token] = "gone"
       THEN Goto(r, "failed") /\ UNCHANGED row
       ELSE Goto(r, "cleared") /\ row' = [row EXCEPT ![req[r].token] = "revoked"]
  /\ UNCHANGED <<login, lock, expired, jar, hurt>>

(* The login whose refresh cookie b holds. *)
LoginOf(b) == IF jar[b] = None THEN {} ELSE {login[jar[b]]}

(* The cookies are deleted. *)
LoggedOut(r) ==
  /\ At(r, "cleared")
  /\ jar' = [jar EXCEPT ![req[r].by] = None]
  /\ req' = [req EXCEPT ![r] = IdleReq]
  /\ UNCHANGED <<rows, expired, hurt>>

(* The request failed or its answer is lost: useAuth ignores it and the cookies *)
(* stay.                                                                       *)
LogoutFails(r) ==
  /\ req[r].pc \in {"logout", "found", "cleared", "failed"}
  /\ hurt' = hurt \cup LoginOf(req[r].by)
  /\ req' = [req EXCEPT ![r] = IdleReq]
  /\ UNCHANGED <<rows, expired, jar>>

-------------------------------------------------------------------------------
(* Token and cookie have the same lifetime. *)
RefreshExpires(t) ==
  /\ row[t] # "none" /\ t \notin expired
  /\ expired' = expired \cup {t}
  /\ jar' = [b \in Browsers |-> IF jar[b] = t THEN None ELSE jar[b]]
  /\ UNCHANGED <<rows, req, hurt>>

Serve(r) ==
  \/ Check(r) \/ Revoke(r) \/ Abort(r) \/ Create(r) \/ Refreshed(r) \/ Denied(r)
  \/ Find(r) \/ RevokeFound(r) \/ LoggedOut(r) \/ (At(r, "failed") /\ LogoutFails(r))
  \/ (At(r, "rotated") /\ ~ TokenLeft /\ Fail(r))

Next ==
  \/ \E r \in Requests : Serve(r) \/ Fail(r) \/ LogoutFails(r)
  \/ \E b \in Browsers : Login(b)
  \/ \E b \in Browsers, r \in Requests : Refresh(b, r) \/ Logout(b, r)
  \/ \E t \in Tokens : RefreshExpires(t)

(* Statements and commits end, a lock is granted to a waiter in its turn, and a *)
(* failure is never counted on.                                                *)
Fairness == \A r \in Requests : SF_vars(Serve(r))

Spec == Init /\ [][Next]_vars /\ Fairness

-------------------------------------------------------------------------------
(* Properties *)

(* A refresh token is good for one rotation, however many requests present it  *)
(* at once: at most one token of a login is alive (rotate_refresh_token).      *)
OneLivePerLogin ==
  \A t, u \in Tokens : Live(t) /\ Live(u) /\ login[t] = login[u] => t = u

Rotating(t) ==
  \E r \in Requests : req[r].token = t /\
    req[r].pc \in {"rotated", "granted", "cleared"}

(* No one is signed out by what others do: the token in a browser's cookie is  *)
(* alive, or its replacement or revocation is on its way, unless a failure     *)
(* struck this login between the two transactions or on the way back.          *)
CookieAlive ==
  \A b \in Browsers :
    jar[b] = None \/ Live(jar[b]) \/ Rotating(jar[b]) \/ login[jar[b]] \in hurt

(* Logins that were and are over: no token alive, no rotation between its two  *)
(* transactions.                                                               *)
Over ==
  {l \in Tokens : /\ \E t \in Tokens : row[t] # "none" /\ login[t] = l
                  /\ \A t \in Tokens : Live(t) => login[t] # l
                  /\ \A r \in Requests : At(r, "rotated") => login[req[r].token] # l}

(* A session that has ended stays ended: whatever requests still carry one of  *)
(* its tokens, and whatever they were told of it before, none of them brings a *)
(* token of it back to life (rotate_refresh_token, logout).                    *)
OverStaysOver == [][Over \subseteq Over']_vars

(* Every refresh and every logout comes to an end: no row lock is left behind *)
(* and rotations that wait for each other are broken up.                      *)
Answered == \A r \in Requests : At(r, "refresh") \/ At(r, "logout") ~> At(r, "idle")

(* What logout says of itself: it revokes the refresh token.  When a logout is *)
(* confirmed, no token of the login that the browser held is alive.            *)
LogoutRevokes ==
  [][\A r \in Requests :
       LoggedOut(r) => \A t \in Tokens : login[t] \in LoginOf(req[r].by) => ~ Live(t)]_vars
===============================================================================
