-------------------------- MODULE SessionTokensProofs --------------------------
(***************************************************************************)
(* Proofs about SessionTokens, for any number of browsers, of requests in  *)
(* flight and of tokens, and for every client.                             *)
(***************************************************************************)
EXTENDS SessionTokens, TLAPS

Used(t) == row[t] # "none"

(* What cookies and requests carry was issued; a token not issued yet is a login *)
(* of its own, without descendants.                                            *)
IssueInv ==
  /\ \A t \in Tokens : ~ Used(t) => login[t] = t /\ t \notin expired
  /\ \A t \in Tokens : Used(t) => Used(login[t])
  /\ \A b \in Browsers : jar[b] # None => Used(jar[b])
  /\ \A r \in Requests : /\ req[r].token # None => Used(req[r].token)
                         /\ req[r].new # None => Used(req[r].new)

(* A request has a sender and, past the checks that need one, a token. *)
CarryInv ==
  \A r \in Requests :
    /\ req[r].pc # "idle" => req[r].by \in Browsers
    /\ req[r].pc \in {"refresh", "checked", "rotated", "granted", "found"} =>
         req[r].token # None

(* A rotation that passed its checks holds its row, which stays alive. *)
LockInv ==
  \A r \in Requests : At(r, "checked") => lock[req[r].token] = r /\ Live(req[r].token)

(* The one token alive of a login, or the one rotation that will create it. *)
RotateInv ==
  /\ OneLivePerLogin
  /\ \A r \in Requests, t \in Tokens :
       At(r, "rotated") /\ Live(t) => login[t] # login[req[r].token]
  /\ \A r, q \in Requests :
       At(r, "rotated") /\ At(q, "rotated") /\ login[req[r].token] = login[req[q].token]
         => r = q

(* A cookie belongs to one browser, which alone sent the requests with it. *)
OwnInv ==
  /\ \A b, c \in Browsers : jar[b] # None /\ jar[b] = jar[c] => b = c
  /\ \A b \in Browsers : jar[b] # None => jar[b] \notin expired
  /\ \A b \in Browsers, r \in Requests :
       jar[b] # None /\ req[r].token = jar[b] => req[r].by = b

(* A new token on its way back is known to no one else. *)
GrantInv ==
  \A r \in Requests : At(r, "granted") =>
    /\ Live(req[r].new) \/ req[r].new \in expired
    /\ \A b \in Browsers : jar[b] # req[r].new
    /\ \A q \in Requests : req[q].token # req[r].new /\ (q # r => req[q].new # req[r].new)

SessionInv ==
  TypeOK /\ IssueInv /\ CarryInv /\ LockInv /\ RotateInv /\ OwnInv /\ GrantInv /\ CookieAlive

LEMMA Nones == None \notin Tokens /\ None \notin Requests
  BY ConstantsOK DEF Tokens

(* What is known of one request, one token, one browser. *)
LEMMA OfRequest ==
  ASSUME TypeOK, NEW r \in Requests
  PROVE  /\ req[r] \in ReqState /\ req[r].pc \in PCs /\ req[r].by \in Browsers \cup {None}
         /\ req[r].token \in Tokens \cup {None} /\ req[r].new \in Tokens \cup {None}
         /\ req[r].pc = "granted" <=> req[r].new # None
<1>1. req[r] \in ReqState
  BY DEF TypeOK
<1> QED
  BY <1>1 DEF TypeOK, ReqState

LEMMA InitSession == Init => SessionInv
<1> SUFFICES ASSUME Init PROVE SessionInv
  OBVIOUS
<1>1. IdleReq \in ReqState /\ IdleReq.pc = "idle" /\ IdleReq.token = None /\ IdleReq.new = None
  BY DEF IdleReq, ReqState, PCs
<1>2. TypeOK
  BY <1>1 DEF Init, TypeOK
<1> QED
  BY <1>1, <1>2 DEF Init, SessionInv, IssueInv, CarryInv, LockInv, RotateInv, OneLivePerLogin,
     OwnInv, GrantInv, CookieAlive, At, Live, Used

-------------------------------------------------------------------------------
(* Steps that change the course of one request and no token or cookie. *)

LEMMA CourseKeeps ==
  ASSUME SessionInv, NEW r \in Requests, NEW v \in ReqState, req' = [req EXCEPT ![r] = v],
         UNCHANGED <<row, login, expired, jar>>,
         v.pc \notin {"rotated", "granted"}, v.new = None,
         v.token \in {None, req[r].token}, v.token # None => v.by = req[r].by,
         v.pc # "idle" => v.by \in Browsers,
         v.pc \in {"refresh", "checked", "found"} => v.token # None,
         v.pc = "checked" => lock'[v.token] = r /\ Live(v.token),
         lock' \in [Tokens -> Requests \cup {None}],
         \A t \in Tokens : lock[t] \notin {r, None} => lock'[t] = lock[t],
         hurt \subseteq hurt', hurt' \subseteq Tokens,
         \A b \in Browsers :
           jar[b] # None /\ jar[b] = req[r].token /\ req[r].pc \in {"rotated", "granted", "cleared"}
             => login[jar[b]] \in hurt'
  PROVE  SessionInv'
<1> USE Nones
<1>1. /\ req' \in [Requests -> ReqState] /\ req'[r] = v
      /\ \A q \in Requests : q # r => req'[q] = req[q]
  BY DEF SessionInv, TypeOK
<1>2. TypeOK'
  BY <1>1 DEF SessionInv, TypeOK
<1>3. IssueInv'
  BY <1>1, OfRequest DEF SessionInv, IssueInv, Used
<1>4. CarryInv'
  BY <1>1 DEF SessionInv, CarryInv
<1>5. LockInv'
  <2> SUFFICES ASSUME NEW q \in Requests, At(q, "checked")'
               PROVE  (lock[req[q].token] = q /\ Live(req[q].token))'
    BY DEF LockInv
  <2>1. CASE q = r
    BY <1>1, <2>1 DEF At, Live
  <2>2. CASE q # r
    BY <1>1, <2>2, OfRequest DEF At, Live, SessionInv, LockInv, CarryInv
  <2> QED
    BY <2>1, <2>2
<1>6. RotateInv'
  BY <1>1 DEF SessionInv, RotateInv, OneLivePerLogin, At, Live
<1>7. OwnInv'
  BY <1>1 DEF SessionInv, OwnInv
<1>8. GrantInv'
  BY <1>1, OfRequest DEF SessionInv, GrantInv, At, Live
<1>9. CookieAlive'
  <2> SUFFICES ASSUME NEW b \in Browsers, jar[b] # None, ~ Live(jar[b]), login[jar[b]] \notin hurt'
               PROVE  Rotating(jar[b])'
    BY DEF CookieAlive, Live
  <2>1. PICK q \in Requests : req[q].token = jar[b] /\ req[q].pc \in {"rotated", "granted", "cleared"}
    BY DEF SessionInv, CookieAlive, Rotating
  <2> QED
    BY <1>1, <2>1 DEF Rotating
<1> QED
  BY <1>2, <1>3, <1>4, <1>5, <1>6, <1>7, <1>8, <1>9 DEF SessionInv

(* Goto and the end of a request, as values of the request. *)
LEMMA Moved ==
  ASSUME TypeOK, NEW r \in Requests, NEW p \in PCs, Goto(r, p)
  PROVE  \E v \in ReqState : /\ req' = [req EXCEPT ![r] = v]
                             /\ v.pc = p /\ v.by = req[r].by /\ v.token = req[r].token
                             /\ v.new = req[r].new
<1>1. [req[r] EXCEPT !.pc = p] \in ReqState
  BY OfRequest DEF ReqState
<1>2. /\ [req[r] EXCEPT !.pc = p].pc = p /\ [req[r] EXCEPT !.pc = p].by = req[r].by
      /\ [req[r] EXCEPT !.pc = p].token = req[r].token /\ [req[r] EXCEPT !.pc = p].new = req[r].new
  BY OfRequest DEF ReqState
<1>3. req' = [req EXCEPT ![r] = [req[r] EXCEPT !.pc = p]]
  BY DEF Goto, TypeOK
<1> QED
  BY <1>1, <1>2, <1>3

LEMMA Idle ==
  IdleReq \in ReqState /\ IdleReq.pc = "idle" /\ IdleReq.token = None /\ IdleReq.new = None
  BY DEF IdleReq, ReqState, PCs

LEMMA UnlockedOthers ==
  ASSUME TypeOK, NEW r \in Requests
  PROVE  /\ Unlocked(r) \in [Tokens -> Requests \cup {None}]
         /\ \A t \in Tokens : lock[t] # r => Unlocked(r)[t] = lock[t]
  BY DEF Unlocked, TypeOK

LEMMA CheckKeeps == ASSUME SessionInv, NEW r \in Requests, Check(r) PROVE SessionInv'
<1> USE Nones
<1> DEFINE t == req[r].token
<1>1. At(r, "refresh") /\ t \in Tokens /\ lock[t] = None /\ req[r].new = None
  BY OfRequest DEF Check, At, SessionInv, CarryInv
<1>2. TypeOK
  BY DEF SessionInv
<1>3. CASE Live(t) /\ t \notin expired
  <2>1. Goto(r, "checked") /\ lock' = [lock EXCEPT ![t] = r]
    BY <1>3 DEF Check
  <2>2. PICK v \in ReqState : /\ req' = [req EXCEPT ![r] = v]
                              /\ v.pc = "checked" /\ v.by = req[r].by /\ v.token = t
                              /\ v.new = None
    BY <1>1, <1>2, <2>1, Moved DEF PCs
  <2>3. /\ lock' \in [Tokens -> Requests \cup {None}] /\ lock'[t] = r
        /\ \A u \in Tokens : lock[u] \notin {r, None} => lock'[u] = lock[u]
    BY <1>1, <1>2, <2>1 DEF TypeOK
  <2>4. UNCHANGED <<row, login, expired, jar, hurt>> /\ hurt \subseteq Tokens
    BY <1>2 DEF Check, TypeOK
  <2>5. v.by \in Browsers
    BY <1>1, <2>2 DEF SessionInv, CarryInv, At
  <2> QED
    BY <1>1, <1>3, <2>2, <2>3, <2>4, <2>5, CourseKeeps DEF At
<1>4. CASE ~ (Live(t) /\ t \notin expired)
  <2>1. Goto(r, "denied") /\ lock' = lock
    BY <1>4 DEF Check
  <2>2. PICK v \in ReqState : /\ req' = [req EXCEPT ![r] = v]
                              /\ v.pc = "denied" /\ v.by = req[r].by /\ v.token = t
                              /\ v.new = None
    BY <1>1, <1>2, <2>1, Moved DEF PCs
  <2>3. lock' \in [Tokens -> Requests \cup {None}]
    BY <1>2, <2>1 DEF TypeOK
  <2>4. UNCHANGED <<row, login, expired, jar, hurt>> /\ hurt \subseteq Tokens
    BY <1>2 DEF Check, TypeOK
  <2>5. v.by \in Browsers
    BY <1>1, <2>2 DEF SessionInv, CarryInv, At
  <2> QED
    BY <1>1, <2>1, <2>2, <2>3, <2>4, <2>5, CourseKeeps DEF At
<1> QED
  BY <1>3, <1>4

LEMMA AbortKeeps == ASSUME SessionInv, NEW r \in Requests, Abort(r) PROVE SessionInv'
<1> USE Nones
<1>1. /\ At(r, "checked") /\ req[r].new = None /\ TypeOK
      /\ Goto(r, "denied") /\ lock' = Unlocked(r)
      /\ UNCHANGED <<row, login, expired, jar, hurt>> /\ hurt \subseteq Tokens
  BY OfRequest DEF Abort, At, SessionInv, TypeOK
<1>2. PICK v \in ReqState : /\ req' = [req EXCEPT ![r] = v]
                            /\ v.pc = "denied" /\ v.by = req[r].by /\ v.token = req[r].token
                            /\ v.new = None
  BY <1>1, Moved DEF PCs
<1>3. v.by \in Browsers
  BY <1>1, <1>2 DEF SessionInv, CarryInv, At
<1>4. /\ lock' \in [Tokens -> Requests \cup {None}]
      /\ \A t \in Tokens : lock[t] \notin {r, None} => lock'[t] = lock[t]
  BY <1>1, UnlockedOthers
<1> QED
  BY <1>1, <1>2, <1>3, <1>4, CourseKeeps DEF At

LEMMA DeniedKeeps == ASSUME SessionInv, NEW r \in Requests, Denied(r) PROVE SessionInv'
<1>1. /\ At(r, "denied") /\ req' = [req EXCEPT ![r] = IdleReq]
      /\ UNCHANGED <<row, login, lock, expired, jar, hurt>> /\ hurt \subseteq Tokens
      /\ lock \in [Tokens -> Requests \cup {None}]
  BY DEF Denied, rows, SessionInv, TypeOK
<1> QED
  BY <1>1, Idle, CourseKeeps DEF At

LEMMA FailKeeps == ASSUME SessionInv, NEW r \in Requests, Fail(r) PROVE SessionInv'
<1> USE Nones
<1>1. /\ req[r].pc \in {"refresh", "checked", "rotated", "granted"} /\ TypeOK
      /\ req' = [req EXCEPT ![r] = IdleReq] /\ lock' = Unlocked(r)
      /\ UNCHANGED <<row, login, expired, jar>>
  BY DEF Fail, SessionInv
<1>2. req[r].token \in Tokens
  BY <1>1, OfRequest DEF SessionInv, CarryInv
<1>3. hurt \subseteq hurt' /\ hurt' \subseteq Tokens
  BY <1>1, <1>2 DEF Fail, TypeOK
<1>4. req[r].pc \in {"rotated", "granted", "cleared"} => login[req[r].token] \in hurt'
  BY <1>1 DEF Fail
<1>5. /\ lock' \in [Tokens -> Requests \cup {None}]
      /\ \A t \in Tokens : lock[t] \notin {r, None} => lock'[t] = lock[t]
  BY <1>1, UnlockedOthers
<1> QED
  BY <1>1, <1>3, <1>4, <1>5, Idle, CourseKeeps

LEMMA FindKeeps == ASSUME SessionInv, NEW r \in Requests, Find(r) PROVE SessionInv'
<1> USE Nones
<1>1. /\ At(r, "logout") /\ req[r].new = None /\ TypeOK
      /\ UNCHANGED <<row, login, lock, expired, jar, hurt>> /\ hurt \subseteq Tokens
      /\ lock \in [Tokens -> Requests \cup {None}]
  BY OfRequest DEF Find, At, SessionInv, rows, TypeOK
<1>2. PICK p \in {"found", "cleared"} : Goto(r, p) /\ (p = "found" => req[r].token # None)
  BY DEF Find
<1>3. PICK v \in ReqState : /\ req' = [req EXCEPT ![r] = v]
                            /\ v.pc = p /\ v.by = req[r].by /\ v.token = req[r].token
                            /\ v.new = None
  BY <1>1, <1>2, Moved DEF PCs
<1>4. v.by \in Browsers
  BY <1>1, <1>3 DEF SessionInv, CarryInv, At
<1> QED
  BY <1>1, <1>2, <1>3, <1>4, CourseKeeps DEF At

LEMMA LogoutFailsKeeps ==
  ASSUME SessionInv, NEW r \in Requests, LogoutFails(r)
  PROVE  SessionInv'
<1> USE Nones
<1>1. /\ req[r].pc \in {"logout", "found", "cleared", "failed"} /\ TypeOK
      /\ req' = [req EXCEPT ![r] = IdleReq]
      /\ hurt' = hurt \cup LoginOf(req[r].by)
      /\ UNCHANGED <<row, login, lock, expired, jar>>
      /\ lock \in [Tokens -> Requests \cup {None}]
  BY DEF LogoutFails, SessionInv, TypeOK, rows
<1>2. req[r].by \in Browsers
  BY <1>1 DEF SessionInv, CarryInv
<1>3. hurt \subseteq hurt' /\ hurt' \subseteq Tokens
  BY <1>1, <1>2 DEF LoginOf, TypeOK
<1>4. ASSUME NEW b \in Browsers, jar[b] # None, jar[b] = req[r].token
      PROVE  login[jar[b]] \in hurt'
  BY <1>1, <1>4 DEF SessionInv, OwnInv, LoginOf
<1> QED
  BY <1>1, <1>3, <1>4, Idle, CourseKeeps

-------------------------------------------------------------------------------
(* Steps of browsers. *)

(* A browser sends its cookie, or none. *)
LEMMA SendKeeps ==
  ASSUME SessionInv, NEW r \in Requests, NEW b \in Browsers, At(r, "idle"),
         NEW p \in {"refresh", "logout"}, NEW t \in {jar[b], None}, p = "refresh" => t # None,
         req' = [req EXCEPT ![r] = [pc |-> p, by |-> b, token |-> t, new |-> None]],
         UNCHANGED <<rows, expired, jar, hurt>>
  PROVE  SessionInv'
<1> USE Nones
<1> DEFINE v == [pc |-> p, by |-> b, token |-> t, new |-> None]
<1>1. v \in ReqState
  BY DEF SessionInv, TypeOK, ReqState, PCs
<1>2. /\ req' \in [Requests -> ReqState] /\ req'[r] = v
      /\ \A q \in Requests : q # r => req'[q] = req[q]
  BY <1>1 DEF SessionInv, TypeOK
<1>3. TypeOK'
  BY <1>2 DEF SessionInv, TypeOK, rows
<1>4. IssueInv'
  BY <1>2 DEF SessionInv, IssueInv, Used, rows
<1>5. CarryInv'
  BY <1>2 DEF SessionInv, CarryInv
<1>6. LockInv'
  BY <1>2 DEF SessionInv, LockInv, At, Live, rows
<1>7. RotateInv'
  BY <1>2 DEF SessionInv, RotateInv, OneLivePerLogin, At, Live, rows
<1>8. OwnInv'
  BY <1>2 DEF SessionInv, OwnInv
<1>9. GrantInv'
  <2> SUFFICES ASSUME NEW q \in Requests, At(q, "granted")'
               PROVE  /\ Live(req[q].new)' \/ req'[q].new \in expired'
                      /\ \A c \in Browsers : jar'[c] # req'[q].new
                      /\ \A s \in Requests : /\ req'[s].token # req'[q].new
                                             /\ s # q => req'[s].new # req'[q].new
    BY DEF GrantInv
  <2>1. q # r /\ req'[q] = req[q] /\ At(q, "granted") /\ req[q].new # None
    BY <1>2, OfRequest DEF At, SessionInv
  <2>2. jar[b] # req[q].new
    BY <2>1 DEF SessionInv, GrantInv
  <2> QED
    BY <1>2, <2>1, <2>2 DEF SessionInv, GrantInv, Live, rows
<1>10. CookieAlive'
  <2> SUFFICES ASSUME NEW c \in Browsers, jar[c] # None, ~ Live(jar[c]), login[jar[c]] \notin hurt
               PROVE  Rotating(jar[c])'
    BY DEF CookieAlive, Live, rows
  <2>1. PICK q \in Requests : req[q].token = jar[c] /\ req[q].pc \in {"rotated", "granted", "cleared"}
    BY DEF SessionInv, CookieAlive, Rotating
  <2> QED
    BY <1>2, <2>1 DEF Rotating, At
<1> QED
  BY <1>3, <1>4, <1>5, <1>6, <1>7, <1>8, <1>9, <1>10 DEF SessionInv

LEMMA BrowserKeeps ==
  ASSUME SessionInv, NEW b \in Browsers, NEW r \in Requests, Refresh(b, r) \/ Logout(b, r)
  PROVE  SessionInv'
<1>1. CASE Refresh(b, r)
  BY <1>1, SendKeeps DEF Refresh
<1>2. CASE Logout(b, r)
  BY <1>2, SendKeeps DEF Logout
<1> QED
  BY <1>1, <1>2

(* A token nobody has heard of. *)
LEMMA FreshUnknown ==
  ASSUME SessionInv, NEW t \in Tokens, Fresh(t)
  PROVE  /\ row[t] = "none" /\ login[t] = t /\ t \notin expired
         /\ \A u \in Tokens : row[u] # "none" => u # t /\ login[u] # t
         /\ \A b \in Browsers : jar[b] # t
         /\ \A r \in Requests : req[r].token # t /\ req[r].new # t
  BY Nones DEF Fresh, SessionInv, IssueInv, Used

LEMMA LoginKeeps == ASSUME SessionInv, NEW b \in Browsers, Login(b) PROVE SessionInv'
<1> USE Nones
<1>1. PICK t \in Tokens : /\ Fresh(t) /\ row' = [row EXCEPT ![t] = "live"]
                          /\ jar' = [jar EXCEPT ![b] = t] \/ jar' = jar
  BY DEF Login
<1>2. UNCHANGED <<login, lock, expired, req, hurt>>
  BY DEF Login
<1>3. /\ row \in [Tokens -> {"none", "live", "revoked", "gone"}]
      /\ jar \in [Browsers -> Tokens \cup {None}]
      /\ login \in [Tokens -> Tokens]
  BY DEF SessionInv, TypeOK
<1>4. row'[t] = "live" /\ \A u \in Tokens : u # t => row'[u] = row[u]
  BY <1>1, <1>3
<1>5. /\ jar' \in [Browsers -> Tokens \cup {None}]
      /\ \A c \in Browsers : jar'[c] = jar[c] \/ (c = b /\ jar'[c] = t)
  BY <1>1, <1>3
<1>6. TypeOK'
  BY <1>1, <1>2, <1>3, <1>5 DEF SessionInv, TypeOK
<1>7. IssueInv'
  BY <1>1, <1>2, <1>3, <1>4, <1>5, FreshUnknown DEF SessionInv, IssueInv, Used
<1>8. CarryInv'
  BY <1>2 DEF SessionInv, CarryInv
<1>9. LockInv'
  BY <1>1, <1>2, <1>4, FreshUnknown, OfRequest DEF SessionInv, LockInv, CarryInv, At, Live
<1>10. RotateInv'
  <2>1. OneLivePerLogin'
    BY <1>1, <1>2, <1>3, <1>4, FreshUnknown
    DEF SessionInv, RotateInv, OneLivePerLogin, Live
  <2>2. ASSUME NEW r \in Requests, NEW u \in Tokens, At(r, "rotated"), row'[u] = "live"
        PROVE  login[u] # login[req[r].token]
    <3>1. req[r].token \in Tokens /\ row[req[r].token] # "none"
      BY <2>2, OfRequest DEF SessionInv, CarryInv, IssueInv, Used, At
    <3>2. login[req[r].token] # t
      BY <1>1, <3>1, FreshUnknown
    <3> QED
      BY <1>1, <1>3, <1>4, <2>2, <3>2, FreshUnknown DEF SessionInv, RotateInv, Live
  <2> QED
    BY <1>2, <2>1, <2>2 DEF SessionInv, RotateInv, At, Live
<1>11. OwnInv'
  BY <1>1, <1>2, <1>5, FreshUnknown DEF SessionInv, OwnInv
<1>12. GrantInv'
  BY <1>1, <1>2, <1>4, <1>5, FreshUnknown, OfRequest DEF SessionInv, GrantInv, At, Live
<1>13. CookieAlive'
  BY <1>1, <1>2, <1>3, <1>4, <1>5, FreshUnknown
  DEF SessionInv, CookieAlive, Rotating, Live
<1> QED
  BY <1>6, <1>7, <1>8, <1>9, <1>10, <1>11, <1>12, <1>13 DEF SessionInv

-------------------------------------------------------------------------------
(* Steps that write tokens or cookies. *)

LEMMA RevokeKeeps == ASSUME SessionInv, NEW r \in Requests, Revoke(r) PROVE SessionInv'
<1> USE Nones
<1> DEFINE t == req[r].token
<1>1. /\ At(r, "checked") /\ t \in Tokens /\ req[r].new = None /\ req[r].by \in Browsers
      /\ lock[t] = r /\ Live(t) /\ TypeOK
  BY OfRequest DEF Revoke, At, SessionInv, CarryInv, LockInv
<1>2. PICK v \in ReqState : /\ req' = [req EXCEPT ![r] = v]
                            /\ v.pc = "rotated" /\ v.by = req[r].by /\ v.token = t
                            /\ v.new = None
  BY <1>1, Moved DEF Revoke, PCs
<1>3. /\ req' \in [Requests -> ReqState]
      /\ req'[r].pc = "rotated" /\ req'[r].by = req[r].by /\ req'[r].token = t
      /\ req'[r].new = None
      /\ \A q \in Requests : q # r => req'[q] = req[q]
  BY <1>2 DEF SessionInv, TypeOK
<1>4. UNCHANGED <<login, expired, jar, hurt>> /\ lock' = Unlocked(r)
  BY DEF Revoke
<1>5. /\ row' \in [Tokens -> {"none", "live", "revoked", "gone"}]
      /\ \A u \in Tokens : row'[u] = "none" <=> row[u] = "none"
      /\ \A u \in Tokens : row'[u] = "live" => row[u] = "live" /\ u # t
  BY <1>1 DEF Revoke, Dead, Live, TypeOK
<1>6. \A u \in Tokens : u # t /\ Live(u) /\ u \notin expired => row'[u] = "live"
  BY DEF Revoke, Dead, Live
<1>7. \A u \in Tokens : u # t /\ Live(u) /\ lock[u] \notin {None, r} => row'[u] = "live"
  BY DEF Revoke, Awaited, Dead, Live
<1>8. TypeOK'
  BY <1>1, <1>3, <1>4, <1>5, UnlockedOthers DEF TypeOK
<1>9. IssueInv'
  BY <1>1, <1>3, <1>4, <1>5, OfRequest DEF SessionInv, IssueInv, Used, TypeOK
<1>10. CarryInv'
  BY <1>1, <1>3 DEF SessionInv, CarryInv
<1>11. LockInv'
  <2> SUFFICES ASSUME NEW q \in Requests, At(q, "checked")'
               PROVE  lock'[req'[q].token] = q /\ Live(req[q].token)'
    BY DEF LockInv
  <2>1. q # r /\ req'[q] = req[q] /\ At(q, "checked") /\ req[q].token \in Tokens
    BY <1>3, OfRequest DEF At, SessionInv, CarryInv
  <2>2. lock[req[q].token] = q /\ Live(req[q].token)
    BY <2>1 DEF SessionInv, LockInv
  <2> QED
    BY <1>1, <1>4, <1>7, <2>1, <2>2, UnlockedOthers DEF Live
<1>12. RotateInv'
  <2>1. OneLivePerLogin'
    BY <1>4, <1>5 DEF SessionInv, RotateInv, OneLivePerLogin, Live
  <2>2. ASSUME NEW q \in Requests, NEW u \in Tokens, At(q, "rotated")', Live(u)'
        PROVE  login[u] # login[req'[q].token]
    BY <1>1, <1>3, <1>5, <2>2 DEF SessionInv, RotateInv, OneLivePerLogin, At, Live
  <2>3. ASSUME NEW q \in Requests, NEW s \in Requests, At(q, "rotated")', At(s, "rotated")',
               login[req'[q].token] = login[req'[s].token]
        PROVE  q = s
    BY <1>1, <1>3, <2>3 DEF SessionInv, RotateInv, At
  <2> QED
    BY <1>4, <2>1, <2>2, <2>3 DEF RotateInv
<1>13. OwnInv'
  BY <1>3, <1>4 DEF SessionInv, OwnInv
<1>14. GrantInv'
  <2> SUFFICES ASSUME NEW q \in Requests, At(q, "granted")'
               PROVE  /\ Live(req[q].new)' \/ req'[q].new \in expired'
                      /\ \A c \in Browsers : jar'[c] # req'[q].new
                      /\ \A s \in Requests : /\ req'[s].token # req'[q].new
                                             /\ s # q => req'[s].new # req'[q].new
    BY DEF GrantInv
  <2>1. q # r /\ req'[q] = req[q] /\ At(q, "granted") /\ req[q].new \in Tokens
    BY <1>3, OfRequest DEF At, SessionInv
  <2>2. req[q].new # t
    BY <2>1 DEF SessionInv, GrantInv
  <2> QED
    BY <1>1, <1>3, <1>4, <1>6, <2>1, <2>2 DEF SessionInv, GrantInv, Live
<1>15. CookieAlive'
  <2> SUFFICES ASSUME NEW b \in Browsers, jar[b] # None, row'[jar[b]] # "live",
                      login[jar[b]] \notin hurt
               PROVE  Rotating(jar[b])'
    BY <1>4 DEF CookieAlive, Live
  <2>1. jar[b] \in Tokens /\ jar[b] \notin expired
    BY <1>1 DEF SessionInv, OwnInv, TypeOK
  <2>2. CASE jar[b] = t
    BY <1>3, <1>4, <2>2 DEF Rotating
  <2>3. CASE jar[b] # t
    <3>1. ~ Live(jar[b])
      BY <1>6, <2>1, <2>3
    <3>2. PICK q \in Requests : /\ req[q].token = jar[b]
                                /\ req[q].pc \in {"rotated", "granted", "cleared"}
      BY <3>1 DEF SessionInv, CookieAlive, Rotating
    <3> QED
      BY <1>1, <1>3, <1>4, <2>3, <3>2 DEF Rotating, At
  <2> QED
    BY <2>2, <2>3
<1> QED
  BY <1>8, <1>9, <1>10, <1>11, <1>12, <1>13, <1>14, <1>15 DEF SessionInv

LEMMA CreateKeeps == ASSUME SessionInv, NEW r \in Requests, Create(r) PROVE SessionInv'
<1> USE Nones
<1> DEFINE t == req[r].token
<1>1. PICK n \in Tokens : /\ Fresh(n) /\ row' = [row EXCEPT ![n] = "live"]
                          /\ login' = [login EXCEPT ![n] = login[t]]
                          /\ req' = [req EXCEPT ![r].pc = "granted", ![r].new = n]
  BY DEF Create
<1>2. /\ At(r, "rotated") /\ t \in Tokens /\ req[r].by \in Browsers /\ TypeOK
      /\ row[t] # "none" /\ UNCHANGED <<lock, expired, jar, hurt>>
  BY OfRequest DEF Create, At, SessionInv, CarryInv, IssueInv, Used
<1>3. /\ req' \in [Requests -> ReqState]
      /\ req'[r].pc = "granted" /\ req'[r].by = req[r].by /\ req'[r].token = t
      /\ req'[r].new = n
      /\ \A q \in Requests : q # r => req'[q] = req[q]
  <2> DEFINE v == [[req[r] EXCEPT !.pc = "granted"] EXCEPT !.new = n]
  <2>1. /\ v \in ReqState /\ v.pc = "granted" /\ v.by = req[r].by /\ v.token = t /\ v.new = n
    BY <1>2, OfRequest DEF ReqState, PCs
  <2>2. req' = [req EXCEPT ![r] = v]
    BY <1>1, <1>2 DEF TypeOK
  <2> HIDE DEF v
  <2> QED
    BY <1>2, <2>1, <2>2 DEF TypeOK
<1>4. /\ row' \in [Tokens -> {"none", "live", "revoked", "gone"}] /\ row'[n] = "live"
      /\ \A u \in Tokens : u # n => row'[u] = row[u]
      /\ login' \in [Tokens -> Tokens] /\ login'[n] = login[t] /\ login[t] \in Tokens
      /\ \A u \in Tokens : u # n => login'[u] = login[u]
  BY <1>1, <1>2 DEF TypeOK
<1>5. /\ t # n /\ row[n] = "none" /\ n \notin expired /\ row[login[t]] # "none"
      /\ \A u \in Tokens : row[u] # "none" => u # n /\ login[u] # n
      /\ \A b \in Browsers : jar[b] # n
      /\ \A q \in Requests : req[q].token # n /\ req[q].new # n
  BY <1>1, <1>2, FreshUnknown DEF SessionInv, IssueInv, Used
<1>6. \A q \in Requests : req'[q].token = req[q].token
  BY <1>3
<1>7. TypeOK'
  BY <1>2, <1>3, <1>4 DEF TypeOK
<1>8. IssueInv'
  <2>1. \A u \in Tokens : row'[u] = "none" => login'[u] = u /\ u \notin expired
    BY <1>4 DEF SessionInv, IssueInv, Used
  <2>2. \A u \in Tokens : row'[u] # "none" => row'[login'[u]] # "none"
    BY <1>2, <1>4, <1>5 DEF SessionInv, IssueInv, Used, TypeOK
  <2>3. \A b \in Browsers : jar[b] # None => row'[jar[b]] # "none"
    BY <1>2, <1>4 DEF SessionInv, IssueInv, Used, TypeOK
  <2>4. \A q \in Requests : /\ req'[q].token # None => row'[req'[q].token] # "none"
                            /\ req'[q].new # None => row'[req'[q].new] # "none"
    BY <1>2, <1>3, <1>4, <1>5, OfRequest DEF SessionInv, IssueInv, Used
  <2> QED
    BY <1>2, <2>1, <2>2, <2>3, <2>4 DEF IssueInv, Used
<1>9. CarryInv'
  BY <1>2, <1>3 DEF SessionInv, CarryInv
<1>10. LockInv'
  <2> SUFFICES ASSUME NEW q \in Requests, At(q, "checked")'
               PROVE  lock'[req'[q].token] = q /\ Live(req[q].token)'
    BY DEF LockInv
  <2>1. req'[q] = req[q] /\ At(q, "checked") /\ req[q].token \in Tokens
    BY <1>3, OfRequest DEF At, SessionInv, CarryInv
  <2> QED
    BY <1>2, <1>4, <1>5, <2>1 DEF SessionInv, LockInv, Live
<1>11. RotateInv'
  <2>1. ASSUME NEW u \in Tokens, row[u] = "live" PROVE login[u] # login[t] /\ u # n
    BY <1>2, <1>5, <2>1 DEF SessionInv, RotateInv, Live
  <2>2. OneLivePerLogin'
    BY <1>4, <2>1 DEF SessionInv, RotateInv, OneLivePerLogin, Live
  <2>3. ASSUME NEW q \in Requests, At(q, "rotated")'
        PROVE  /\ q # r /\ At(q, "rotated") /\ req'[q] = req[q] /\ req[q].token \in Tokens
               /\ login'[req[q].token] = login[req[q].token]
               /\ login[req[q].token] # login[t]
    <3>1. q # r /\ At(q, "rotated") /\ req'[q] = req[q] /\ req[q].token \in Tokens
      BY <1>3, <2>3, OfRequest DEF At, SessionInv, CarryInv
    <3> QED
      BY <1>2, <1>4, <1>5, <3>1 DEF SessionInv, RotateInv
  <2>4. ASSUME NEW q \in Requests, NEW u \in Tokens, At(q, "rotated")', Live(u)'
        PROVE  login'[u] # login'[req'[q].token]
    BY <1>4, <2>3, <2>4 DEF SessionInv, RotateInv, Live
  <2>5. ASSUME NEW q \in Requests, NEW s \in Requests, At(q, "rotated")', At(s, "rotated")',
               login'[req'[q].token] = login'[req'[s].token]
        PROVE  q = s
    BY <2>3, <2>5 DEF SessionInv, RotateInv
  <2> QED
    BY <2>2, <2>4, <2>5 DEF RotateInv
<1>12. OwnInv'
  BY <1>2, <1>3 DEF SessionInv, OwnInv
<1>13. GrantInv'
  <2> SUFFICES ASSUME NEW q \in Requests, At(q, "granted")'
               PROVE  /\ Live(req[q].new)' \/ req'[q].new \in expired'
                      /\ \A c \in Browsers : jar'[c] # req'[q].new
                      /\ \A s \in Requests : /\ req'[s].token # req'[q].new
                                             /\ s # q => req'[s].new # req'[q].new
    BY DEF GrantInv
  <2>1. CASE q = r
    BY <1>2, <1>3, <1>4, <1>5, <1>6, <2>1 DEF Live
  <2>2. CASE q # r
    <3>1. req'[q] = req[q] /\ At(q, "granted") /\ req[q].new \in Tokens
      BY <1>3, <2>2, OfRequest DEF At, SessionInv
    <3>2. req[q].new # n
      BY <1>5
    <3> QED
      BY <1>2, <1>3, <1>4, <1>6, <3>1, <3>2 DEF SessionInv, GrantInv, Live
  <2> QED
    BY <2>1, <2>2
<1>14. CookieAlive'
  <2> SUFFICES ASSUME NEW b \in Browsers, jar[b] # None, row'[jar[b]] # "live",
                      login'[jar[b]] \notin hurt
               PROVE  Rotating(jar[b])'
    BY <1>2 DEF CookieAlive, Live
  <2>1. jar[b] \in Tokens /\ row'[jar[b]] = row[jar[b]] /\ login'[jar[b]] = login[jar[b]]
    BY <1>2, <1>4, <1>5 DEF TypeOK
  <2>2. PICK q \in Requests : /\ req[q].token = jar[b]
                              /\ req[q].pc \in {"rotated", "granted", "cleared"}
    BY <2>1 DEF SessionInv, CookieAlive, Rotating, Live
  <2> QED
    BY <1>2, <1>3, <2>2 DEF Rotating, At
<1> QED
  BY <1>7, <1>8, <1>9, <1>10, <1>11, <1>12, <1>13, <1>14 DEF SessionInv

LEMMA RefreshedKeeps ==
  ASSUME SessionInv, NEW r \in Requests, Refreshed(r)
  PROVE  SessionInv'
<1> USE Nones
<1> DEFINE n == req[r].new
           t == req[r].token
           b == req[r].by
<1>1. /\ At(r, "granted") /\ t \in Tokens /\ n \in Tokens /\ b \in Browsers /\ TypeOK
      /\ UNCHANGED <<row, login, lock, expired, hurt>>
  BY OfRequest DEF Refreshed, At, SessionInv, CarryInv, rows
<1>2. /\ req' \in [Requests -> ReqState] /\ req'[r] = IdleReq
      /\ \A q \in Requests : q # r => req'[q] = req[q]
  BY <1>1, Idle DEF Refreshed, TypeOK
<1>3. /\ jar' \in [Browsers -> Tokens \cup {None}]
      /\ \A c \in Browsers : c # b => jar'[c] = jar[c]
      /\ jar'[b] = IF n \in expired THEN None ELSE n
  BY <1>1 DEF Refreshed, TypeOK
<1>4. /\ n \notin expired => Live(n)
      /\ \A c \in Browsers : jar[c] # n
      /\ \A q \in Requests : req[q].token # n /\ (q # r => req[q].new # n)
  BY <1>1 DEF SessionInv, GrantInv
<1>5. TypeOK'
  BY <1>1, <1>2, <1>3, Idle DEF TypeOK
<1>6. IssueInv'
  BY <1>1, <1>2, <1>3, <1>4, Idle DEF SessionInv, IssueInv, Used
<1>7. CarryInv'
  BY <1>2, Idle DEF SessionInv, CarryInv
<1>8. LockInv'
  BY <1>1, <1>2, Idle DEF SessionInv, LockInv, At, Live
<1>9. RotateInv'
  BY <1>1, <1>2, Idle DEF SessionInv, RotateInv, OneLivePerLogin, At, Live
<1>10. OwnInv'
  <2>1. \A c, d \in Browsers : jar'[c] # None /\ jar'[c] = jar'[d] => c = d
    BY <1>3, <1>4 DEF SessionInv, OwnInv
  <2>2. \A c \in Browsers : jar'[c] # None => jar'[c] \notin expired
    BY <1>3 DEF SessionInv, OwnInv
  <2>3. \A c \in Browsers, q \in Requests :
          jar'[c] # None /\ req'[q].token = jar'[c] => req'[q].by = c
    BY <1>2, <1>3, <1>4, Idle DEF SessionInv, OwnInv
  <2> QED
    BY <1>1, <2>1, <2>2, <2>3 DEF OwnInv
<1>11. GrantInv'
  <2> SUFFICES ASSUME NEW q \in Requests, At(q, "granted")'
               PROVE  /\ Live(req[q].new)' \/ req'[q].new \in expired'
                      /\ \A c \in Browsers : jar'[c] # req'[q].new
                      /\ \A s \in Requests : /\ req'[s].token # req'[q].new
                                             /\ s # q => req'[s].new # req'[q].new
    BY DEF GrantInv
  <2>1. q # r /\ req'[q] = req[q] /\ At(q, "granted") /\ req[q].new \in Tokens
    BY <1>1, <1>2, Idle, OfRequest DEF At
  <2>2. req[q].new # n
    BY <1>4, <2>1
  <2> QED
    BY <1>1, <1>2, <1>3, <2>1, <2>2, Idle DEF SessionInv, GrantInv, Live
<1>12. CookieAlive'
  <2> SUFFICES ASSUME NEW c \in Browsers, jar'[c] # None, ~ Live(jar'[c]),
                      login[jar'[c]] \notin hurt
               PROVE  \E q \in Requests : /\ req'[q].token = jar'[c]
                                          /\ req'[q].pc \in {"rotated", "granted", "cleared"}
    BY <1>1 DEF CookieAlive, Live, Rotating
  <2>1. c # b /\ jar'[c] = jar[c]
    BY <1>3, <1>4
  <2>2. PICK q \in Requests : /\ req[q].token = jar[c]
                              /\ req[q].pc \in {"rotated", "granted", "cleared"}
    BY <2>1 DEF SessionInv, CookieAlive, Rotating
  <2>3. q # r
    BY <2>1, <2>2 DEF SessionInv, OwnInv
  <2> QED
    BY <1>2, <2>1, <2>2, <2>3
<1> QED
  BY <1>5, <1>6, <1>7, <1>8, <1>9, <1>10, <1>11, <1>12 DEF SessionInv

(* The UPDATE of a logout hits no row that a rotation holds. *)
LEMMA RevokeFoundKeeps ==
  ASSUME SessionInv, NEW r \in Requests, RevokeFound(r)
  PROVE  SessionInv'
<1> USE Nones
<1> DEFINE t == req[r].token
<1>1. /\ At(r, "found") /\ t \in Tokens /\ req[r].new = None /\ req[r].by \in Browsers
      /\ lock[t] = None /\ TypeOK /\ row[t] # "none"
      /\ UNCHANGED <<login, lock, expired, jar, hurt>>
  BY OfRequest DEF RevokeFound, At, SessionInv, CarryInv, IssueInv, Used
<1>2. CASE row[t] = "gone"
  <2>1. Goto(r, "failed") /\ row' = row
    BY <1>2 DEF RevokeFound
  <2>2. PICK v \in ReqState : /\ req' = [req EXCEPT ![r] = v]
                              /\ v.pc = "failed" /\ v.by = req[r].by /\ v.token = t
                              /\ v.new = None
    BY <1>1, <2>1, Moved DEF PCs
  <2>3. hurt \subseteq Tokens /\ lock \in [Tokens -> Requests \cup {None}]
    BY <1>1 DEF TypeOK
  <2> QED
    BY <1>1, <2>1, <2>2, <2>3, CourseKeeps DEF At
<1>3. CASE row[t] # "gone"
  <2>1. Goto(r, "cleared") /\ row' = [row EXCEPT ![t] = "revoked"]
    BY <1>3 DEF RevokeFound
  <2>2. PICK v \in ReqState : /\ req' = [req EXCEPT ![r] = v]
                              /\ v.pc = "cleared" /\ v.by = req[r].by /\ v.token = t
                              /\ v.new = None
    BY <1>1, <2>1, Moved DEF PCs
  <2>3. /\ req' \in [Requests -> ReqState]
        /\ req'[r].pc = "cleared" /\ req'[r].by = req[r].by /\ req'[r].token = t
        /\ req'[r].new = None
        /\ \A q \in Requests : q # r => req'[q] = req[q]
    BY <1>1, <2>2 DEF TypeOK
  <2>4. /\ row' \in [Tokens -> {"none", "live", "revoked", "gone"}] /\ row'[t] = "revoked"
        /\ \A u \in Tokens : u # t => row'[u] = row[u]
    BY <1>1, <2>1 DEF TypeOK
  <2>5. TypeOK'
    BY <1>1, <2>3, <2>4 DEF TypeOK
  <2>6. IssueInv'
    BY <1>1, <2>3, <2>4, OfRequest DEF SessionInv, IssueInv, Used, TypeOK
  <2>7. CarryInv'
    BY <1>1, <2>3 DEF SessionInv, CarryInv
  <2>8. LockInv'
    <3> SUFFICES ASSUME NEW q \in Requests, At(q, "checked")'
                 PROVE  lock'[req'[q].token] = q /\ Live(req[q].token)'
      BY DEF LockInv
    <3>1. req'[q] = req[q] /\ At(q, "checked") /\ req[q].token \in Tokens
      BY <1>1, <2>3, OfRequest DEF At, SessionInv, CarryInv
    <3>2. lock[req[q].token] = q /\ Live(req[q].token)
      BY <3>1 DEF SessionInv, LockInv
    <3> QED
      BY <1>1, <2>4, <3>1, <3>2 DEF Live
  <2>9. RotateInv'
    BY <1>1, <2>3, <2>4 DEF SessionInv, RotateInv, OneLivePerLogin, At, Live
  <2>10. OwnInv'
    BY <1>1, <2>3 DEF SessionInv, OwnInv
  <2>11. GrantInv'
    <3> SUFFICES ASSUME NEW q \in Requests, At(q, "granted")'
                 PROVE  /\ Live(req[q].new)' \/ req'[q].new \in expired'
                        /\ \A c \in Browsers : jar'[c] # req'[q].new
                        /\ \A s \in Requests : /\ req'[s].token # req'[q].new
                                               /\ s # q => req'[s].new # req'[q].new
      BY DEF GrantInv
    <3>1. q # r /\ req'[q] = req[q] /\ At(q, "granted") /\ req[q].new \in Tokens
      BY <1>1, <2>3, OfRequest DEF At
    <3>2. req[q].new # t
      BY <3>1 DEF SessionInv, GrantInv
    <3> QED
      BY <1>1, <2>3, <2>4, <3>1, <3>2 DEF SessionInv, GrantInv, Live
  <2>12. CookieAlive'
    <3> SUFFICES ASSUME NEW b \in Browsers, jar[b] # None, row'[jar[b]] # "live",
                        login[jar[b]] \notin hurt
                 PROVE  \E q \in Requests : /\ req'[q].token = jar[b]
                                            /\ req'[q].pc \in {"rotated", "granted", "cleared"}
      BY <1>1 DEF CookieAlive, Live, Rotating
    <3>1. CASE jar[b] = t
      BY <2>3, <3>1
    <3>2. CASE jar[b] # t
      <4>1. jar[b] \in Tokens /\ ~ Live(jar[b])
        BY <1>1, <2>4, <3>2 DEF Live, TypeOK
      <4>2. PICK q \in Requests : /\ req[q].token = jar[b]
                                  /\ req[q].pc \in {"rotated", "granted", "cleared"}
        BY <4>1 DEF SessionInv, CookieAlive, Rotating
      <4> QED
        BY <2>3, <3>2, <4>2
    <3> QED
      BY <3>1, <3>2
  <2> QED
    BY <2>5, <2>6, <2>7, <2>8, <2>9, <2>10, <2>11, <2>12 DEF SessionInv
<1> QED
  BY <1>2, <1>3

LEMMA LoggedOutKeeps ==
  ASSUME SessionInv, NEW r \in Requests, LoggedOut(r)
  PROVE  SessionInv'
<1> USE Nones
<1> DEFINE b == req[r].by
<1>1. /\ At(r, "cleared") /\ b \in Browsers /\ TypeOK
      /\ UNCHANGED <<row, login, lock, expired, hurt>>
  BY DEF LoggedOut, At, SessionInv, CarryInv, rows
<1>2. /\ req' \in [Requests -> ReqState] /\ req'[r] = IdleReq
      /\ \A q \in Requests : q # r => req'[q] = req[q]
  BY <1>1, Idle DEF LoggedOut, TypeOK
<1>3. /\ jar' \in [Browsers -> Tokens \cup {None}] /\ jar'[b] = None
      /\ \A c \in Browsers : c # b => jar'[c] = jar[c]
  BY <1>1 DEF LoggedOut, TypeOK
<1>4. TypeOK'
  BY <1>1, <1>2, <1>3, Idle DEF TypeOK
<1>5. IssueInv'
  BY <1>1, <1>2, <1>3, Idle DEF SessionInv, IssueInv, Used
<1>6. CarryInv'
  BY <1>2, Idle DEF SessionInv, CarryInv
<1>7. LockInv'
  BY <1>1, <1>2, Idle DEF SessionInv, LockInv, At, Live
<1>8. RotateInv'
  BY <1>1, <1>2, Idle DEF SessionInv, RotateInv, OneLivePerLogin, At, Live
<1>9. OwnInv'
  BY <1>1, <1>2, <1>3, Idle DEF SessionInv, OwnInv
<1>10. GrantInv'
  <2> SUFFICES ASSUME NEW q \in Requests, At(q, "granted")'
               PROVE  /\ Live(req[q].new)' \/ req'[q].new \in expired'
                      /\ \A c \in Browsers : jar'[c] # req'[q].new
                      /\ \A s \in Requests : /\ req'[s].token # req'[q].new
                                             /\ s # q => req'[s].new # req'[q].new
    BY DEF GrantInv
  <2>1. q # r /\ req'[q] = req[q] /\ At(q, "granted") /\ req[q].new \in Tokens
    BY <1>1, <1>2, Idle, OfRequest DEF At
  <2> QED
    BY <1>1, <1>2, <1>3, <2>1, Idle DEF SessionInv, GrantInv, Live
<1>11. CookieAlive'
  <2> SUFFICES ASSUME NEW c \in Browsers, jar'[c] # None, ~ Live(jar'[c]),
                      login[jar'[c]] \notin hurt
               PROVE  \E q \in Requests : /\ req'[q].token = jar'[c]
                                          /\ req'[q].pc \in {"rotated", "granted", "cleared"}
    BY <1>1 DEF CookieAlive, Live, Rotating
  <2>1. c # b /\ jar'[c] = jar[c]
    BY <1>3
  <2>2. PICK q \in Requests : /\ req[q].token = jar[c]
                              /\ req[q].pc \in {"rotated", "granted", "cleared"}
    BY <2>1 DEF SessionInv, CookieAlive, Rotating
  <2>3. q # r
    BY <2>1, <2>2 DEF SessionInv, OwnInv
  <2> QED
    BY <1>2, <2>1, <2>2, <2>3
<1> QED
  BY <1>4, <1>5, <1>6, <1>7, <1>8, <1>9, <1>10, <1>11 DEF SessionInv

LEMMA ExpiresKeeps ==
  ASSUME SessionInv, NEW t \in Tokens, RefreshExpires(t)
  PROVE  SessionInv'
<1> USE Nones
<1>1. /\ row[t] # "none" /\ expired' = expired \cup {t} /\ TypeOK
      /\ UNCHANGED <<row, login, lock, req, hurt>>
  BY DEF RefreshExpires, rows, SessionInv
<1>2. /\ jar' \in [Browsers -> Tokens \cup {None}]
      /\ \A b \in Browsers : jar'[b] = None \/ (jar'[b] = jar[b] /\ jar[b] # t)
  BY <1>1 DEF RefreshExpires, TypeOK
<1>3. TypeOK'
  BY <1>1, <1>2 DEF TypeOK
<1>4. IssueInv'
  BY <1>1, <1>2 DEF SessionInv, IssueInv, Used
<1>5. CarryInv' /\ LockInv' /\ RotateInv'
  BY <1>1 DEF SessionInv, CarryInv, LockInv, RotateInv, OneLivePerLogin, At, Live
<1>6. OwnInv'
  BY <1>1, <1>2 DEF SessionInv, OwnInv
<1>7. GrantInv'
  BY <1>1, <1>2, OfRequest DEF SessionInv, GrantInv, At, Live
<1>8. CookieAlive'
  BY <1>1, <1>2 DEF SessionInv, CookieAlive, Live, Rotating
<1> QED
  BY <1>3, <1>4, <1>5, <1>6, <1>7, <1>8 DEF SessionInv

LEMMA StepSession == SessionInv /\ [Next]_vars => SessionInv'
<1> SUFFICES ASSUME SessionInv, [Next]_vars PROVE SessionInv'
  OBVIOUS
<1>1. ASSUME NEW r \in Requests, Serve(r) \/ Fail(r) \/ LogoutFails(r) PROVE SessionInv'
  BY <1>1, CheckKeeps, RevokeKeeps, AbortKeeps, CreateKeeps, RefreshedKeeps, DeniedKeeps,
     FindKeeps, RevokeFoundKeeps, LoggedOutKeeps, FailKeeps, LogoutFailsKeeps DEF Serve
<1>2. CASE UNCHANGED vars
  BY <1>2 DEF vars, rows, SessionInv, TypeOK, IssueInv, CarryInv, LockInv, RotateInv,
     OneLivePerLogin, OwnInv, GrantInv, CookieAlive, Rotating, At, Live, Used
<1> QED
  BY <1>1, <1>2, BrowserKeeps, LoginKeeps, ExpiresKeeps DEF Next

LEMMA AlwaysSession == Spec => []SessionInv
  BY InitSession, StepSession, PTL DEF Spec

(* The type invariant, and that only a granted request carries a new token. *)
THEOREM SessionTypes == Spec => []TypeOK
<1>1. SessionInv => TypeOK
  BY DEF SessionInv
<1> QED
  BY <1>1, AlwaysSession, PTL

(* However many requests present a refresh token at once, it is good for one    *)
(* rotation: a login never has two tokens alive.                               *)
THEOREM OneToken == Spec => []OneLivePerLogin
<1>1. SessionInv => OneLivePerLogin
  BY DEF SessionInv, RotateInv
<1> QED
  BY <1>1, AlwaysSession, PTL

(* Nobody is signed out by other browsers, requests, rotations and cleanups:    *)
(* the cookie's token is alive or its successor is on the way, unless a failure *)
(* struck this login.                                                          *)
THEOREM NobodySignedOut == Spec => []CookieAlive
<1>1. SessionInv => CookieAlive
  BY DEF SessionInv
<1> QED
  BY <1>1, AlwaysSession, PTL

-------------------------------------------------------------------------------
(* What a step does to one token: it may revoke or delete it, or issue it, to   *)
(* a new login or in a rotation.                                               *)
LEMMA TokenStep ==
  ASSUME SessionInv, [Next]_vars, NEW t \in Tokens
  PROVE  \/ row'[t] = row[t] /\ login'[t] = login[t]
         \/ row[t] # "none" /\ row'[t] \in {"revoked", "gone"} /\ login'[t] = login[t]
         \/ row[t] = "none" /\ login'[t] = t
         \/ \E r \in Requests : /\ row[t] = "none" /\ At(r, "rotated")
                                /\ login'[t] = login[req[r].token]
<1>1. TypeOK
  BY DEF SessionInv
<1>2. CASE UNCHANGED <<row, login>>
  BY <1>2
<1>3. ASSUME NEW r \in Requests, Revoke(r)
      PROVE  row'[t] \in {row[t], "revoked", "gone"} /\ login' = login /\
             (row[t] = "none" => row'[t] = "none")
  <2>1. row[req[r].token] = "live"
    BY <1>3 DEF Revoke, SessionInv, LockInv, Live
  <2> QED
    BY <1>3, <2>1 DEF Revoke, Dead
<1>4. ASSUME NEW r \in Requests, Create(r)
      PROVE  \/ row'[t] = row[t] /\ login'[t] = login[t]
             \/ row[t] = "none" /\ At(r, "rotated") /\ login'[t] = login[req[r].token]
  <2>1. PICK n \in Tokens : /\ Fresh(n) /\ row' = [row EXCEPT ![n] = "live"]
                            /\ login' = [login EXCEPT ![n] = login[req[r].token]]
    BY <1>4 DEF Create
  <2> QED
    BY <1>1, <1>4, <2>1 DEF Create, Fresh, TypeOK
<1>5. ASSUME NEW r \in Requests, RevokeFound(r)
      PROVE  row'[t] \in {row[t], "revoked"} /\ login' = login /\
             (row[t] = "none" => row'[t] = "none")
  <2>1. row[req[r].token] # "none"
    BY <1>5 DEF RevokeFound, At, SessionInv, CarryInv, IssueInv, Used
  <2> QED
    BY <1>1, <1>5, <2>1 DEF RevokeFound, TypeOK
<1>6. ASSUME NEW b \in Browsers, Login(b)
      PROVE  login' = login /\ (row'[t] = row[t] \/ (row[t] = "none" /\ login[t] = t))
  BY <1>1, <1>6 DEF Login, Fresh, TypeOK, SessionInv, IssueInv, Used
<1>7. CASE \/ \E r \in Requests : Check(r) \/ Abort(r) \/ Refreshed(r) \/ Denied(r) \/ Find(r)
                                  \/ LoggedOut(r) \/ Fail(r) \/ LogoutFails(r)
           \/ \E b \in Browsers, r \in Requests : Refresh(b, r) \/ Logout(b, r)
           \/ \E u \in Tokens : RefreshExpires(u)
           \/ UNCHANGED vars
  BY <1>2, <1>7 DEF Check, Abort, Refreshed, Denied, Find, LoggedOut, Fail, LogoutFails, Refresh,
     Logout, RefreshExpires, vars, rows
<1> QED
  BY <1>3, <1>4, <1>5, <1>6, <1>7 DEF Next, Serve

(* A rotation gets past its checks only with a token that is alive. *)
LEMMA RotatedStep ==
  ASSUME SessionInv, [Next]_vars, NEW r \in Requests, At(r, "rotated")'
  PROVE  /\ req'[r].token = req[r].token /\ req[r].token \in Tokens
         /\ At(r, "rotated") \/ Live(req[r].token)
<1> USE Nones
<1>1. TypeOK /\ "rotated" \in PCs /\ IdleReq.pc # "rotated"
  BY Idle DEF SessionInv, PCs
<1>2. ASSUME NEW q \in Requests, NEW p \in PCs, p # "rotated", Goto(q, p)
      PROVE  req'[r] = req[r]
  <2>1. PICK v \in ReqState : req' = [req EXCEPT ![q] = v] /\ v.pc = p
    BY <1>1, <1>2, Moved
  <2> QED
    BY <1>1, <1>2, <2>1 DEF At, TypeOK
<1>3. ASSUME NEW q \in Requests, NEW v, v.pc # "rotated", req' = [req EXCEPT ![q] = v]
      PROVE  req'[r] = req[r]
  BY <1>1, <1>3 DEF At, TypeOK
<1>4. ASSUME NEW q \in Requests, Revoke(q)
      PROVE  \/ req'[r] = req[r]
             \/ req'[r].token = req[r].token /\ Live(req[r].token) /\ At(r, "checked")
  <2>1. PICK v \in ReqState : req' = [req EXCEPT ![q] = v] /\ v.token = req[q].token
    BY <1>1, <1>4, Moved DEF Revoke
  <2> QED
    BY <1>1, <1>4, <2>1 DEF Revoke, SessionInv, LockInv, TypeOK
<1>5. ASSUME NEW q \in Requests, Create(q) PROVE req'[r] = req[r]
  <2>1. PICK n \in Tokens : req' = [req EXCEPT ![q].pc = "granted", ![q].new = n]
    BY <1>5 DEF Create
  <2>2. [[req[q] EXCEPT !.pc = "granted"] EXCEPT !.new = n].pc = "granted"
    BY <1>1, OfRequest DEF ReqState
  <2>3. q # r
    BY <1>1, <2>1, <2>2 DEF At, TypeOK
  <2> QED
    BY <1>1, <2>1, <2>3 DEF TypeOK
<1>6. \/ req'[r] = req[r]
      \/ req'[r].token = req[r].token /\ Live(req[r].token) /\ At(r, "checked")
  <2>1. ASSUME NEW q \in Requests, Check(q) \/ Abort(q) \/ Find(q) \/ RevokeFound(q)
        PROVE  req'[r] = req[r]
    BY <1>2, <2>1 DEF Check, Abort, Find, RevokeFound, PCs
  <2>2. ASSUME NEW q \in Requests, \/ Refreshed(q) \/ Denied(q) \/ LoggedOut(q) \/ Fail(q)
                                   \/ LogoutFails(q)
        PROVE  req'[r] = req[r]
    BY <1>1, <1>3, <2>2 DEF Refreshed, Denied, LoggedOut, Fail, LogoutFails
  <2>3. ASSUME NEW b \in Browsers, NEW q \in Requests, Refresh(b, q) \/ Logout(b, q)
        PROVE  req'[r] = req[r]
    BY <1>3, <2>3 DEF Refresh, Logout
  <2>4. CASE \/ \E b \in Browsers : Login(b)
             \/ \E u \in Tokens : RefreshExpires(u)
             \/ UNCHANGED vars
    BY <2>4 DEF Login, RefreshExpires, vars
  <2> QED
    BY <1>4, <1>5, <2>1, <2>2, <2>3, <2>4 DEF Next, Serve
<1>7. req[r].token \in Tokens
  BY <1>1, <1>6, OfRequest DEF SessionInv, CarryInv, At
<1> QED
  BY <1>6, <1>7 DEF At

(* A session that has ended stays ended, whatever is still in flight of it. *)
THEOREM EndedStaysEnded == Spec => OverStaysOver
<1>1. ASSUME SessionInv, [Next]_vars PROVE Over \subseteq Over'
  <2> SUFFICES ASSUME NEW l \in Over PROVE l \in Over'
    OBVIOUS
  <2>1. PICK t \in Tokens : row[t] # "none" /\ login[t] = l
    BY DEF Over
  <2>2. /\ l \in Tokens /\ row[l] # "none"
        /\ \A u \in Tokens : row[u] = "live" => login[u] # l
        /\ \A r \in Requests : At(r, "rotated") => login[req[r].token] # l
    BY <1>1, <2>1 DEF Over, SessionInv, IssueInv, Used, Live
  <2>3. row'[t] # "none" /\ login'[t] = l
    BY <1>1, <2>1, TokenStep
  <2>4. ASSUME NEW u \in Tokens, row'[u] = "live" PROVE login'[u] # l
    BY <1>1, <2>2, <2>4, TokenStep
  <2>5. ASSUME NEW r \in Requests, At(r, "rotated")' PROVE login'[req'[r].token] # l
    <3>1. /\ req'[r].token = req[r].token /\ req[r].token \in Tokens
          /\ At(r, "rotated") \/ Live(req[r].token)
      BY <1>1, <2>5, RotatedStep
    <3>2. row[req[r].token] # "none" /\ login[req[r].token] # l
      BY <1>1, <2>2, <3>1 DEF SessionInv, CarryInv, IssueInv, Used, At, Live
    <3> QED
      BY <1>1, <3>1, <3>2, TokenStep
  <2> QED
    BY <2>2, <2>3, <2>4, <2>5 DEF Over, Live
<1> QED
  BY <1>1, AlwaysSession, PTL DEF Spec, OverStaysOver
===============================================================================
