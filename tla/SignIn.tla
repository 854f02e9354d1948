------------------------------- MODULE SignIn -------------------------------
(***************************************************************************)
(* Browsers that read pages, sign in, act as admins and sign out, with     *)
(* several requests of one browser under way at once and their answers     *)
(* arriving in any order: the session's cookie, the CSRF secret's cookie,  *)
(* the sessions behind them, and the limit on wrong passwords.             *)
(***************************************************************************)
EXTENDS Sessions

CONSTANTS
  Browsers,
  Reqs,     \* requests under way at once
  Limit,    \* how many failed sign-ins a window allows
  MaxLogins, \* bound: how many sign-ins are tried
  MaxPages  \* bound: how many other requests are made

ASSUME SignInAssumption ==
  /\ IsFiniteSet(Reqs)
  /\ Limit \in Nat \ {0} /\ MaxLogins \in Nat /\ MaxPages \in Nat

VARIABLES
  jar,     \* each browser's cookies: the session id and the CSRF secret
  pages,   \* the secrets behind the tokens on each browser's open pages
  req,     \* the requests under way
  secrets, \* how many CSRF secrets have been minted
  hits,    \* the row of "rate_limits": its count and whether its window is open
  window,  \* how many windows have begun
  newest,  \* history: the cookies of the last sign-in each browser was answered
  raced,   \* history: browsers whose secret a cookieless request's answer replaced
  guesses, \* history: the wrong passwords looked at that this window counted
  strays,  \* history: the hits this window gave back for sign-ins of an earlier one
  asked    \* how many requests of each kind were made

browserVars == <<jar, pages, newest, raced>>
limitVars == <<hits, window, guesses, strays>>
vars == <<sessionVars, browserVars, req, secrets, limitVars, asked>>

NoSecret == 0
Idle == [at |-> "idle"]
At(r, at) == req[r].at = at
Goes(r, s) == req' = [req EXCEPT ![r] = s]
To(r, at) == [req[r] EXCEPT !.at = at]

(* What the answer carries: an id, a secret, and the token on its page. *)
Answer(r, ok, sid, secret) ==
  [at |-> "answered", by |-> req[r].by, seen |-> FALSE, ok |-> ok, counted |-> req[r].counted,
   sid |-> sid, secret |-> secret, bare |-> req[r].bare, token |-> req[r].secret]
Refusal(r) == Answer(r, FALSE, NoSid, req[r].mint)

(* The session middleware restores the session the cookie names, if it has *)
(* a row, and csrfToken reads the secret, or mints one on a safe method.   *)
RequestOf(b, at, mint) ==
  LET live == jar[b].sid \in Live
  IN [at |-> at, by |-> b, counted |-> 0, typed |-> 0, asked |-> password,
      sid |-> IF live THEN jar[b].sid ELSE NoSid,
      cred |-> IF live THEN rows[jar[b].sid] ELSE 0,
      bare |-> jar[b].secret = NoSecret,
      secret |-> IF mint # NoSecret THEN mint ELSE jar[b].secret,
      mint |-> mint]

(* csrfToken renews the cookie it read. *)
MintFor_Renews(b) == IF jar[b].secret = NoSecret THEN secrets + 1 ELSE jar[b].secret
MintFor(b) == IF jar[b].secret = NoSecret THEN secrets + 1 ELSE NoSecret

(* Any page: it reads no more than the session. *)
GetPage(r, b) ==
  /\ At(r, "idle") /\ asked.pages < MaxPages
  /\ asked' = [asked EXCEPT !.pages = @ + 1]
  /\ Goes(r, RequestOf(b, "saving", MintFor(b)))
  /\ secrets' = IF jar[b].secret = NoSecret THEN secrets + 1 ELSE secrets
  /\ UNCHANGED <<sessionVars, browserVars, limitVars>>

(* A form is posted from an open page; validateCsrf compares its token     *)
(* with the cookie, and lets a logout of this site's own through anyway.   *)
Post(r, b, at, anyToken) ==
  /\ At(r, "idle")
  /\ \E token \in pages[b] :
       Goes(r, IF token = jar[b].secret \/ anyToken THEN RequestOf(b, at, NoSecret)
               ELSE RequestOf(b, "saving", NoSecret))
  /\ UNCHANGED <<sessionVars, browserVars, secrets, limitVars>>

PostAdmin(r, b) ==
  /\ asked.pages < MaxPages /\ asked' = [asked EXCEPT !.pages = @ + 1]
  /\ Post(r, b, "guarded", FALSE)
PostLogout(r, b) ==
  /\ asked.pages < MaxPages /\ asked' = [asked EXCEPT !.pages = @ + 1]
  /\ Post(r, b, "leaving", TRUE)

PostLogin(r, b) ==
  /\ asked.logins < MaxLogins
  /\ asked' = [asked EXCEPT !.logins = @ + 1]
  /\ Post(r, b, "counting", FALSE)

(***************************************************************************)
(* The admin's guards, and a change behind them.                           *)
(***************************************************************************)
(* endSession: a store that fails leaves the session, and the answer is 500. *)
EndSession(sid) == Destroy(sid) \/ UNCHANGED <<rows, ended>>

(* isAuth, and isAdmin up to its lookup of the account. *)
Guard(r) ==
  /\ At(r, "guarded")
  /\ IF req[r].sid = NoSid
     THEN Goes(r, Refusal(r)) /\ UNCHANGED <<rows, ended>>
     ELSE IF HoldsCredential(req[r].cred)
          THEN Goes(r, To(r, "acting")) /\ UNCHANGED <<rows, ended>>
          ELSE Goes(r, Refusal(r)) /\ EndSession(req[r].sid)
  /\ UNCHANGED <<password, minted, browserVars, secrets, limitVars, asked>>

(* The change behind the guard with its message and redirectWithFlash; for *)
(* anything else, express-session on its way out.  The answer of a session *)
(* that was restored never carries its id.                                 *)
SaveOut(r) ==
  /\ At(r, "acting") \/ At(r, "saving")
  /\ rows' = IF req[r].sid = NoSid THEN rows ELSE Set(req[r].sid, req[r].cred, TRUE)
  /\ Goes(r, Answer(r, TRUE, NoSid, req[r].mint))
  /\ UNCHANGED <<password, minted, ended, browserVars, secrets, limitVars, asked>>

Leave(r) ==
  /\ At(r, "leaving")
  /\ Goes(r, Refusal(r))
  /\ EndSession(req[r].sid)
  /\ UNCHANGED <<password, minted, browserVars, secrets, limitVars, asked>>

(***************************************************************************)
(* Signing in.                                                             *)
(***************************************************************************)
(* increment(): one statement, which starts a new window in place of an    *)
(* expired one.  A count past the limit is answered with 429.              *)
Count(r, typed) ==
  /\ At(r, "counting")
  /\ LET n == IF hits.open THEN hits.n + 1 ELSE 1
     IN /\ hits' = [n |-> n, open |-> TRUE]
        /\ window' = IF hits.open THEN window ELSE window + 1
        /\ guesses' = IF hits.open THEN guesses ELSE 0
        /\ strays' = IF hits.open THEN strays ELSE 0
        /\ Goes(r, IF n > Limit THEN Refusal(r)
                   ELSE [To(r, "looking") EXCEPT !.counted = window', !.typed = typed])
  /\ UNCHANGED <<sessionVars, browserVars, secrets, asked>>

(* accountOf: the hash as it is now. *)
Look(r) ==
  /\ At(r, "looking")
  /\ Goes(r, [To(r, "checking") EXCEPT !.cred = password])
  /\ UNCHANGED <<sessionVars, browserVars, secrets, limitVars, asked>>

(* 401 for a wrong password; 503 when too many are being hashed. *)
Rejected(r) ==
  /\ At(r, "checking")
  /\ Goes(r, Refusal(r))
  /\ \/ /\ req[r].typed # req[r].cred
        /\ guesses' = IF req[r].counted = window THEN guesses + 1 ELSE guesses
     \/ UNCHANGED guesses
  /\ UNCHANGED <<sessionVars, browserVars, secrets, hits, window, strays, asked>>

(* The password is right: regenerate() ends the session the request came   *)
(* with and mints an id; issueCsrfSecret mints a secret.                   *)
Regenerate(r) ==
  /\ At(r, "checking") /\ req[r].typed = req[r].cred /\ minted < MaxSids
  /\ Destroy(req[r].sid)
  /\ minted' = minted + 1 /\ secrets' = secrets + 1
  /\ Goes(r, [To(r, "storing") EXCEPT !.sid = minted', !.mint = secrets',
                                      !.secret = secrets'])
  /\ UNCHANGED <<password, browserVars, limitVars, asked>>

(* The answer waits for the new session's row. *)
StoreLogin(r) ==
  /\ At(r, "storing")
  /\ rows' = Set(req[r].sid, req[r].cred, FALSE)
  /\ Goes(r, Answer(r, TRUE, req[r].sid, req[r].mint))
  /\ UNCHANGED <<password, minted, ended, browserVars, secrets, limitVars, asked>>

(* The save fails: a 500 that still carries both cookies, and              *)
(* express-session saves once more on its way out, which may work.         *)
StoreLoginFails(r) ==
  /\ At(r, "storing")
  /\ rows' \in {rows, Set(req[r].sid, req[r].cred, FALSE)}
  /\ Goes(r, Answer(r, FALSE, req[r].sid, req[r].mint))
  /\ UNCHANGED <<password, minted, ended, browserVars, secrets, limitVars, asked>>

(* The answer arrives. *)
Arrive(r) ==
  /\ At(r, "answered") /\ ~req[r].seen
  /\ LET a == req[r]
         b == a.by
         got == [sid |-> IF a.sid = NoSid THEN jar[b].sid ELSE a.sid,
                 secret |-> IF a.secret = NoSecret THEN jar[b].secret ELSE a.secret]
     IN /\ jar' = [jar EXCEPT ![b] = got]
        /\ pages' = [pages EXCEPT ![b] = @ \cup ({a.token} \ {NoSecret})]
        /\ newest' = IF a.sid = NoSid THEN newest
                     ELSE [newest EXCEPT ![b] = [sid |-> a.sid, secret |-> a.secret, ok |-> a.ok]]
        /\ raced' = IF a.sid # NoSid THEN raced \ {b}
                    ELSE IF a.bare /\ a.secret # NoSecret /\ jar[b].secret # NoSecret
                    THEN raced \cup {b} ELSE raced
  /\ Goes(r, [req[r] EXCEPT !.seen = TRUE])
  /\ UNCHANGED <<sessionVars, secrets, limitVars, asked>>

(* A sign-in of any outcome is given back. *)
GivenBack_Always(r) == req[r].counted > 0
(* Only one that was answered with success. *)
GivenBack(r) == req[r].counted > 0 /\ req[r].ok

(* decrement(), once the answer is sent: it finds only an open window, and *)
(* a store that fails is logged and no more.                               *)
Refund(r) ==
  /\ At(r, "answered") /\ GivenBack(r)
  /\ \/ /\ hits.open /\ hits.n > 0
        /\ hits' = [hits EXCEPT !.n = @ - 1]
        /\ strays' = IF req[r].counted # window THEN strays + 1 ELSE strays
     \/ UNCHANGED <<hits, strays>>
  /\ Goes(r, [req[r] EXCEPT !.counted = 0])
  /\ UNCHANGED <<sessionVars, browserVars, secrets, window, guesses, asked>>

Done(r) ==
  /\ At(r, "answered") /\ req[r].seen /\ ~GivenBack(r)
  /\ Goes(r, Idle)
  /\ UNCHANGED <<sessionVars, browserVars, secrets, limitVars, asked>>

WindowEnds ==
  /\ hits.open
  /\ hits' = [hits EXCEPT !.open = FALSE]
  /\ UNCHANGED <<sessionVars, browserVars, req, secrets, window, guesses, strays, asked>>

(* The account's owner or an operator, away from any of these requests. *)
Elsewhere == (Expires \/ Reset) /\ UNCHANGED <<browserVars, req, secrets, limitVars, asked>>

Login(r) ==
  \/ \E typed \in {password, password - 1} : Count(r, typed)
  \/ Look(r) \/ Rejected(r) \/ Regenerate(r) \/ StoreLogin(r) \/ StoreLoginFails(r)

Init ==
  /\ SessionsInit
  /\ jar = [b \in Browsers |-> [sid |-> NoSid, secret |-> NoSecret]]
  /\ pages = [b \in Browsers |-> {}]
  /\ newest = [b \in Browsers |-> [sid |-> NoSid, secret |-> NoSecret, ok |-> FALSE]]
  /\ raced = {}
  /\ req = [r \in Reqs |-> Idle] /\ secrets = 0
  /\ hits = [n |-> 0, open |-> FALSE] /\ window = 0 /\ guesses = 0 /\ strays = 0
  /\ asked = [pages |-> 0, logins |-> 0]

Next ==
  \/ \E r \in Reqs :
       \/ \E b \in Browsers :
            GetPage(r, b) \/ PostAdmin(r, b) \/ PostLogout(r, b) \/ PostLogin(r, b)
       \/ Guard(r) \/ SaveOut(r) \/ Leave(r)
       \/ Login(r) \/ Arrive(r) \/ Refund(r) \/ Done(r)
  \/ WindowEnds \/ Elsewhere

Spec == Init /\ [][Next]_vars

Pending == [at : {"saving", "guarded", "acting", "leaving", "counting", "looking",
                  "checking", "storing"},
            by : Browsers, counted : Nat, typed : Nat, asked : Nat, sid : Nat,
            cred : Nat, bare : BOOLEAN, secret : Nat, mint : Nat]
Answered == [at : {"answered"}, by : Browsers, seen : BOOLEAN, ok : BOOLEAN,
             counted : Nat, sid : Nat, secret : Nat, bare : BOOLEAN, token : Nat]
TypeOK ==
  /\ password \in Nat \ {0} /\ minted \in Nat
  /\ Live \cup ended \subseteq 1..minted
  /\ rows \in [Live -> Nat]
  /\ jar \in [Browsers -> [sid : Nat, secret : Nat]]
  /\ pages \in [Browsers -> SUBSET Nat]
  /\ newest \in [Browsers -> [sid : Nat, secret : Nat, ok : BOOLEAN]]
  /\ raced \subseteq Browsers
  /\ req \in [Reqs -> {Idle} \cup Pending \cup Answered]
  /\ secrets \in Nat /\ hits \in [n : Nat, open : BOOLEAN]
  /\ window \in Nat /\ guesses \in Nat /\ strays \in Nat
  /\ asked \in [pages : Nat, logins : Nat]

(***************************************************************************)
(* A session that was ended, by signing out, by a reset, by a new sign-in  *)
(* or by the guard, has no row again, whatever requests of it were still   *)
(* under way.                                                              *)
(***************************************************************************)
EndedStaysEnded == ended \cap Live = {}

(***************************************************************************)
(* No request made after a reset acts for a session that was opened with   *)
(* an older password, even one whose sign-in was overtaken by the reset.   *)
(***************************************************************************)
ResetHolds == \A r \in Reqs : At(r, "acting") => req[r].cred >= req[r].asked

(***************************************************************************)
(* A browser keeps the session and the secret of its last sign-in, and the *)
(* session is there when the answer is: no answer of an earlier request,   *)
(* however late, replaces them.  (The answer of a request made before the  *)
(* browser had any secret may replace the secret.)                         *)
(***************************************************************************)
LoginKept ==
  \A b \in Browsers :
    LET last == newest[b]
    IN last.sid # NoSid =>
         /\ jar[b].sid = last.sid
         /\ jar[b].secret = last.secret \/ b \in raced
         /\ last.ok => last.sid \in Live \cup ended

(***************************************************************************)
(* A window lets no more wrong passwords be looked at than its limit, and  *)
(* one more for each hit it gave back for a sign-in of an earlier window.  *)
(***************************************************************************)
GuessesBounded == guesses <= Limit + strays
=============================================================================
