---------------------------- MODULE SignInProofs ----------------------------
(***************************************************************************)
(* Proofs about signing in, for any browsers, requests, limits and bounds. *)
(* A session id is in one of three places: with a sign-in that has not     *)
(* stored it yet, in the table, or among the ended.  Only that sign-in may *)
(* bring it into the table, and it never comes back from the ended.  A     *)
(* browser keeps its last sign-in's cookies, whatever else comes late.     *)
(***************************************************************************)
EXTENDS SignIn, FiniteSetTheorems, TLAPS

Fresh ==
  /\ ended \cap Live = {}
  /\ \A r \in Reqs : At(r, "storing") => req[r].sid \in (1..minted) \ (Live \cup ended)
  /\ \A r, q \in Reqs : At(r, "storing") /\ At(q, "storing") /\ r # q => req[r].sid # req[q].sid
Current ==
  \A r \in Reqs : /\ req[r] \in Pending => req[r].asked <= password
                  /\ At(r, "acting") => req[r].asked <= req[r].cred
IInv == TypeOK /\ Fresh /\ Current

(* What Destroy leaves: a table without the id, which is among the ended   *)
(* if it had been in the table.                                            *)
LEMMA DestroyLeaves ==
  ASSUME NEW sid, Destroy(sid)
  PROVE  /\ Live' = Live \ {sid}
         /\ \A s \in Live' : rows'[s] = rows[s]
         /\ rows' = [s \in Live' |-> rows'[s]]
         /\ ended' = ended \cup ({sid} \cap Live)
  BY DEF Destroy, Without, Live

(* A save of a session that has had a row leaves the ids of the table.     *)
LEMMA SetKeeps ==
  ASSUME NEW sid, NEW cred \in Nat, rows \in [Live -> Nat]
  PROVE  Set(sid, cred, TRUE) \in [Live -> Nat]
  BY DEF Set, Upsert, Live

LEMMA SetAdds ==
  ASSUME NEW sid, NEW cred \in Nat, rows \in [Live -> Nat]
  PROVE  Set(sid, cred, FALSE) \in [Live \cup {sid} -> Nat]
  BY DEF Set, Upsert, Live

(* A request that restores the browser's session is a request.             *)
LEMMA RequestTyped ==
  ASSUME TypeOK, NEW b \in Browsers, NEW mint \in Nat,
         NEW at \in {"saving", "guarded", "leaving", "counting"}
  PROVE  RequestOf(b, at, mint) \in Pending
  BY DEF RequestOf, TypeOK, Pending, Live, NoSid, NoSecret

LEMMA RefusalTyped ==
  ASSUME TypeOK, NEW r \in Reqs, req[r] \in Pending, NEW ok \in BOOLEAN, NEW sid \in Nat, NEW secret \in Nat
  PROVE  Answer(r, ok, sid, secret) \in Answered
  BY DEF Answer, Pending, Answered

LEMMA PendingAt ==
  ASSUME TypeOK, NEW r \in Reqs,
         NEW at \in {"saving", "guarded", "acting", "leaving", "counting", "looking", "checking", "storing"},
         At(r, at)
  PROVE  req[r] \in Pending
  BY DEF TypeOK, At, Idle, Answered

LEMMA AnsweredAt ==
  ASSUME TypeOK, NEW r \in Reqs, At(r, "answered")
  PROVE  req[r] \in Answered
  BY DEF TypeOK, At, Idle, Pending

LEMMA TypeInit == Init => TypeOK
  BY DEF Init, SessionsInit, TypeOK, Live, NoSid, NoSecret, Idle

LEMMA TypePage ==
  ASSUME TypeOK, NEW r \in Reqs, NEW b \in Browsers, GetPage(r, b)
  PROVE  TypeOK'
<1>1. MintFor(b) \in Nat
  BY DEF MintFor, TypeOK, NoSecret
<1>2. RequestOf(b, "saving", MintFor(b)) \in Pending
  BY <1>1, RequestTyped
<1> QED
  BY <1>2 DEF GetPage, TypeOK, Goes, sessionVars, browserVars, limitVars, Live

LEMMA TypePost ==
  ASSUME TypeOK, NEW r \in Reqs, NEW b \in Browsers,
         PostAdmin(r, b) \/ PostLogout(r, b) \/ PostLogin(r, b)
  PROVE  TypeOK'
<1>1. 0 \in Nat /\ NoSecret = 0
  BY DEF NoSecret
<1>2. /\ RequestOf(b, "saving", NoSecret) \in Pending
      /\ RequestOf(b, "guarded", NoSecret) \in Pending
      /\ RequestOf(b, "leaving", NoSecret) \in Pending
      /\ RequestOf(b, "counting", NoSecret) \in Pending
  BY <1>1, RequestTyped
<1>3. req' \in [Reqs -> {Idle} \cup Pending \cup Answered]
  BY <1>2 DEF PostAdmin, PostLogout, PostLogin, Post, Goes, TypeOK
<1>4. asked' \in [pages : Nat, logins : Nat]
  <2>1. asked \in [pages : Nat, logins : Nat]
    BY DEF TypeOK
  <2>2. \/ asked' = [asked EXCEPT !.pages = @ + 1]
        \/ asked' = [asked EXCEPT !.logins = @ + 1]
    BY DEF PostAdmin, PostLogout, PostLogin
  <2> QED
    BY <2>1, <2>2
<1>5. UNCHANGED <<sessionVars, browserVars, secrets, limitVars>>
  BY DEF PostAdmin, PostLogout, PostLogin, Post
<1> QED
  BY <1>3, <1>4, <1>5 DEF TypeOK, sessionVars, browserVars, limitVars, Live

LEMMA TypeEnds ==
  ASSUME TypeOK, NEW sid, EndSession(sid), UNCHANGED minted
  PROVE  (rows \in [Live -> Nat])' /\ (Live \cup ended \subseteq 1..minted)'
<1>1. CASE Destroy(sid)
  BY <1>1, DestroyLeaves DEF TypeOK
<1>2. CASE UNCHANGED <<rows, ended>>
  BY <1>2 DEF TypeOK, Live
<1> QED
  BY <1>1, <1>2 DEF EndSession

LEMMA TypeGuard ==
  ASSUME TypeOK, NEW r \in Reqs, Guard(r) \/ Leave(r)
  PROVE  TypeOK'
<1>1. req[r] \in Pending
  BY PendingAt DEF Guard, Leave
<1>2. Refusal(r) \in Answered
  BY <1>1, RefusalTyped DEF Refusal, NoSid, Pending
<1>3. To(r, "acting") \in Pending
  BY <1>1 DEF To, Pending
<1>4. req' \in [Reqs -> {Idle} \cup Pending \cup Answered]
  BY <1>2, <1>3 DEF Guard, Leave, Goes, TypeOK
<1>5. (rows \in [Live -> Nat])' /\ (Live \cup ended \subseteq 1..minted)'
  <2>1. CASE EndSession(req[r].sid)
    BY <2>1, TypeEnds DEF Guard, Leave
  <2>2. CASE UNCHANGED <<rows, ended>>
    BY <2>2 DEF Guard, Leave, TypeOK, Live
  <2> QED
    BY <2>1, <2>2 DEF Guard, Leave
<1> QED
  BY <1>4, <1>5 DEF Guard, Leave, TypeOK, browserVars, limitVars

LEMMA TypeSave ==
  ASSUME TypeOK, NEW r \in Reqs, SaveOut(r)
  PROVE  TypeOK' /\ Live' = Live
<1>1. req[r] \in Pending
  BY PendingAt DEF SaveOut
<1>2. Answer(r, TRUE, NoSid, req[r].mint) \in Answered
  BY <1>1, RefusalTyped DEF NoSid, Pending
<1>3. req' \in [Reqs -> {Idle} \cup Pending \cup Answered]
  BY <1>2 DEF SaveOut, Goes, TypeOK
<1>4. rows' \in [Live -> Nat]
  BY <1>1, SetKeeps DEF SaveOut, TypeOK, Pending
<1>5. Live' = Live
  BY <1>4 DEF Live
<1> QED
  BY <1>3, <1>4, <1>5 DEF SaveOut, TypeOK, browserVars, limitVars

LEMMA TypeAttempt ==
  ASSUME TypeOK, SignInAssumption, NEW r \in Reqs, NEW typed \in {password, password - 1},
         Count(r, typed) \/ Look(r) \/ Rejected(r)
  PROVE  TypeOK'
<1>1. req[r] \in Pending
  BY PendingAt DEF Count, Look, Rejected
<1>2. Refusal(r) \in Answered
  BY <1>1, RefusalTyped DEF Refusal, NoSid, Pending
<1>3. typed \in Nat /\ password \in Nat
  BY DEF TypeOK
<1>4. UNCHANGED <<sessionVars, browserVars, secrets, asked>>
  BY DEF Count, Look, Rejected
<1>5. hits' \in [n : Nat, open : BOOLEAN] /\ window' \in Nat /\ guesses' \in Nat /\ strays' \in Nat
  <2>1. CASE Count(r, typed)
    <3>1. hits.open \in BOOLEAN /\ hits.n \in Nat /\ window \in Nat /\ guesses \in Nat /\ strays \in Nat
      BY DEF TypeOK
    <3> QED
      BY <2>1, <3>1 DEF Count
  <2>2. CASE Look(r)
    BY <2>2 DEF Look, TypeOK, limitVars
  <2>3. CASE Rejected(r)
    BY <2>3 DEF Rejected, TypeOK
  <2> QED
    BY <2>1, <2>2, <2>3
<1>6. req' \in [Reqs -> {Idle} \cup Pending \cup Answered]
  <2>1. CASE Count(r, typed)
    <3>1. [To(r, "looking") EXCEPT !.counted = window', !.typed = typed] \in Pending
      BY <1>1, <1>3, <1>5 DEF To, Pending
    <3> QED
      BY <2>1, <3>1, <1>2 DEF Count, Goes, TypeOK
  <2>2. CASE Look(r)
    <3>1. [To(r, "checking") EXCEPT !.cred = password] \in Pending
      BY <1>1, <1>3 DEF To, Pending
    <3> QED
      BY <2>2, <3>1 DEF Look, Goes, TypeOK
  <2>3. CASE Rejected(r)
    BY <2>3, <1>2 DEF Rejected, Goes, TypeOK
  <2> QED
    BY <2>1, <2>2, <2>3
<1> QED
  BY <1>4, <1>5, <1>6 DEF TypeOK, sessionVars, browserVars, Live

LEMMA TypeRegenerate ==
  ASSUME TypeOK, NEW r \in Reqs, Regenerate(r)
  PROVE  TypeOK'
<1>1. req[r] \in Pending
  BY PendingAt DEF Regenerate
<1>2. minted' \in Nat /\ minted' = minted + 1 /\ secrets' \in Nat
  BY DEF Regenerate, TypeOK
<1>3. [To(r, "storing") EXCEPT !.sid = minted', !.mint = secrets', !.secret = secrets'] \in Pending
  BY <1>1, <1>2 DEF To, Pending
<1>4. req' \in [Reqs -> {Idle} \cup Pending \cup Answered]
  BY <1>3 DEF Regenerate, Goes, TypeOK
<1>5. (rows \in [Live -> Nat])' /\ (Live \cup ended \subseteq 1..minted)'
  BY <1>2, DestroyLeaves DEF Regenerate, TypeOK
<1> QED
  BY <1>2, <1>4, <1>5 DEF Regenerate, TypeOK, browserVars, limitVars

(* With an invariant that keeps a stored id among the minted ones.         *)
LEMMA TypeStore ==
  ASSUME TypeOK, NEW r \in Reqs, StoreLogin(r) \/ StoreLoginFails(r), req[r].sid \in 1..minted
  PROVE  TypeOK' /\ Live' \in {Live, Live \cup {req[r].sid}}
<1>1. req[r] \in Pending
  BY PendingAt DEF StoreLogin, StoreLoginFails
<1>2. Answer(r, TRUE, req[r].sid, req[r].mint) \in Answered /\ Answer(r, FALSE, req[r].sid, req[r].mint) \in Answered
  BY <1>1, RefusalTyped DEF Pending
<1>3. req' \in [Reqs -> {Idle} \cup Pending \cup Answered]
  BY <1>2 DEF StoreLogin, StoreLoginFails, Goes, TypeOK
<1>4. rows' \in [Live -> Nat] \cup [Live \cup {req[r].sid} -> Nat]
  <2>1. req[r].cred \in Nat /\ rows \in [Live -> Nat]
    BY <1>1 DEF Pending, TypeOK
  <2>2. Set(req[r].sid, req[r].cred, FALSE) \in [Live \cup {req[r].sid} -> Nat]
    BY <2>1, SetAdds
  <2> QED
    BY <2>1, <2>2 DEF StoreLogin, StoreLoginFails
<1>5. Live' \in {Live, Live \cup {req[r].sid}} /\ rows' \in [Live' -> Nat]
  BY <1>4 DEF Live
<1>6. UNCHANGED <<password, minted, ended, browserVars, secrets, limitVars, asked>>
  BY DEF StoreLogin, StoreLoginFails
<1> QED
  BY <1>3, <1>5, <1>6 DEF TypeOK, browserVars, limitVars

LEMMA TypeAnswer ==
  ASSUME TypeOK, NEW r \in Reqs, Arrive(r) \/ Refund(r) \/ Done(r)
  PROVE  TypeOK'
<1>1. req[r] \in Answered
  BY AnsweredAt DEF Arrive, Refund, Done
<1>2. CASE Arrive(r)
  <2>1. [req[r] EXCEPT !.seen = TRUE] \in Answered
    BY <1>1 DEF Answered
  <2>2. req' \in [Reqs -> {Idle} \cup Pending \cup Answered]
    BY <1>2, <2>1 DEF Arrive, Goes, TypeOK
  <2>3. jar' \in [Browsers -> [sid : Nat, secret : Nat]]
    BY <1>1, <1>2 DEF Arrive, TypeOK, Answered
  <2>4. pages' \in [Browsers -> SUBSET Nat]
    BY <1>1, <1>2 DEF Arrive, TypeOK, Answered
  <2>5. newest' \in [Browsers -> [sid : Nat, secret : Nat, ok : BOOLEAN]]
    BY <1>1, <1>2 DEF Arrive, TypeOK, Answered
  <2>6. raced' \subseteq Browsers
    BY <1>1, <1>2 DEF Arrive, TypeOK, Answered
  <2> QED
    BY <1>2, <2>2, <2>3, <2>4, <2>5, <2>6 DEF Arrive, TypeOK, sessionVars, limitVars, Live
<1>3. CASE Refund(r)
  <2>1. [req[r] EXCEPT !.counted = 0] \in Answered
    BY <1>1 DEF Answered
  <2>2. req' \in [Reqs -> {Idle} \cup Pending \cup Answered]
    BY <1>3, <2>1 DEF Refund, Goes, TypeOK
  <2>3. hits' \in [n : Nat, open : BOOLEAN] /\ strays' \in Nat
    BY <1>3 DEF Refund, TypeOK
  <2> QED
    BY <1>3, <2>2, <2>3 DEF Refund, TypeOK, sessionVars, browserVars, Live
<1>4. CASE Done(r)
  BY <1>4 DEF Done, Goes, TypeOK, sessionVars, browserVars, limitVars, Live
<1> QED
  BY <1>2, <1>3, <1>4

LEMMA TypeElsewhere ==
  ASSUME TypeOK, WindowEnds \/ Elsewhere
  PROVE  TypeOK'
<1>1. CASE WindowEnds
  BY <1>1 DEF WindowEnds, TypeOK, sessionVars, browserVars, Live
<1>2. CASE Expires /\ UNCHANGED <<browserVars, req, secrets, limitVars, asked>>
  <2>1. PICK sid \in Live : Destroy(sid)
    BY <1>2 DEF Expires
  <2>2. (rows \in [Live -> Nat])' /\ (Live \cup ended \subseteq 1..minted)'
    BY <1>2, <2>1, DestroyLeaves DEF Expires, TypeOK
  <2> QED
    BY <1>2, <2>2 DEF Expires, TypeOK, browserVars, limitVars
<1>3. CASE Reset /\ UNCHANGED <<browserVars, req, secrets, limitVars, asked>>
  <2>1. (rows \in [Live -> Nat])' /\ (Live \cup ended \subseteq 1..minted)'
    BY <1>3 DEF Reset, Without, Live, TypeOK
  <2> QED
    BY <1>3, <2>1 DEF Reset, TypeOK, browserVars, limitVars
<1> QED
  BY <1>1, <1>2, <1>3 DEF Elsewhere

(* A step of one request that brings no id into storing, mints none and    *)
(* only takes ids out of the table, into the ended.                        *)
LEMMA FreshUnstored ==
  ASSUME TypeOK, Fresh, NEW r \in Reqs, NEW s, Goes(r, s), s.at # "storing", UNCHANGED minted,
         Live' \subseteq Live, ended' \subseteq ended \cup (Live \ Live')
  PROVE  Fresh'
<1>1. \A q \in Reqs : (At(q, "storing"))' => q # r /\ At(q, "storing") /\ req'[q] = req[q]
  BY DEF Goes, TypeOK, At
<1>2. (ended \cap Live)' = {}
  BY DEF Fresh
<1> QED
  BY <1>1, <1>2 DEF Fresh

LEMMA FreshRest ==
  ASSUME TypeOK, Fresh, UNCHANGED <<req, minted>>,
         Live' \subseteq Live, ended' \subseteq ended \cup (Live \ Live')
  PROVE  Fresh'
  BY DEF Fresh, At

LEMMA EndsOnly ==
  ASSUME NEW sid, EndSession(sid)
  PROVE  Live' \subseteq Live /\ ended' \subseteq ended \cup (Live \ Live')
<1>1. CASE Destroy(sid)
  BY <1>1, DestroyLeaves
<1>2. CASE UNCHANGED <<rows, ended>>
  BY <1>2 DEF Live
<1> QED
  BY <1>1, <1>2 DEF EndSession

LEMMA FreshRegenerate ==
  ASSUME TypeOK, Fresh, NEW r \in Reqs, Regenerate(r)
  PROVE  Fresh'
<1>1. minted \in Nat /\ minted' = minted + 1
  BY DEF Regenerate, TypeOK
<1>2. Live' \subseteq Live /\ ended' \subseteq ended \cup Live /\ (ended \cap Live)' = {}
  BY DestroyLeaves DEF Regenerate, Fresh
<1>3. Live \cup ended \subseteq 1..minted
  BY DEF TypeOK
<1>4. req[r] \in Pending
  BY PendingAt DEF Regenerate
<1>5. req'[r].sid = minted' /\ \A q \in Reqs : q # r => req'[q] = req[q]
  BY <1>4 DEF Regenerate, Goes, TypeOK, To, Pending
<1>6. \A q \in Reqs : q # r /\ (At(q, "storing"))' => req'[q].sid \in (1..minted) \ (Live \cup ended)
  BY <1>5 DEF Fresh, At
<1>7. minted' \in (1..minted') \ (Live' \cup ended') /\ minted' \notin 1..minted
  BY <1>1, <1>2, <1>3
<1>8. \A q \in Reqs : q # r /\ (At(q, "storing"))' => req'[q].sid \in (1..minted') \ (Live' \cup ended')
  <2> SUFFICES ASSUME NEW q \in Reqs, q # r, (At(q, "storing"))'
               PROVE  req'[q].sid \in (1..minted') \ (Live' \cup ended')
    OBVIOUS
  <2>1. At(q, "storing") /\ req'[q].sid = req[q].sid
    BY <1>5 DEF At
  <2>2. req[q].sid \in (1..minted) \ (Live \cup ended)
    BY <2>1 DEF Fresh
  <2>3. ended' = ended \cup ({req[r].sid} \cap Live)
    BY DestroyLeaves DEF Regenerate
  <2> QED
    BY <2>1, <2>2, <2>3, <1>1, <1>2
<1>9. \A p, q \in Reqs : (At(p, "storing"))' /\ (At(q, "storing"))' /\ p # q => req'[p].sid # req'[q].sid
  BY <1>5, <1>6, <1>7 DEF Fresh, At
<1> QED
  BY <1>2, <1>5, <1>7, <1>8, <1>9 DEF Fresh

(* The one step that brings an id into the table: it was with this         *)
(* sign-in alone.                                                          *)
LEMMA FreshStore ==
  ASSUME TypeOK, Fresh, NEW r \in Reqs, StoreLogin(r) \/ StoreLoginFails(r)
  PROVE  Fresh' /\ TypeOK'
<1>1. At(r, "storing")
  BY DEF StoreLogin, StoreLoginFails
<1>2. req[r].sid \in (1..minted) \ (Live \cup ended)
  BY <1>1 DEF Fresh
<1>3. TypeOK' /\ Live' \in {Live, Live \cup {req[r].sid}}
  BY <1>2, TypeStore
<1>4. UNCHANGED <<minted, ended>>
  BY DEF StoreLogin, StoreLoginFails
<1>5. \A q \in Reqs : (At(q, "storing"))' => q # r /\ At(q, "storing") /\ req'[q] = req[q]
  <2>1. PICK ok \in BOOLEAN : Goes(r, Answer(r, ok, req[r].sid, req[r].mint))
    BY DEF StoreLogin, StoreLoginFails
  <2>2. req'[r].at = "answered" /\ \A q \in Reqs : q # r => req'[q] = req[q]
    BY <2>1 DEF Goes, TypeOK, Answer
  <2> QED
    BY <2>2 DEF At
<1>6. \A q \in Reqs : (At(q, "storing"))' => req'[q].sid \in (1..minted') \ (Live' \cup ended')
  BY <1>1, <1>3, <1>4, <1>5 DEF Fresh
<1> QED
  BY <1>2, <1>3, <1>4, <1>5, <1>6 DEF Fresh

(* What a step makes of the requests' own facts: the password only grows.  *)
LEMMA CurrentStep ==
  ASSUME TypeOK, Current, NEW r \in Reqs, NEW s, Goes(r, s), UNCHANGED password,
         s \in Pending => s.asked <= password,
         s.at = "acting" => s.asked <= s.cred
  PROVE  Current'
<1>1. req'[r] = s /\ \A q \in Reqs : q # r => req'[q] = req[q]
  BY DEF Goes, TypeOK
<1> QED
  BY <1>1 DEF Current, At

LEMMA CurrentRest ==
  ASSUME TypeOK, Current, UNCHANGED req, password' \in Nat, password <= password'
  PROVE  Current'
<1>1. \A r \in Reqs : req[r] \in Pending => req[r].asked \in Nat
  BY DEF Pending
<1>2. password \in Nat
  BY DEF TypeOK
<1> QED
  BY <1>1, <1>2 DEF Current, At

LEMMA AnswerFacts ==
  ASSUME NEW r \in Reqs, NEW ok, NEW sid, NEW secret
  PROVE  /\ Answer(r, ok, sid, secret).at = "answered" /\ Refusal(r).at = "answered"
         /\ Answer(r, ok, sid, secret) \notin Pending /\ Refusal(r) \notin Pending
  BY DEF Answer, Refusal, Pending

LEMMA RequestFacts ==
  ASSUME NEW b \in Browsers, NEW at, NEW mint
  PROVE  RequestOf(b, at, mint).at = at /\ RequestOf(b, at, mint).asked = password
  BY DEF RequestOf

(* Every step keeps the invariant.                                         *)
LEMMA InvNext ==
  ASSUME SignInAssumption, IInv, [Next]_vars
  PROVE  IInv'
<1> USE DEF IInv
<1>0. password \in Nat
  BY DEF TypeOK
<1>1. ASSUME NEW r \in Reqs, NEW b \in Browsers, GetPage(r, b)
      PROVE  IInv'
  <2>1. TypeOK'
    BY <1>1, TypePage
  <2>2. PICK s : s = RequestOf(b, "saving", MintFor(b)) /\ Goes(r, s)
    BY <1>1 DEF GetPage
  <2>3. s.at = "saving" /\ s.asked = password
    BY <2>2, RequestFacts
  <2>4. UNCHANGED <<password, minted, rows, ended>> /\ Live' = Live
    BY <1>1 DEF GetPage, sessionVars, Live
  <2>5. Fresh'
    BY <2>2, <2>3, <2>4, FreshUnstored
  <2>6. Current'
    BY <1>0, <2>2, <2>3, <2>4, CurrentStep
  <2> QED
    BY <2>1, <2>5, <2>6
<1>2. ASSUME NEW r \in Reqs, NEW b \in Browsers, PostAdmin(r, b) \/ PostLogout(r, b) \/ PostLogin(r, b)
      PROVE  IInv'
  <2>1. TypeOK'
    BY <1>2, TypePost
  <2>a. PICK to \in {"saving", "guarded", "leaving", "counting"} : Goes(r, RequestOf(b, to, NoSecret))
    <3>1. PICK at \in {"guarded", "leaving", "counting"}, anyToken \in BOOLEAN : Post(r, b, at, anyToken)
      BY <1>2 DEF PostAdmin, PostLogout, PostLogin
    <3>2. PICK token \in pages[b] :
             Goes(r, IF token = jar[b].secret \/ anyToken THEN RequestOf(b, at, NoSecret)
                     ELSE RequestOf(b, "saving", NoSecret))
      BY <3>1 DEF Post
    <3>3. PICK at2 \in {at, "saving"} : Goes(r, RequestOf(b, at2, NoSecret))
      BY <3>2
    <3>4. at2 \in {"saving", "guarded", "leaving", "counting"}
      BY <3>1, <3>3
    <3> QED
      BY <3>3, <3>4
  <2>2. PICK s : s = RequestOf(b, to, NoSecret) /\ Goes(r, s)
    BY <2>a
  <2>3. s.at \notin {"storing", "acting"} /\ s.asked = password
    BY <2>a, <2>2, RequestFacts
  <2>4. UNCHANGED <<password, minted, rows, ended>> /\ Live' = Live
    BY <1>2 DEF PostAdmin, PostLogout, PostLogin, Post, sessionVars, Live
  <2>5. Fresh'
    BY <2>2, <2>3, <2>4, FreshUnstored
  <2>6. Current'
    BY <1>0, <2>2, <2>3, <2>4, CurrentStep
  <2> QED
    BY <2>1, <2>5, <2>6
<1>3. ASSUME NEW r \in Reqs, Guard(r)
      PROVE  IInv'
  <2>1. TypeOK'
    BY <1>3, TypeGuard
  <2>2. req[r] \in Pending /\ At(r, "guarded")
    BY <1>3, PendingAt DEF Guard
  <2>3. CASE Goes(r, Refusal(r)) /\ (EndSession(req[r].sid) \/ UNCHANGED <<rows, ended>>)
    <3>1. Live' \subseteq Live /\ ended' \subseteq ended \cup (Live \ Live')
      BY <2>3, EndsOnly DEF Live
    <3>2. UNCHANGED <<password, minted>>
      BY <1>3 DEF Guard
    <3>3. Refusal(r).at = "answered" /\ Refusal(r) \notin Pending
      BY AnswerFacts
    <3> QED
      BY <2>1, <2>3, <3>1, <3>2, <3>3, FreshUnstored, CurrentStep
  <2>4. CASE Goes(r, To(r, "acting")) /\ req[r].cred = password /\ UNCHANGED <<rows, ended>>
    <3>1. To(r, "acting").at = "acting" /\ To(r, "acting").asked = req[r].asked /\ To(r, "acting").cred = password
      BY <2>2, <2>4 DEF To, Pending
    <3>2. req[r].asked <= password
      BY <2>2 DEF Current
    <3>3. UNCHANGED <<password, minted>> /\ Live' = Live
      BY <1>3, <2>4 DEF Guard, Live
    <3> QED
      BY <2>1, <2>4, <3>1, <3>2, <3>3, FreshUnstored, CurrentStep
  <2> QED
    BY <1>3, <2>3, <2>4 DEF Guard, HoldsCredential
<1>4. ASSUME NEW r \in Reqs, SaveOut(r)
      PROVE  IInv'
  <2>1. TypeOK' /\ Live' = Live
    BY <1>4, TypeSave
  <2>2. UNCHANGED <<password, minted, ended>> /\ Goes(r, Answer(r, TRUE, NoSid, req[r].mint))
    BY <1>4 DEF SaveOut
  <2>3. Answer(r, TRUE, NoSid, req[r].mint).at = "answered" /\ Answer(r, TRUE, NoSid, req[r].mint) \notin Pending
    BY AnswerFacts
  <2> QED
    BY <2>1, <2>2, <2>3, FreshUnstored, CurrentStep
<1>5. ASSUME NEW r \in Reqs, Leave(r)
      PROVE  IInv'
  <2>1. TypeOK'
    BY <1>5, TypeGuard
  <2>2. Live' \subseteq Live /\ ended' \subseteq ended \cup (Live \ Live')
    BY <1>5, EndsOnly DEF Leave
  <2>3. UNCHANGED <<password, minted>> /\ Goes(r, Refusal(r))
    BY <1>5 DEF Leave
  <2>4. Refusal(r).at = "answered" /\ Refusal(r) \notin Pending
    BY AnswerFacts
  <2> QED
    BY <2>1, <2>2, <2>3, <2>4, FreshUnstored, CurrentStep
<1>6. ASSUME NEW r \in Reqs, NEW typed \in {password, password - 1}, Count(r, typed) \/ Look(r) \/ Rejected(r)
      PROVE  IInv'
  <2>1. TypeOK'
    BY <1>6, TypeAttempt
  <2>2. req[r] \in Pending
    BY <1>6, PendingAt DEF Count, Look, Rejected
  <2>3. UNCHANGED <<password, minted, rows, ended>> /\ Live' = Live
    BY <1>6 DEF Count, Look, Rejected, sessionVars, Live
  <2>4. PICK s : /\ Goes(r, s)
                 /\ \/ s = Refusal(r)
                    \/ s = [To(r, "looking") EXCEPT !.counted = window', !.typed = typed]
                    \/ s = [To(r, "checking") EXCEPT !.cred = password]
    <3>1. CASE Count(r, typed)
      BY <3>1 DEF Count
    <3>2. CASE Look(r)
      BY <3>2 DEF Look
    <3>3. CASE Rejected(r)
      BY <3>3 DEF Rejected
    <3> QED
      BY <1>6, <3>1, <3>2, <3>3
  <2>5. s.at \notin {"storing", "acting"} /\ (s \in Pending => s.asked = req[r].asked)
    BY <2>2, <2>4, AnswerFacts DEF To, Pending
  <2>6. req[r].asked <= password
    BY <2>2 DEF Current
  <2>7. Goes(r, s)
    BY <2>4
  <2>8. Fresh'
    BY <2>3, <2>5, <2>7, FreshUnstored
  <2>9. Current'
    <3>1. (s \in Pending => s.asked <= password) /\ s.at # "acting" /\ UNCHANGED password
      BY <2>3, <2>5, <2>6
    <3> QED
      BY <2>7, <3>1, CurrentStep
  <2> QED
    BY <2>1, <2>8, <2>9
<1>7. ASSUME NEW r \in Reqs, Regenerate(r)
      PROVE  IInv'
  <2>1. TypeOK' /\ Fresh'
    BY <1>7, TypeRegenerate, FreshRegenerate
  <2>2. req[r] \in Pending
    BY <1>7, PendingAt DEF Regenerate
  <2>3. PICK s : Goes(r, s) /\ s = [To(r, "storing") EXCEPT !.sid = minted', !.mint = secrets', !.secret = secrets']
    BY <1>7 DEF Regenerate
  <2>4. s.at = "storing" /\ s.asked = req[r].asked
    BY <2>2, <2>3 DEF To, Pending
  <2>5. req[r].asked <= password /\ UNCHANGED password
    BY <1>7, <2>2 DEF Current, Regenerate
  <2>6. Current'
    BY <2>3, <2>4, <2>5, CurrentStep
  <2> QED
    BY <2>1, <2>6
<1>8. ASSUME NEW r \in Reqs, StoreLogin(r) \/ StoreLoginFails(r)
      PROVE  IInv'
  <2>1. TypeOK' /\ Fresh'
    BY <1>8, FreshStore
  <2>2. PICK s : Goes(r, s) /\ s.at = "answered" /\ s \notin Pending
    BY <1>8, AnswerFacts DEF StoreLogin, StoreLoginFails
  <2>3. UNCHANGED password
    BY <1>8 DEF StoreLogin, StoreLoginFails
  <2> QED
    BY <2>1, <2>2, <2>3, CurrentStep
<1>9. ASSUME NEW r \in Reqs, Arrive(r) \/ Refund(r) \/ Done(r)
      PROVE  IInv'
  <2>1. TypeOK'
    BY <1>9, TypeAnswer
  <2>2. req[r] \in Answered
    BY <1>9, AnsweredAt DEF Arrive, Refund, Done
  <2>3. PICK s : Goes(r, s) /\ s \in {Idle, [req[r] EXCEPT !.seen = TRUE], [req[r] EXCEPT !.counted = 0]}
    BY <1>9 DEF Arrive, Refund, Done
  <2>4. s.at \in {"idle", "answered"}
    BY <2>2, <2>3 DEF Idle, Answered
  <2>5. s \notin Pending
    BY <2>4 DEF Pending
  <2>6. UNCHANGED <<password, minted, rows, ended>> /\ Live' = Live
    BY <1>9 DEF Arrive, Refund, Done, sessionVars, Live
  <2> QED
    BY <2>1, <2>3, <2>4, <2>5, <2>6, FreshUnstored, CurrentStep
<1>10. ASSUME WindowEnds \/ Elsewhere
       PROVE  IInv'
  <2>1. TypeOK'
    BY <1>10, TypeElsewhere
  <2>2. /\ UNCHANGED <<req, minted>> /\ password' \in Nat /\ password <= password'
        /\ Live' \subseteq Live /\ ended' \subseteq ended \cup (Live \ Live')
    <3>1. CASE WindowEnds
      BY <1>0, <3>1 DEF WindowEnds, sessionVars, Live
    <3>2. CASE Expires /\ UNCHANGED <<browserVars, req, secrets, limitVars, asked>>
      BY <1>0, <3>2, DestroyLeaves DEF Expires
    <3>3. CASE Reset /\ UNCHANGED <<browserVars, req, secrets, limitVars, asked>>
      BY <1>0, <3>3 DEF Reset, Without, Live
    <3> QED
      BY <1>10, <3>1, <3>2, <3>3 DEF Elsewhere
  <2> QED
    BY <2>1, <2>2, FreshRest, CurrentRest
<1>11. CASE UNCHANGED vars
  <2>1. UNCHANGED <<sessionVars, browserVars, req, secrets, limitVars, asked>>
    BY <1>11 DEF vars
  <2>2. TypeOK'
    BY <2>1 DEF TypeOK, sessionVars, browserVars, limitVars, Live
  <2>3. Fresh' /\ Current'
    BY <2>1 DEF Fresh, Current, At, sessionVars, Live
  <2> QED
    BY <2>2, <2>3
<1> QED
  BY <1>1, <1>2, <1>3, <1>4, <1>5, <1>6, <1>7, <1>8, <1>9, <1>10, <1>11 DEF Next, Login

LEMMA InvInit == Init => IInv
<1> SUFFICES ASSUME Init PROVE IInv
  OBVIOUS
<1>1. TypeOK
  BY TypeInit
<1>2. Fresh /\ Current
  BY DEF Init, SessionsInit, Fresh, Current, At, Idle, Pending, Live
<1> QED
  BY <1>1, <1>2 DEF IInv

(* The inductive invariant holds in every state of the sign-ins: no id is  *)
(* stored twice, and what acts was opened with the present password.       *)
THEOREM Invariant == Spec => []IInv
<1>1. Init => IInv
  BY InvInit
<1>2. IInv /\ [Next]_vars => IInv'
  BY InvNext, SignInAssumption
<1> QED
  BY <1>1, <1>2, PTL DEF Spec

(* The variables of sign-in keep their types: utils/session-store.ts,      *)
(* routes/auth.ts and middlewares/csrf.ts.                                 *)
THEOREM SignInTyped == Spec => []TypeOK
<1>1. IInv => TypeOK
  BY DEF IInv
<1> QED
  BY <1>1, Invariant, PTL

(* The sessions the store's destroy() or a reset has ended have no row     *)
(* again, for any number of requests under way: utils/session-store.ts.    *)
THEOREM EndedStaysEndedCorrect == Spec => []EndedStaysEnded
<1>1. IInv => EndedStaysEnded
  BY DEF IInv, Fresh, EndedStaysEnded
<1> QED
  BY <1>1, Invariant, PTL

(* No request made after a reset acts for a session of an older password:  *)
(* middlewares/is-admin.ts.                                                *)
THEOREM ResetHoldsCorrect == Spec => []ResetHolds
<1>1. IInv => ResetHolds
  <2> SUFFICES ASSUME IInv, NEW r \in Reqs, At(r, "acting") PROVE req[r].cred >= req[r].asked
    BY DEF ResetHolds
  <2>1. req[r] \in Pending
    BY PendingAt DEF IInv
  <2>2. req[r].asked <= req[r].cred /\ req[r].asked \in Nat /\ req[r].cred \in Nat
    BY <2>1 DEF IInv, Current, Pending
  <2> QED
    BY <2>2
<1> QED
  BY <1>1, Invariant, PTL

(***************************************************************************)
(* The last sign-in's cookies.  An answer carries an id only with a secret *)
(* beside it, a secret alone only to a browser that had none when it       *)
(* asked, and the id of a sign-in that succeeded has had its row.  With    *)
(* that, whichever answer comes last replaces both cookies, neither, or    *)
(* the secret of a browser that was without one.                           *)
(***************************************************************************)
Whole(s, known) ==
  /\ s \in Pending =>
       IF s.at = "storing" THEN s.sid # NoSid /\ s.mint # NoSecret
       ELSE s.mint # NoSecret => s.bare
  /\ s \in Answered =>
       IF s.sid = NoSid THEN s.secret # NoSecret => s.bare
       ELSE s.secret # NoSecret /\ (s.ok => s.sid \in known)
HasSecret == \A b \in Browsers : newest[b].sid # NoSid => jar[b].secret # NoSecret
LoginInv == (\A r \in Reqs : Whole(req[r], Live \cup ended)) /\ HasSecret /\ LoginKept

LEMMA WholeLater ==
  ASSUME NEW s, NEW known, NEW later, known \subseteq later, Whole(s, known)
  PROVE  Whole(s, later)
  BY DEF Whole

(* A session that had a row has one or is ended.                           *)
LEMMA Remembered ==
  ASSUME SignInAssumption, IInv, [Next]_vars
  PROVE  Live \cup ended \subseteq Live' \cup ended'
<1>1. ASSUME NEW sid, EndSession(sid) PROVE Live \cup ended \subseteq Live' \cup ended'
  BY <1>1, DestroyLeaves DEF EndSession, Live
<1>2. ASSUME UNCHANGED sessionVars PROVE Live \cup ended \subseteq Live' \cup ended'
  BY <1>2 DEF sessionVars, Live
<1>3. ASSUME NEW r \in Reqs, Guard(r) \/ Leave(r) PROVE Live \cup ended \subseteq Live' \cup ended'
  BY <1>1, <1>3 DEF Guard, Leave, Live
<1>4. ASSUME NEW r \in Reqs, SaveOut(r) PROVE Live \cup ended \subseteq Live' \cup ended'
  BY <1>4, TypeSave DEF IInv, SaveOut
<1>5. ASSUME NEW r \in Reqs, StoreLogin(r) \/ StoreLoginFails(r)
      PROVE  Live \cup ended \subseteq Live' \cup ended'
  <2>1. req[r].sid \in 1..minted BY <1>5 DEF IInv, Fresh, StoreLogin, StoreLoginFails
  <2>2. Live' \in {Live, Live \cup {req[r].sid}} BY <1>5, <2>1, TypeStore DEF IInv
  <2>. QED BY <1>5, <2>2 DEF StoreLogin, StoreLoginFails
<1>6. ASSUME NEW r \in Reqs, Regenerate(r) PROVE Live \cup ended \subseteq Live' \cup ended'
  BY <1>6, DestroyLeaves DEF Regenerate
<1>7. ASSUME Elsewhere PROVE Live \cup ended \subseteq Live' \cup ended'
  <2>1. CASE Expires BY <2>1, DestroyLeaves DEF Expires
  <2>2. CASE Reset BY <2>2 DEF Reset
  <2>. QED BY <1>7, <2>1, <2>2 DEF Elsewhere
<1>8. ASSUME NEW r \in Reqs, NEW b \in Browsers,
             GetPage(r, b) \/ PostAdmin(r, b) \/ PostLogout(r, b) \/ PostLogin(r, b)
      PROVE  Live \cup ended \subseteq Live' \cup ended'
  BY <1>2, <1>8 DEF GetPage, PostAdmin, PostLogout, PostLogin, Post
<1>9. ASSUME NEW r \in Reqs, NEW typed, Count(r, typed) \/ Look(r) \/ Rejected(r)
      PROVE  Live \cup ended \subseteq Live' \cup ended'
  BY <1>2, <1>9 DEF Count, Look, Rejected
<1>10. ASSUME NEW r \in Reqs, Arrive(r) \/ Refund(r) \/ Done(r)
       PROVE  Live \cup ended \subseteq Live' \cup ended'
  BY <1>2, <1>10 DEF Arrive, Refund, Done
<1>11. ASSUME WindowEnds \/ UNCHANGED vars PROVE Live \cup ended \subseteq Live' \cup ended'
  BY <1>2, <1>11 DEF WindowEnds, vars
<1>. QED
  BY <1>3, <1>4, <1>5, <1>6, <1>7, <1>8, <1>9, <1>10, <1>11 DEF Next, Login

(* A step in which no answer arrives leaves the browsers as they are.      *)
LEMMA NoAnswer ==
  ASSUME TypeOK, LoginInv, Live \cup ended \subseteq Live' \cup ended',
         UNCHANGED browserVars, \A r \in Reqs : Whole(req'[r], Live' \cup ended')
  PROVE  LoginInv'
<1>1. jar' = jar /\ newest' = newest /\ raced' = raced BY DEF browserVars
<1>2. HasSecret' BY <1>1 DEF LoginInv, HasSecret
<1>3. LoginKept' BY <1>1 DEF LoginInv, LoginKept
<1>. QED BY <1>2, <1>3 DEF LoginInv

LEMMA OneMoves ==
  ASSUME TypeOK, LoginInv, Live \cup ended \subseteq Live' \cup ended',
         NEW r \in Reqs, NEW s, Goes(r, s), UNCHANGED browserVars, Whole(s, Live' \cup ended')
  PROVE  LoginInv'
<1>1. req'[r] = s /\ \A q \in Reqs \ {r} : req'[q] = req[q] BY DEF Goes, TypeOK
<1>2. \A q \in Reqs : Whole(req'[q], Live' \cup ended') BY <1>1, WholeLater DEF LoginInv
<1>. QED BY <1>2, NoAnswer

LEMMA PendingIsNotAnswered == Pending \cap Answered = {} /\ Idle \notin Pending \cup Answered
  BY DEF Pending, Answered, Idle

LEMMA WholeRequest ==
  ASSUME TypeOK, NEW b \in Browsers, NEW mint \in Nat,
         NEW at \in {"saving", "guarded", "leaving", "counting"},
         mint # NoSecret => jar[b].secret = NoSecret
  PROVE  \A known : Whole(RequestOf(b, at, mint), known)
<1>1. RequestOf(b, at, mint) \in Pending BY RequestTyped
<1>2. /\ RequestOf(b, at, mint).at = at /\ RequestOf(b, at, mint).mint = mint
      /\ RequestOf(b, at, mint).bare = (jar[b].secret = NoSecret)
  BY DEF RequestOf
<1>. QED BY <1>1, <1>2, PendingIsNotAnswered DEF Whole

(* Any step of a request that signs nobody in.                             *)
LEMMA WholeStep ==
  ASSUME TypeOK, NEW r \in Reqs, NEW known, req[r] \in Pending, req[r].at # "storing",
         Whole(req[r], known)
  PROVE  /\ \A ok : Whole(Answer(r, ok, NoSid, req[r].mint), known)
         /\ Whole(Refusal(r), known)
         /\ \A s \in Pending : s.at # "storing" /\ s.mint = req[r].mint /\ s.bare = req[r].bare
              => Whole(s, known)
<1>1. req[r].mint # NoSecret => req[r].bare BY DEF Whole
<1>2. \A ok : /\ Answer(r, ok, NoSid, req[r].mint).sid = NoSid
              /\ Answer(r, ok, NoSid, req[r].mint).secret = req[r].mint
              /\ Answer(r, ok, NoSid, req[r].mint).bare = req[r].bare
              /\ Answer(r, ok, NoSid, req[r].mint) \notin Pending
  BY AnswerFacts DEF Answer
<1>3. \A ok : Whole(Answer(r, ok, NoSid, req[r].mint), known) BY <1>1, <1>2 DEF Whole
<1>4. \A s \in Pending : s.at # "storing" /\ s.mint = req[r].mint /\ s.bare = req[r].bare
        => Whole(s, known)
  BY <1>1, PendingIsNotAnswered DEF Whole
<1>. QED BY <1>3, <1>4 DEF Refusal

LEMMA Arrives ==
  ASSUME TypeOK, LoginInv, NEW r \in Reqs, Arrive(r)
  PROVE  LoginInv'
<1> DEFINE a == req[r]
<1> DEFINE b == req[r].by
<1> DEFINE s == [req[r] EXCEPT !.seen = TRUE]
<1>1. a \in Answered /\ b \in Browsers BY AnsweredAt DEF Arrive, Answered
<1>2. Goes(r, s) /\ Live' = Live /\ ended' = ended BY DEF Arrive, sessionVars, Live
<1>3. /\ s \in Answered /\ s.sid = a.sid /\ s.secret = a.secret /\ s.bare = a.bare /\ s.ok = a.ok
  BY <1>1 DEF Answered
<1>4. Whole(a, Live \cup ended) BY DEF LoginInv
<1>5. Whole(s, Live \cup ended) BY <1>1, <1>3, <1>4, PendingIsNotAnswered DEF Whole
<1>6. \A q \in Reqs : Whole(req'[q], Live' \cup ended')
  <2>1. req'[r] = s /\ \A q \in Reqs \ {r} : req'[q] = req[q] BY <1>2 DEF Goes, TypeOK
  <2>. QED BY <1>2, <1>5, <2>1 DEF LoginInv
<1>7. /\ jar'[b].sid = IF a.sid = NoSid THEN jar[b].sid ELSE a.sid
      /\ jar'[b].secret = IF a.secret = NoSecret THEN jar[b].secret ELSE a.secret
      /\ \A c \in Browsers \ {b} : jar'[c] = jar[c]
  BY <1>1 DEF Arrive, TypeOK
<1>8. /\ newest'[b] = IF a.sid = NoSid THEN newest[b]
                      ELSE [sid |-> a.sid, secret |-> a.secret, ok |-> a.ok]
      /\ \A c \in Browsers \ {b} : newest'[c] = newest[c]
  BY <1>1 DEF Arrive, TypeOK
<1>9. /\ \A c \in Browsers \ {b} : c \in raced' <=> c \in raced
      /\ a.sid = NoSid => raced \subseteq raced'
      /\ a.sid = NoSid /\ a.bare /\ a.secret # NoSecret /\ jar[b].secret # NoSecret => b \in raced'
  BY <1>1 DEF Arrive
<1> HIDE DEF s
<1>10. ASSUME NEW c \in Browsers \ {b}
       PROVE  /\ newest'[c] = newest[c] /\ jar'[c] = jar[c]
              /\ c \in raced' <=> c \in raced
  BY <1>7, <1>8, <1>9
<1>11. newest'[b].sid # NoSid =>
         /\ jar'[b].secret # NoSecret
         /\ jar'[b].sid = newest'[b].sid
         /\ jar'[b].secret = newest'[b].secret \/ b \in raced'
         /\ newest'[b].ok => newest'[b].sid \in Live \cup ended
  <2>1. CASE a.sid = NoSid
    <3>1. newest'[b] = newest[b] /\ jar'[b].sid = jar[b].sid BY <1>7, <1>8, <2>1
    <3>2. a.secret # NoSecret => a.bare BY <1>1, <1>4, <2>1 DEF Whole
    <3>3. newest[b].sid # NoSid =>
            /\ jar[b].secret # NoSecret /\ jar[b].sid = newest[b].sid
            /\ jar[b].secret = newest[b].secret \/ b \in raced
            /\ newest[b].ok => newest[b].sid \in Live \cup ended
      BY <1>1 DEF LoginInv, HasSecret, LoginKept
    <3>. QED BY <1>7, <1>9, <2>1, <3>1, <3>2, <3>3
  <2>2. CASE a.sid # NoSid
    <3>1. a.secret # NoSecret /\ (a.ok => a.sid \in Live \cup ended) BY <1>1, <1>4, <2>2 DEF Whole
    <3>. QED BY <1>7, <1>8, <2>2, <3>1
  <2>. QED BY <2>1, <2>2
<1>12. HasSecret' BY <1>10, <1>11 DEF LoginInv, HasSecret
<1>13. LoginKept'
  <2>1. ASSUME NEW c \in Browsers, newest'[c].sid # NoSid
        PROVE  /\ jar'[c].sid = newest'[c].sid
               /\ jar'[c].secret = newest'[c].secret \/ c \in raced'
               /\ newest'[c].ok => newest'[c].sid \in Live' \cup ended'
    <3>1. CASE c = b BY <1>2, <1>11, <2>1, <3>1
    <3>2. CASE c # b BY <1>2, <1>10, <2>1, <3>2 DEF LoginInv, LoginKept
    <3>. QED BY <3>1, <3>2
  <2>. QED BY <2>1 DEF LoginKept
<1>. QED BY <1>6, <1>12, <1>13 DEF LoginInv

LEMMA LoginStep ==
  ASSUME SignInAssumption, IInv, LoginInv, [Next]_vars
  PROVE  LoginInv'
<1>0. TypeOK /\ Live \cup ended \subseteq Live' \cup ended' BY Remembered DEF IInv
<1>1. ASSUME NEW r \in Reqs, NEW b \in Browsers,
             GetPage(r, b) \/ PostAdmin(r, b) \/ PostLogout(r, b) \/ PostLogin(r, b)
      PROVE  LoginInv'
  <2>1. UNCHANGED browserVars BY <1>1 DEF GetPage, PostAdmin, PostLogout, PostLogin, Post
  <2>2. /\ MintFor(b) \in Nat /\ NoSecret \in Nat
        /\ MintFor(b) # NoSecret => jar[b].secret = NoSecret
    BY <1>0 DEF MintFor, NoSecret, TypeOK
  <2>3. PICK at \in {"saving", "guarded", "leaving", "counting"}, mint \in {MintFor(b), NoSecret} :
          Goes(r, RequestOf(b, at, mint))
    BY <1>1 DEF GetPage, PostAdmin, PostLogout, PostLogin, Post
  <2>4. \A known : Whole(RequestOf(b, at, mint), known) BY <1>0, <2>2, <2>3, WholeRequest
  <2>. QED BY <1>0, <2>1, <2>3, <2>4, OneMoves
<1>2. ASSUME NEW r \in Reqs, NEW typed \in {password, password - 1},
             Guard(r) \/ SaveOut(r) \/ Leave(r) \/ Count(r, typed) \/ Look(r) \/ Rejected(r)
      PROVE  LoginInv'
  <2>1. req[r] \in Pending /\ req[r].at # "storing"
    BY <1>0, <1>2, PendingAt DEF Guard, SaveOut, Leave, Count, Look, Rejected, At
  <2>2. UNCHANGED browserVars BY <1>2 DEF Guard, SaveOut, Leave, Count, Look, Rejected
  <2>3. Whole(req[r], Live' \cup ended') BY <1>0, WholeLater DEF LoginInv
  <2> DEFINE Later(s) == s \in Pending /\ s.at # "storing" /\ s.mint = req[r].mint /\ s.bare = req[r].bare
  <2>4. Later(To(r, "acting")) BY <2>1 DEF To, Pending
  <2>5. Later([To(r, "checking") EXCEPT !.cred = password]) BY <1>0, <2>1 DEF To, Pending, TypeOK
  <2>6. typed \in Nat BY <1>0 DEF TypeOK
  <2>7. Count(r, typed) => window' \in Nat BY <1>0 DEF Count, TypeOK
  <2>8. \/ Goes(r, Refusal(r)) \/ \E ok \in BOOLEAN : Goes(r, Answer(r, ok, NoSid, req[r].mint))
        \/ \E s : Later(s) /\ Goes(r, s)
    <3>1. CASE Guard(r) \/ SaveOut(r) \/ Leave(r) BY <2>4, <3>1 DEF Guard, SaveOut, Leave
    <3>2. CASE Count(r, typed)
      <4>1. Goes(r, Refusal(r))
            \/ Goes(r, [To(r, "looking") EXCEPT !.counted = window', !.typed = typed])
        BY <3>2 DEF Count
      <4> DEFINE s == [To(r, "looking") EXCEPT !.counted = window', !.typed = typed]
      <4>2. Later(s) BY <2>1, <2>6, <2>7, <3>2 DEF To, Pending
      <4> HIDE DEF s
      <4>3. CASE Goes(r, s) BY <4>2, <4>3
      <4>. QED BY <4>1, <4>3 DEF s
    <3>3. CASE Look(r) \/ Rejected(r) BY <2>5, <3>3 DEF Look, Rejected
    <3>. QED BY <1>2, <3>1, <3>2, <3>3
  <2>. QED BY <1>0, <2>1, <2>2, <2>3, <2>8, WholeStep, OneMoves
<1>3. ASSUME NEW r \in Reqs, Regenerate(r)
      PROVE  LoginInv'
  <2> DEFINE s == [To(r, "storing") EXCEPT !.sid = minted', !.mint = secrets', !.secret = secrets']
  <2>1. req[r] \in Pending BY <1>0, <1>3, PendingAt DEF Regenerate
  <2>2. minted' \in Nat \ {0} /\ secrets' \in Nat \ {0} BY <1>0, <1>3 DEF Regenerate, TypeOK
  <2>3. s \in Pending /\ s.at = "storing" /\ s.sid = minted' /\ s.mint = secrets'
    BY <2>1, <2>2 DEF To, Pending
  <2>4. Goes(r, s) /\ UNCHANGED browserVars BY <1>3 DEF Regenerate
  <2> HIDE DEF s
  <2>5. Whole(s, Live' \cup ended')
    BY <2>2, <2>3, PendingIsNotAnswered DEF Whole, NoSid, NoSecret
  <2>. QED BY <1>0, <2>4, <2>5, OneMoves
<1>4. ASSUME NEW r \in Reqs, StoreLogin(r) \/ StoreLoginFails(r)
      PROVE  LoginInv'
  <2>1. req[r] \in Pending /\ req[r].at = "storing"
    BY <1>0, <1>4, PendingAt DEF StoreLogin, StoreLoginFails, At
  <2>2. req[r].sid # NoSid /\ req[r].mint # NoSecret BY <2>1 DEF LoginInv, Whole
  <2>3. PICK ok \in BOOLEAN : /\ Goes(r, Answer(r, ok, req[r].sid, req[r].mint))
                              /\ ok => StoreLogin(r)
    BY <1>4 DEF StoreLogin, StoreLoginFails
  <2>4. ok => req[r].sid \in Live'
    BY <2>3 DEF StoreLogin, Set, Upsert, Live
  <2> DEFINE s == Answer(r, ok, req[r].sid, req[r].mint)
  <2>5. s.sid = req[r].sid /\ s.secret = req[r].mint /\ s.ok = ok /\ s \notin Pending
    BY AnswerFacts DEF Answer
  <2> HIDE DEF s
  <2>6. Whole(s, Live' \cup ended') BY <2>2, <2>4, <2>5 DEF Whole
  <2>7. UNCHANGED browserVars BY <1>4 DEF StoreLogin, StoreLoginFails
  <2>. QED BY <1>0, <2>3, <2>6, <2>7, OneMoves DEF s
<1>5. ASSUME NEW r \in Reqs, Refund(r) \/ Done(r)
      PROVE  LoginInv'
  <2>1. req[r] \in Answered BY <1>0, <1>5, AnsweredAt DEF Refund, Done
  <2> DEFINE s == [req[r] EXCEPT !.counted = 0]
  <2>2. /\ s \in Answered /\ s.sid = req[r].sid /\ s.secret = req[r].secret
        /\ s.bare = req[r].bare /\ s.ok = req[r].ok
    BY <2>1 DEF Answered
  <2>3. Goes(r, Idle) \/ Goes(r, s) BY <1>5 DEF Refund, Done
  <2> HIDE DEF s
  <2>4. Whole(req[r], Live' \cup ended') BY <1>0, WholeLater DEF LoginInv
  <2>5. Whole(s, Live' \cup ended') BY <2>1, <2>2, <2>4, PendingIsNotAnswered DEF Whole
  <2>6. Whole(Idle, Live' \cup ended') BY PendingIsNotAnswered DEF Whole
  <2>7. UNCHANGED browserVars BY <1>5 DEF Refund, Done
  <2>. QED BY <1>0, <2>3, <2>5, <2>6, <2>7, OneMoves
<1>6. ASSUME WindowEnds \/ Elsewhere \/ UNCHANGED vars
      PROVE  LoginInv'
  <2>1. req' = req /\ UNCHANGED browserVars BY <1>6 DEF WindowEnds, Elsewhere, vars
  <2>2. \A r \in Reqs : Whole(req'[r], Live' \cup ended') BY <1>0, <2>1, WholeLater DEF LoginInv
  <2>. QED BY <1>0, <2>1, <2>2, NoAnswer
<1>. QED
  BY <1>0, <1>1, <1>2, <1>3, <1>4, <1>5, <1>6, Arrives DEF Next, Login

LEMMA LoginInit == Init => LoginInv
  BY PendingIsNotAnswered DEF Init, LoginInv, Whole, HasSecret, LoginKept

(* A browser keeps the cookies of its last sign-in whatever answers of     *)
(* earlier requests arrive after it: middlewares/csrf.ts, routes/auth.ts.  *)
THEOREM LoginKeptCorrect == Spec => []LoginKept
<1>1. IInv /\ LoginInv => LoginKept
  BY DEF LoginInv
<1>2. IInv /\ LoginInv /\ [Next]_vars => LoginInv'
  BY LoginStep, SignInAssumption
<1> QED
  BY <1>1, <1>2, LoginInit, Invariant, PTL DEF Spec

(***************************************************************************)
(* A window of the sign-in's limiter lets no more wrong passwords be       *)
(* looked at than its limit, whatever sign-ins are counted, judged and     *)
(* given back at once.  A request that this window has counted and that    *)
(* has neither failed nor been given back is a guess that may still come;  *)
(* with those, the guesses of a window never pass its count.               *)
(***************************************************************************)
Charges(s) ==
  /\ s \in Pending \cup Answered
  /\ s.counted = window /\ s.counted > 0
  /\ s.at = "answered" => s.ok
Charged == {r \in Reqs : Charges(req[r])}

CountedHere ==
  /\ hits.open => window > 0
  /\ \A r \in Reqs : /\ req[r] \in Pending \cup Answered => req[r].counted <= window
                     /\ At(r, "looking") \/ At(r, "checking") => req[r].counted > 0
WithinCount == guesses + Cardinality(Charged) <= hits.n + strays
WithinLimit == guesses + Cardinality(Charged) <= Limit + strays
LimiterInv == CountedHere /\ WithinCount /\ WithinLimit

LEMMA Sizes ==
  /\ IsFiniteSet(Charged) /\ Cardinality(Charged) \in Nat
  /\ IsFiniteSet(Charged') /\ Cardinality(Charged') \in Nat
  BY SignInAssumption, FS_Subset, FS_CardinalityType DEF Charged

LEMMA Numbers ==
  ASSUME TypeOK
  PROVE  /\ hits.n \in Nat /\ guesses \in Nat /\ strays \in Nat /\ window \in Nat
         /\ Limit \in Nat \ {0}
  BY SignInAssumption DEF TypeOK

(* Where the limiter is left alone and no request becomes a possible guess *)
(* the bounds stay.                                                        *)
LEMMA BoundsKept ==
  ASSUME TypeOK, WithinCount, WithinLimit, Charged' \subseteq Charged,
         guesses' = guesses, strays' = strays, hits'.n >= hits.n, hits'.n \in Nat
  PROVE  WithinCount' /\ WithinLimit'
<1>1. Cardinality(Charged') <= Cardinality(Charged) BY Sizes, FS_Subset
<1>. QED BY <1>1, Sizes, Numbers DEF WithinCount, WithinLimit

LEMMA GoesTo ==
  ASSUME TypeOK, NEW r \in Reqs, NEW s, Goes(r, s)
  PROVE  req'[r] = s /\ \A q \in Reqs \ {r} : req'[q] = req[q]
  BY DEF Goes, TypeOK

(* A request goes on with the count it had, or ends.                       *)
LEMMA MovesOn ==
  ASSUME TypeOK, LimiterInv, NEW r \in Reqs, NEW s, Goes(r, s), UNCHANGED limitVars,
         s \in Pending \cup Answered => s.counted <= window,
         s.at \in {"looking", "checking"} => s.counted > 0,
         Charges(s) => r \in Charged
  PROVE  LimiterInv'
<1>1. req'[r] = s /\ \A q \in Reqs \ {r} : req'[q] = req[q] BY GoesTo
<1>2. window' = window /\ guesses' = guesses /\ strays' = strays /\ hits' = hits BY DEF limitVars
<1>3. Charged' \subseteq Charged
  <2>1. ASSUME NEW q \in Reqs, Charges(req[q])' PROVE q \in Charged
    <3>1. CASE q = r BY <1>1, <1>2, <2>1, <3>1 DEF Charges
    <3>2. CASE q # r BY <1>1, <1>2, <2>1, <3>2 DEF Charges, Charged
    <3>. QED BY <3>1, <3>2
  <2>. QED BY <2>1 DEF Charged
<1>4. CountedHere' BY <1>1, <1>2 DEF LimiterInv, CountedHere, At
<1>. QED BY <1>2, <1>3, <1>4, BoundsKept, Numbers DEF LimiterInv

LEMMA Steps ==
  ASSUME TypeOK, LimiterInv, NEW r \in Reqs, NEW s,
         req[r] \in Pending, s \in Pending \cup Answered, s.counted = req[r].counted,
         Goes(r, s), UNCHANGED limitVars,
         s.at \in {"looking", "checking"} => At(r, "looking") \/ At(r, "checking")
  PROVE  LimiterInv'
<1>1. req[r].at # "answered" BY DEF Pending
<1>2. s.counted <= window BY DEF LimiterInv, CountedHere
<1>3. s.at \in {"looking", "checking"} => s.counted > 0 BY DEF LimiterInv, CountedHere
<1>4. Charges(s) => r \in Charged BY <1>1 DEF Charges, Charged
<1>. QED BY <1>2, <1>3, <1>4, MovesOn

(* A request as it begins has not been counted.                            *)
LEMMA Fresh0 ==
  ASSUME TypeOK, LimiterInv, NEW r \in Reqs, NEW b, NEW mint,
         NEW at \in {"saving", "guarded", "leaving", "counting"},
         Goes(r, RequestOf(b, at, mint)), UNCHANGED limitVars
  PROVE  LimiterInv'
<1>1. RequestOf(b, at, mint).counted = 0 /\ RequestOf(b, at, mint).at = at BY DEF RequestOf
<1>2. 0 <= window BY Numbers
<1>. QED BY <1>1, <1>2, MovesOn DEF Charges

LEMMA Counts ==
  ASSUME TypeOK, LimiterInv, NEW r \in Reqs, NEW typed, Count(r, typed)
  PROVE  LimiterInv'
<1>1. req[r] \in Pending BY PendingAt DEF Count
<1> DEFINE n == IF hits.open THEN hits.n + 1 ELSE 1
<1> DEFINE w == IF hits.open THEN window ELSE window + 1
<1> DEFINE s == [To(r, "looking") EXCEPT !.counted = w, !.typed = typed]
<1>2. /\ hits'.n = n /\ window' = w
      /\ guesses' = IF hits.open THEN guesses ELSE 0
      /\ strays' = IF hits.open THEN strays ELSE 0
      /\ Goes(r, IF n > Limit THEN Refusal(r) ELSE s)
  BY DEF Count
<1>3. n \in Nat /\ w \in Nat /\ window <= w BY Numbers
<1>4. s.counted = w /\ s.at = "looking" BY <1>1 DEF To, Pending
<1>5. /\ Refusal(r).at = "answered" /\ Refusal(r).ok = FALSE
      /\ Refusal(r).counted = req[r].counted
  BY DEF Refusal, Answer
<1>6. req'[r] = (IF n > Limit THEN Refusal(r) ELSE s) /\ \A q \in Reqs \ {r} : req'[q] = req[q]
  BY <1>2, GoesTo
<1>7. req[r].counted \in Nat /\ req[r].counted <= window
  BY <1>1 DEF LimiterInv, CountedHere, Pending
<1>11. window' > 0
  <2>1. hits.open => window > 0 BY DEF LimiterInv, CountedHere
  <2>. QED BY <1>2, <2>1, Numbers
<1> HIDE DEF n, w, s
<1>8. CountedHere'
  <2> SUFFICES ASSUME NEW q \in Reqs
               PROVE  /\ req'[q] \in Pending \cup Answered => req'[q].counted <= w
                      /\ req'[q].at \in {"looking", "checking"} => req'[q].counted > 0
    BY <1>2, <1>11 DEF CountedHere, At
  <2>1. CASE q = r /\ n > Limit BY <1>3, <1>5, <1>6, <1>7, <2>1, Numbers
  <2>2. CASE q = r /\ ~(n > Limit)
    <3>1. w > 0 BY <1>2, <1>11
    <3>. QED BY <1>3, <1>4, <1>6, <2>2, <3>1
  <2>3. CASE q # r
    <3>1. req'[q] = req[q] BY <1>6, <2>3
    <3>2. req[q] \in Pending \cup Answered => req[q].counted \in Nat /\ req[q].counted <= window
      BY DEF LimiterInv, CountedHere, Pending, Answered
    <3>. QED BY <1>3, <3>1, <3>2, Numbers DEF LimiterInv, CountedHere, At
  <2>. QED BY <2>1, <2>2, <2>3
<1>9. CASE hits.open
  <2>1. Charged' \subseteq Charged \cup (IF n > Limit THEN {} ELSE {r})
    <3>1. \A q \in Reqs \ {r} : Charges(req[q])' => Charges(req[q])
      BY <1>2, <1>6, <1>9 DEF Charges, w
    <3>2. n > Limit => ~Charges(req[r])' BY <1>5, <1>6 DEF Charges
    <3>. QED BY <3>1, <3>2 DEF Charged
  <2>2. guesses' = guesses /\ strays' = strays /\ n = hits.n + 1 BY <1>2, <1>9 DEF n
  <2>3. CASE n > Limit BY <1>2, <1>3, <1>8, <2>1, <2>2, <2>3, BoundsKept, Numbers DEF LimiterInv
  <2>4. CASE ~(n > Limit)
    <3>1. /\ IsFiniteSet(Charged \cup {r})
          /\ Cardinality(Charged \cup {r}) \in {Cardinality(Charged), Cardinality(Charged) + 1}
      BY Sizes, FS_AddElement
    <3>2. Cardinality(Charged') <= Cardinality(Charged) + 1
      BY <2>1, <2>4, <3>1, Sizes, FS_Subset
    <3>. QED BY <1>2, <1>8, <2>2, <2>4, <3>2, Sizes, Numbers DEF LimiterInv, WithinCount, WithinLimit
  <2>. QED BY <2>3, <2>4
<1>10. CASE ~hits.open
  <2>1. Charged' \subseteq {r}
    <3>1. ASSUME NEW q \in Reqs \ {r} PROVE ~Charges(req[q])'
      <4>1. req'[q] = req[q] BY <1>6
      <4>2. req[q] \in Pending \cup Answered => req[q].counted \in Nat /\ req[q].counted <= window
        BY DEF LimiterInv, CountedHere, Pending, Answered
      <4>3. window' = window + 1 BY <1>2, <1>10 DEF w
      <4>. QED BY <4>1, <4>2, <4>3, Numbers DEF Charges
    <3>. QED BY <3>1 DEF Charged
  <2>2. Cardinality(Charged') <= 1
    <3>1. IsFiniteSet({r}) /\ Cardinality({r}) = 1 BY FS_Singleton
    <3>. QED BY <2>1, <3>1, FS_Subset
  <2>3. guesses' = 0 /\ strays' = 0 /\ hits'.n = 1 BY <1>2, <1>10 DEF n
  <2>. QED BY <1>8, <2>2, <2>3, Sizes, Numbers DEF LimiterInv, WithinCount, WithinLimit
<1>. QED BY <1>9, <1>10

LEMMA Rejects ==
  ASSUME TypeOK, LimiterInv, NEW r \in Reqs, Rejected(r)
  PROVE  LimiterInv'
<1>1. req[r] \in Pending /\ req[r].at = "checking" BY PendingAt DEF Rejected, At
<1>2. /\ Goes(r, Refusal(r)) /\ hits' = hits /\ window' = window /\ strays' = strays
      /\ \/ guesses' = guesses
         \/ req[r].counted = window /\ guesses' = guesses + 1
  BY DEF Rejected
<1>3. req'[r] = Refusal(r) /\ \A q \in Reqs \ {r} : req'[q] = req[q] BY <1>2, GoesTo
<1>4. /\ Refusal(r).at = "answered" /\ Refusal(r).ok = FALSE
      /\ Refusal(r).counted = req[r].counted
  BY DEF Refusal, Answer
<1>5. CountedHere' BY <1>1, <1>2, <1>3, <1>4 DEF LimiterInv, CountedHere, At
<1>6. Charged' \subseteq Charged \ {r}
  <2>1. \A q \in Reqs \ {r} : Charges(req[q])' => Charges(req[q]) BY <1>2, <1>3 DEF Charges
  <2>2. ~Charges(req[r])' BY <1>3, <1>4 DEF Charges
  <2>. QED BY <2>1, <2>2 DEF Charged
<1>7. CASE guesses' = guesses
  BY <1>2, <1>5, <1>6, <1>7, BoundsKept, Numbers DEF LimiterInv
<1>8. CASE req[r].counted = window /\ guesses' = guesses + 1
  <2>1. r \in Charged BY <1>1, <1>8 DEF LimiterInv, CountedHere, Charged, Charges, At
  <2>2. /\ IsFiniteSet(Charged \ {r})
        /\ Cardinality(Charged \ {r}) = Cardinality(Charged) - 1
    BY <2>1, Sizes, FS_RemoveElement
  <2>3. Cardinality(Charged') <= Cardinality(Charged) - 1 BY <1>6, <2>2, FS_Subset
  <2>. QED BY <1>2, <1>5, <1>8, <2>3, Sizes, Numbers DEF LimiterInv, WithinCount, WithinLimit
<1>. QED BY <1>2, <1>7, <1>8

LEMMA Refunds ==
  ASSUME TypeOK, LimiterInv, NEW r \in Reqs, Refund(r)
  PROVE  LimiterInv'
<1>1. req[r] \in Answered /\ req[r].at = "answered" BY AnsweredAt DEF Refund, At
<1> DEFINE s == [req[r] EXCEPT !.counted = 0]
<1>2. /\ Goes(r, s) /\ guesses' = guesses /\ window' = window
      /\ req[r].counted > 0 /\ req[r].ok
  BY DEF Refund, GivenBack
<1>3. s.counted = 0 /\ s.at = "answered" BY <1>1 DEF Answered
<1> HIDE DEF s
<1>4. req'[r] = s /\ \A q \in Reqs \ {r} : req'[q] = req[q] BY <1>2, GoesTo
<1>5. hits'.open = hits.open BY DEF Refund, TypeOK
<1>6. CountedHere' BY <1>2, <1>3, <1>4, <1>5, Numbers DEF LimiterInv, CountedHere, At
<1>7. Charged' \subseteq Charged \ {r}
  <2>1. \A q \in Reqs \ {r} : Charges(req[q])' => Charges(req[q]) BY <1>2, <1>4 DEF Charges
  <2>2. ~Charges(req[r])' BY <1>3, <1>4 DEF Charges
  <2>. QED BY <2>1, <2>2 DEF Charged
<1>8. CASE UNCHANGED <<hits, strays>>
  BY <1>2, <1>6, <1>7, <1>8, BoundsKept, Numbers DEF LimiterInv
<1>9. CASE /\ hits.n > 0 /\ hits' = [hits EXCEPT !.n = @ - 1]
           /\ strays' = IF req[r].counted # window THEN strays + 1 ELSE strays
  <2>1. hits'.n = hits.n - 1 BY <1>9 DEF TypeOK
  <2>2. CASE req[r].counted = window
    <3>1. r \in Charged BY <1>1, <1>2, <2>2 DEF Charged, Charges
    <3>2. /\ IsFiniteSet(Charged \ {r})
          /\ Cardinality(Charged \ {r}) = Cardinality(Charged) - 1
      BY <3>1, Sizes, FS_RemoveElement
    <3>3. Cardinality(Charged') <= Cardinality(Charged) - 1 BY <1>7, <3>2, FS_Subset
    <3>4. strays' = strays BY <1>9, <2>2
    <3>. QED BY <1>2, <1>6, <2>1, <3>3, <3>4, Sizes, Numbers DEF LimiterInv, WithinCount, WithinLimit
  <2>3. CASE req[r].counted # window
    <3>1. Cardinality(Charged') <= Cardinality(Charged) BY <1>7, Sizes, FS_Subset
    <3>2. strays' = strays + 1 BY <1>9, <2>3
    <3>. QED BY <1>2, <1>6, <2>1, <3>1, <3>2, Sizes, Numbers DEF LimiterInv, WithinCount, WithinLimit
  <2>. QED BY <2>2, <2>3
<1>. QED BY <1>8, <1>9 DEF Refund

(* Nobody's request moves, and no hit is counted.                          *)
LEMMA Rests ==
  ASSUME TypeOK, LimiterInv, req' = req, UNCHANGED <<window, guesses, strays>>,
         hits'.n = hits.n, hits'.open => hits.open
  PROVE  LimiterInv'
<1>1. Charged' = Charged BY DEF Charged, Charges
<1>2. CountedHere' BY DEF LimiterInv, CountedHere, At
<1>. QED BY <1>1, <1>2, BoundsKept, Numbers DEF LimiterInv

LEMMA LimiterStep ==
  ASSUME TypeOK, LimiterInv, [Next]_vars
  PROVE  LimiterInv'
<1>1. ASSUME NEW r \in Reqs, NEW b \in Browsers,
             GetPage(r, b) \/ PostAdmin(r, b) \/ PostLogout(r, b) \/ PostLogin(r, b)
      PROVE  LimiterInv'
  <2>1. UNCHANGED limitVars BY <1>1 DEF GetPage, PostAdmin, PostLogout, PostLogin, Post
  <2>2. \E at \in {"saving", "guarded", "leaving", "counting"}, mint \in {MintFor(b), NoSecret} :
          Goes(r, RequestOf(b, at, mint))
    BY <1>1 DEF GetPage, PostAdmin, PostLogout, PostLogin, Post
  <2>. QED BY <2>1, <2>2, Fresh0
<1>2. ASSUME NEW r \in Reqs, Guard(r) \/ SaveOut(r) \/ Leave(r) \/ StoreLogin(r) \/ StoreLoginFails(r)
      PROVE  LimiterInv'
  <2>1. req[r] \in Pending
    BY <1>2, PendingAt DEF Guard, SaveOut, Leave, StoreLogin, StoreLoginFails
  <2>2. UNCHANGED limitVars BY <1>2 DEF Guard, SaveOut, Leave, StoreLogin, StoreLoginFails
  <2>3. \A ok \in BOOLEAN, sid \in Nat, secret \in Nat :
          /\ Answer(r, ok, sid, secret) \in Answered
          /\ Answer(r, ok, sid, secret).at = "answered"
          /\ Answer(r, ok, sid, secret).counted = req[r].counted
    BY <2>1, RefusalTyped DEF Answer
  <2>4. /\ To(r, "acting") \in Pending /\ To(r, "acting").at = "acting"
        /\ To(r, "acting").counted = req[r].counted
    BY <2>1 DEF To, Pending
  <2>5. req[r].sid \in Nat /\ req[r].mint \in Nat /\ NoSid \in Nat BY <2>1 DEF Pending, NoSid
  <2>6. \/ Goes(r, To(r, "acting"))
        \/ \E ok \in BOOLEAN, sid \in Nat, secret \in Nat : Goes(r, Answer(r, ok, sid, secret))
    BY <1>2, <2>5 DEF Guard, SaveOut, Leave, StoreLogin, StoreLoginFails, Refusal
  <2>. QED BY <2>1, <2>2, <2>3, <2>4, <2>6, Steps
<1>3. ASSUME NEW r \in Reqs, Look(r) \/ Regenerate(r)
      PROVE  LimiterInv'
  <2>1. req[r] \in Pending /\ (At(r, "looking") \/ At(r, "checking"))
    BY <1>3, PendingAt DEF Look, Regenerate
  <2>2. UNCHANGED limitVars BY <1>3 DEF Look, Regenerate
  <2>3. CASE Look(r)
    <3> DEFINE s == [To(r, "checking") EXCEPT !.cred = password]
    <3>1. s \in Pending /\ s.counted = req[r].counted BY <2>1 DEF To, Pending, TypeOK
    <3>2. Goes(r, s) BY <2>3 DEF Look
    <3>. QED BY <2>1, <2>2, <3>1, <3>2, Steps
  <2>4. CASE Regenerate(r)
    <3> DEFINE s == [To(r, "storing") EXCEPT !.sid = minted', !.mint = secrets', !.secret = secrets']
    <3>1. minted' \in Nat /\ secrets' \in Nat BY <2>4 DEF Regenerate, TypeOK
    <3>2. s \in Pending /\ s.counted = req[r].counted BY <2>1, <3>1 DEF To, Pending
    <3>3. Goes(r, s) BY <2>4 DEF Regenerate
    <3>. QED BY <2>1, <2>2, <3>2, <3>3, Steps
  <2>. QED BY <1>3, <2>3, <2>4
<1>4. ASSUME NEW r \in Reqs, Arrive(r)
      PROVE  LimiterInv'
  <2> DEFINE s == [req[r] EXCEPT !.seen = TRUE]
  <2>1. req[r] \in Answered BY <1>4, AnsweredAt DEF Arrive
  <2>2. s.counted = req[r].counted /\ s.at = "answered" /\ s.ok = req[r].ok BY <2>1 DEF Answered
  <2>3. Goes(r, s) /\ UNCHANGED limitVars BY <1>4 DEF Arrive
  <2>4. s.counted <= window BY <2>1, <2>2 DEF LimiterInv, CountedHere
  <2>5. Charges(s) => r \in Charged BY <2>1, <2>2 DEF Charges, Charged
  <2>. QED BY <2>2, <2>3, <2>4, <2>5, MovesOn
<1>5. ASSUME NEW r \in Reqs, Done(r)
      PROVE  LimiterInv'
  <2>1. Goes(r, Idle) /\ UNCHANGED limitVars BY <1>5 DEF Done
  <2>2. Idle.at = "idle" /\ Idle \notin Pending \cup Answered BY DEF Idle, Pending, Answered
  <2>. QED BY <2>1, <2>2, MovesOn DEF Charges
<1>6. ASSUME WindowEnds \/ Elsewhere \/ UNCHANGED vars
      PROVE  LimiterInv'
  <2>1. /\ req' = req /\ UNCHANGED <<window, guesses, strays>>
        /\ hits'.n = hits.n /\ (hits'.open => hits.open)
    BY <1>6 DEF WindowEnds, Elsewhere, vars, limitVars, TypeOK
  <2>. QED BY <2>1, Rests
<1>. QED
  BY <1>1, <1>2, <1>3, <1>4, <1>5, <1>6, Counts, Rejects, Refunds DEF Next, Login

LEMMA LimiterInit == Init => LimiterInv
<1> SUFFICES ASSUME Init PROVE LimiterInv
  OBVIOUS
<1>1. hits.n = 0 /\ ~hits.open /\ window = 0 /\ guesses = 0 /\ strays = 0 BY DEF Init
<1>2. \A r \in Reqs : req[r] = Idle BY DEF Init
<1>3. Charged = {} BY <1>2 DEF Charged, Charges, Idle, Pending, Answered
<1>4. Cardinality(Charged) = 0 BY <1>3, FS_EmptySet
<1>5. CountedHere BY <1>1, <1>2 DEF CountedHere, At, Idle, Pending, Answered
<1>. QED BY <1>1, <1>4, <1>5, SignInAssumption DEF LimiterInv, WithinCount, WithinLimit

(***************************************************************************)
(* A window of the limiter on sign-ins lets no more wrong passwords be     *)
(* looked at than its limit and what it gave back for earlier windows:     *)
(* utils/rate-limit-store.ts, routes/auth.ts.                              *)
(***************************************************************************)
THEOREM GuessesBoundedCorrect == Spec => []GuessesBounded
<1>1. TypeOK /\ LimiterInv => GuessesBounded
  BY Sizes, Numbers DEF LimiterInv, WithinLimit, GuessesBounded
<1>2. TypeOK /\ LimiterInv /\ [Next]_vars => LimiterInv' BY LimiterStep
<1>. QED BY <1>1, <1>2, LimiterInit, SignInTyped, PTL DEF Spec
=============================================================================
