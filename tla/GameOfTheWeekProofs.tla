------------------------- MODULE GameOfTheWeekProofs -------------------------
(***************************************************************************)
(* There is one game of the week, for any games, connections, votes and    *)
(* horizon, as long as a choice is over before half a week has passed      *)
(* (WeekAssumption).  What carries it: whoever holds the advisory lock has *)
(* seen every pick whose game kept its stream end before its own choice    *)
(* began.  The look that says so is taken on the wall clock, later than    *)
(* the beginning; no pick can end in between, since it was inserted by a   *)
(* choice hardly older than this one and lasts a week.                     *)
(*                                                                         *)
(* The same transactions keep the totals on a game's row, and no vote is   *)
(* ever part of a deadlock (second half).  The total of a fold is reasoned *)
(* about by looking at a least set of votes for which a claim fails.       *)
(***************************************************************************)
EXTENDS GameOfTheWeek, FiniteSetTheorems, SequenceTheorems, WellFoundedInduction, TLAPS

Plans == {<<Selection>>, <<>>} \cup {<<GameRow(g)>> : g \in Games}
Lookers == [kind : {"look"}, held : {{}}, plan : {<<>>}, since : Int]
Pickers == [kind : {"pick"}, held : {{}, {Selection}}, plan : Plans, since : Int, now : Int]

(* What a connection does is a record; a choice of the week's game has the *)
(* lock before it has a game, and none has outlived its time.              *)
Shapes ==
  /\ DOMAIN conn = Conns /\ playable \subseteq Games
  /\ \A c \in Conns : {"kind", "held", "plan"} \subseteq DOMAIN conn[c]
  /\ \A c \in Conns : Is(c, "pick") =>
       /\ conn[c] \in Pickers
       /\ conn[c].held = {} => conn[c].plan = <<Selection>>
       /\ conn[c].since <= conn[c].now /\ conn[c].now <= clock
  /\ \A c \in Conns : Is(c, "look") => conn[c] \in Lookers
  /\ \A c \in Conns : Choosing(c) =>
       conn[c].since <= clock /\ clock <= conn[c].since + Patience

(* A pick that has not lapsed can be played.                               *)
Standing == picks \ lapsed
Streams == \A p \in Standing : p.game \in playable

Dates ==
  /\ clock \in Int
  /\ \A p \in picks : p.start \in Int /\ p.start <= clock /\ p.end = p.start + Week

Locked(c) == Is(c, "pick") /\ Selection \in conn[c].held

(* The advisory lock is held by one choice at a time.                      *)
OneLocked == \A c, d \in Conns : Locked(c) /\ Locked(d) => c = d

(* No standing pick ends while a choice is under way.                      *)
NoneEnds ==
  \A c \in Conns, p \in Standing :
    Choosing(c) => p.end < conn[c].since \/ conn[c].since + Patience <= p.end

AllOver == \A c \in Conns, p \in Standing : Locked(c) => p.end < conn[c].since

WeekInv == Shapes /\ Streams /\ Dates /\ OneLocked /\ NoneEnds /\ AllOver /\ OneGameAWeek

LEMMA WeekInit == Init => WeekInv
  BY WeekAssumption
  DEF Init, VotesInit, Idle, WeekInv, Shapes, Streams, Standing, Dates, OneLocked, Locked, Is,
      Choosing, NoneEnds, AllOver, OneGameAWeek

LEMMA OneLong ==
  ASSUME NEW r
  PROVE  Head(<<r>>) = r /\ Tail(<<r>>) = <<>> /\ <<r>> # <<>>
  OBVIOUS

(* What a step that inserts no pick does to the picks.                     *)
Fewer ==
  /\ clock' = clock /\ picks' \subseteq picks /\ playable' \subseteq Games
  /\ \A p \in Standing' : p \in Standing /\ p.game \in playable'

LEMMA Unchanged ==
  ASSUME WeekInv, UNCHANGED weekVars
  PROVE  Fewer
  BY DEF WeekInv, Shapes, Streams, Standing, Fewer, weekVars

LEMMA Lapsing ==
  ASSUME WeekInv, Lapses, clock' = clock, picks' \subseteq picks, playable' \subseteq Games
  PROVE  Fewer
  BY DEF Lapses, Standing, Fewer

Aside(s) == s.kind \notin {"look", "pick"} /\ {"kind", "held", "plan"} \subseteq DOMAIN s

(* A step that chooses nothing, ends choices and adds no pick keeps the    *)
(* invariant.                                                              *)
LEMMA Lessens ==
  ASSUME WeekInv, Fewer, DOMAIN conn' = Conns,
         \A d \in Conns : conn'[d] = conn[d] \/ Aside(conn'[d])
  PROVE  WeekInv'
<1>1. \A d \in Conns : Choosing(d)' => Choosing(d) /\ conn'[d] = conn[d] BY DEF Choosing, Is, Aside
<1>2. \A d \in Conns : Is(d, "pick")' => Is(d, "pick") /\ conn'[d] = conn[d] BY DEF Is, Aside
<1>3. Shapes'
  <2>1. \A d \in Conns : {"kind", "held", "plan"} \subseteq DOMAIN conn'[d]
    BY DEF WeekInv, Shapes, Aside
  <2>2. \A d \in Conns : Is(d, "look")' => Is(d, "look") /\ conn'[d] = conn[d] BY DEF Is, Aside
  <2>. QED BY <1>1, <1>2, <2>1, <2>2 DEF WeekInv, Shapes, Fewer
<1>4. Streams' /\ Dates' BY DEF WeekInv, Streams, Dates, Fewer
<1>5. OneLocked' BY <1>2 DEF WeekInv, OneLocked, Locked
<1>6. NoneEnds' BY <1>1 DEF WeekInv, NoneEnds, Fewer
<1>7. AllOver' BY <1>2 DEF WeekInv, AllOver, Locked, Fewer
<1>8. OneGameAWeek' BY DEF WeekInv, OneGameAWeek, Standing, Fewer
<1>. QED BY <1>3, <1>4, <1>5, <1>6, <1>7, <1>8 DEF WeekInv

LEMMA StepsAside ==
  ASSUME WeekInv, NEW c \in Conns, NEW s, Becomes(c, s), Aside(s), Fewer
  PROVE  WeekInv'
<1>1. DOMAIN conn = Conns BY DEF WeekInv, Shapes
<1>2. DOMAIN conn' = Conns BY <1>1 DEF Becomes
<1>3. \A d \in Conns : conn'[d] = IF d = c THEN s ELSE conn[d] BY <1>1 DEF Becomes
<1>. QED BY <1>2, <1>3, Lessens

(* Votes, sweeps, deletions and cancelled statements choose nothing.       *)
LEMMA Others ==
  ASSUME WeekInv, NEW c \in Conns, TableStep(c) \/ DeleteCommits(c)
  PROVE  \E s : Becomes(c, s) /\ Aside(s)
<1>0. {"kind", "held", "plan"} \subseteq DOMAIN conn[c] BY DEF WeekInv, Shapes
<1>1. Aside(Idle) BY DEF Idle, Aside
<1>2. \A x, y : /\ [conn[c] EXCEPT !.held = x, !.plan = y].kind = conn[c].kind
                /\ DOMAIN [conn[c] EXCEPT !.held = x, !.plan = y] = DOMAIN conn[c]
  BY <1>0
<1>3. Takes(c).kind = conn[c].kind /\ DOMAIN Takes(c) = DOMAIN conn[c] BY <1>0, <1>2 DEF Takes
<1>4. \A order : /\ [Takes(c) EXCEPT !.plan = order].kind = conn[c].kind
                 /\ DOMAIN [Takes(c) EXCEPT !.plan = order] = DOMAIN conn[c]
  BY <1>0, <1>3
<1>5. \A order : Aside(Sweep(order)) BY DEF Sweep, Aside
<1>6. CASE VoteStep(c)
  <2>1. CASE \E g \in Games, v \in Voters, s \in Stars : BeginVote(c, g, v, s)
    BY <2>1 DEF BeginVote, Begin, Aside
  <2>2. CASE VoteLocks(c) BY <2>2, <1>0, <1>1, <1>3 DEF VoteLocks, Is, Aside
  <2>3. CASE VoteCommits(c) BY <2>3, <1>1 DEF VoteCommits
  <2>. QED BY <1>6, <2>1, <2>2, <2>3 DEF VoteStep
<1>7. CASE PruneStep(c)
  <2>1. CASE BeginPrune(c) BY <2>1, <1>5 DEF BeginPrune, Begin
  <2>2. CASE PruneLocks(c) BY <2>2, <1>0, <1>3 DEF PruneLocks, Is, Aside
  <2>3. CASE PruneCommits(c) BY <2>3, <1>1, <1>5 DEF PruneCommits
  <2>. QED BY <1>7, <2>1, <2>2, <2>3 DEF PruneStep
<1>8. CASE Cancelled(c) BY <1>8, <1>1 DEF Cancelled
<1>9. CASE \E g \in present : BeginDelete(c, g) BY <1>9 DEF BeginDelete, Begin, Aside
<1>10. CASE DeleteLocks(c) BY <1>10, <1>0, <1>1, <1>3, <1>4 DEF DeleteLocks, Is, Aside
<1>11. CASE DeleteCommits(c) BY <1>11, <1>1 DEF DeleteCommits
<1>. QED BY <1>6, <1>7, <1>8, <1>9, <1>10, <1>11 DEF TableStep

LEMMA IdleIsAside == Aside(Idle)
  BY DEF Idle, Aside

(* A connection that begins or goes on choosing takes the lock only after  *)
(* every standing pick was over, and only when nobody else has it.         *)
LEMMA Chooses ==
  ASSUME WeekInv, UNCHANGED weekVars, NEW c \in Conns, NEW s \in Lookers \cup Pickers, Becomes(c, s),
         s.since <= clock, clock <= s.since + Patience,
         s.kind = "pick" => /\ s.held = {} => s.plan = <<Selection>>
                            /\ s.since <= s.now /\ s.now <= clock,
         \A p \in Standing : p.end < s.since \/ s.since + Patience <= p.end,
         s.held # {} => /\ \A d \in Conns : Locked(d) => d = c
                        /\ \A p \in Standing : p.end < s.since
  PROVE  WeekInv'
<1>1. DOMAIN conn = Conns BY DEF WeekInv, Shapes
<1>2. /\ clock' = clock /\ picks' = picks /\ playable' = playable /\ lapsed' = lapsed
      /\ Standing' = Standing
      /\ DOMAIN conn' = Conns
      /\ \A d \in Conns : conn'[d] = IF d = c THEN s ELSE conn[d]
  BY <1>1 DEF Becomes, weekVars, Standing
<1>3. /\ {"kind", "held", "plan"} \subseteq DOMAIN s
      /\ s.kind = "look" => s \in Lookers
      /\ s.kind = "pick" => s \in Pickers
  BY DEF Lookers, Pickers
<1>4. Shapes'
  <2>1. \A d \in Conns \ {c} : conn'[d] = conn[d] BY <1>2
  <2>2. conn'[c] = s BY <1>2
  <2>3. \A d \in Conns : {"kind", "held", "plan"} \subseteq DOMAIN conn'[d]
    BY <1>3, <2>1, <2>2 DEF WeekInv, Shapes
  <2>4. ASSUME NEW d \in Conns, Is(d, "pick")'
        PROVE  /\ conn'[d] \in Pickers
               /\ conn'[d].held = {} => conn'[d].plan = <<Selection>>
               /\ conn'[d].since <= conn'[d].now /\ conn'[d].now <= clock
    <3>1. CASE d = c BY <1>3, <2>2, <2>4, <3>1 DEF Is
    <3>2. CASE d # c BY <2>1, <2>4, <3>2 DEF WeekInv, Shapes, Is
    <3>. QED BY <3>1, <3>2
  <2>5. \A d \in Conns : Is(d, "look")' => conn'[d] \in Lookers
    BY <1>3, <2>1, <2>2 DEF WeekInv, Shapes, Is
  <2>6. \A d \in Conns : Choosing(d)' => conn'[d].since <= clock /\ clock <= conn'[d].since + Patience
    BY <2>1, <2>2 DEF WeekInv, Shapes, Choosing, Is
  <2>. QED BY <1>2, <2>3, <2>4, <2>5, <2>6 DEF WeekInv, Shapes
<1>5. Streams' /\ Dates' BY <1>2 DEF WeekInv, Streams, Dates
<1>6. OneLocked'
  <2>1. \A d \in Conns : Locked(d)' => (d = c /\ s.held # {}) \/ (d # c /\ Locked(d))
    BY <1>2 DEF Locked, Is
  <2>. QED BY <2>1 DEF WeekInv, OneLocked
<1>7. NoneEnds' BY <1>2 DEF WeekInv, NoneEnds, Choosing, Is
<1>8. AllOver' BY <1>2 DEF WeekInv, AllOver, Locked, Is
<1>9. OneGameAWeek' BY <1>2 DEF WeekInv, OneGameAWeek
<1>. QED BY <1>4, <1>5, <1>6, <1>7, <1>8, <1>9 DEF WeekInv

(* A look that finds no game of the week finds every standing pick over.   *)
LEMMA NothingAt ==
  ASSUME WeekInv, At(clock) = {}, NEW p \in Standing
  PROVE  p.end < clock
<1>1. p \in picks /\ p.game \in playable BY DEF WeekInv, Streams, Standing
<1>2. clock \in Int /\ p.start \in Int /\ p.start <= clock /\ p.end = p.start + Week
  BY <1>1 DEF WeekInv, Dates
<1>3. ~(clock <= p.end) BY <1>1, <1>2 DEF At
<1>. QED BY <1>2, <1>3, WeekAssumption

LEMMA Looks ==
  ASSUME WeekInv, NEW c \in Conns, LookUp(c)
  PROVE  WeekInv'
<1> DEFINE s == [kind |-> "look", held |-> {}, plan |-> <<>>, since |-> clock]
<1>1. clock \in Int BY DEF WeekInv, Dates
<1>2. /\ s \in Lookers /\ s.since = clock /\ s.held = {} /\ s.kind = "look"
  BY <1>1 DEF Lookers
<1>3. Becomes(c, s) /\ UNCHANGED weekVars /\ At(clock) = {} BY DEF LookUp, Begin
<1> HIDE DEF s
<1>4. \A p \in Standing : p.end < s.since BY <1>2, <1>3, NothingAt
<1>5. s.since <= clock /\ clock <= s.since + Patience BY <1>1, <1>2, WeekAssumption
<1>. QED BY <1>2, <1>3, <1>4, <1>5, Chooses

LEMMA Begins ==
  ASSUME WeekInv, NEW c \in Conns, BeginPick(c)
  PROVE  WeekInv'
<1> DEFINE s == [kind |-> "pick", held |-> {}, plan |-> <<Selection>>,
                 since |-> conn[c].since, now |-> clock]
<1>1. clock \in Int BY DEF WeekInv, Dates
<1>2. Choosing(c) /\ conn[c].since \in Int
  BY DEF BeginPick, Choosing, WeekInv, Shapes, Lookers
<1>3. conn[c].since <= clock /\ clock <= conn[c].since + Patience BY <1>2 DEF WeekInv, Shapes
<1>4. /\ s \in Pickers /\ s.since = conn[c].since /\ s.now = clock
      /\ s.held = {} /\ s.plan = <<Selection>>
  BY <1>1, <1>2 DEF Pickers, Plans
<1>5. Becomes(c, s) /\ UNCHANGED weekVars BY DEF BeginPick
<1> HIDE DEF s
<1>6. \A p \in Standing : p.end < s.since \/ s.since + Patience <= p.end
  BY <1>2, <1>4 DEF WeekInv, NoneEnds
<1>7. s.now <= clock BY <1>1, <1>4
<1>. QED BY <1>3, <1>4, <1>5, <1>6, <1>7, Chooses

(* A choice that goes on with the lock, having seen every standing pick    *)
(* over.                                                                   *)
LEMMA GoesOn ==
  ASSUME WeekInv, UNCHANGED weekVars, NEW c \in Conns, NEW s \in Pickers, Becomes(c, s),
         Is(c, "pick"), s.since = conn[c].since, s.now = conn[c].now, s.held = {Selection},
         \A d \in Conns : Locked(d) => d = c,
         \A p \in Standing : p.end < conn[c].since
  PROVE  WeekInv'
<1>1. /\ conn[c].since <= clock /\ clock <= conn[c].since + Patience
      /\ conn[c].since <= conn[c].now /\ conn[c].now <= clock
  BY DEF WeekInv, Shapes, Choosing
<1>2. s.held # {} OBVIOUS
<1>. QED BY <1>1, <1>2, Chooses

LEMMA Locks ==
  ASSUME WeekInv, NEW c \in Conns, PickLocks(c)
  PROVE  WeekInv'
<1>1. UNCHANGED weekVars BY DEF PickLocks
<1>2. CASE Becomes(c, Idle) BY <1>1, <1>2, IdleIsAside, Unchanged, StepsAside
<1>3. CASE At(clock) = {} /\ Becomes(c, Takes(c))
  <2>1. /\ conn[c] \in Pickers /\ Choosing(c)
        /\ conn[c].since <= clock /\ clock <= conn[c].since + Patience
        /\ conn[c].held \in {{}, {Selection}} /\ conn[c].plan \in Plans
    BY DEF PickLocks, WeekInv, Shapes, Pickers, Choosing
  <2>2. conn[c].plan # <<>> /\ Head(conn[c].plan) = Selection BY DEF PickLocks, Free, Waits, Wants
  <2>3. Tail(conn[c].plan) = <<>>
    <3>1. PICK r : conn[c].plan = <<r>> BY <2>1, <2>2 DEF Plans
    <3>. QED BY <3>1, OneLong
  <2>4. /\ Takes(c) \in Pickers /\ Takes(c).since = conn[c].since /\ Takes(c).now = conn[c].now
        /\ Takes(c).held = {Selection}
    BY <2>1, <2>2, <2>3 DEF Takes, Wants, Pickers, Plans
  <2>5. \A d \in Conns : Locked(d) => d = c
    BY <2>2 DEF PickLocks, Free, Blockers, Excludes, Waits, Wants, Locked, Is
  <2>6. \A p \in Standing : p.end < conn[c].since
    <3> SUFFICES ASSUME NEW p \in Standing PROVE p.end < conn[c].since
      OBVIOUS
    <3>1. clock \in Int /\ p.start \in Int /\ p.end = p.start + Week
      BY DEF WeekInv, Dates, Standing
    <3>2. p.end < clock BY <1>3, NothingAt
    <3>3. p.end < conn[c].since \/ conn[c].since + Patience <= p.end
      BY <2>1 DEF WeekInv, NoneEnds
    <3>4. conn[c].since \in Int BY <2>1 DEF Pickers
    <3>. QED BY <2>1, <3>1, <3>2, <3>3, <3>4, WeekAssumption
  <2>7. Is(c, "pick") BY DEF PickLocks
  <2>. QED BY <1>1, <1>3, <2>4, <2>5, <2>6, <2>7, GoesOn
<1>. QED BY <1>2, <1>3 DEF PickLocks, CheckedAt

LEMMA Selects ==
  ASSUME WeekInv, NEW c \in Conns, PickSelects(c)
  PROVE  WeekInv'
<1>1. UNCHANGED weekVars BY DEF PickSelects
<1>2. CASE Becomes(c, Idle) BY <1>1, <1>2, IdleIsAside, Unchanged, StepsAside
<1>3. CASE \E g \in Candidates(conn[c].now) :
             Becomes(c, [conn[c] EXCEPT !.plan = <<GameRow(g)>>])
  <2>1. PICK g \in Candidates(conn[c].now) :
          Becomes(c, [conn[c] EXCEPT !.plan = <<GameRow(g)>>])
    BY <1>3
  <2> DEFINE s == [conn[c] EXCEPT !.plan = <<GameRow(g)>>]
  <2>2. conn[c] \in Pickers /\ (conn[c].held = {} => conn[c].plan = <<Selection>>)
    BY DEF PickSelects, WeekInv, Shapes
  <2>3. conn[c].held = {Selection} BY <2>2 DEF PickSelects, Waits, Pickers
  <2>4. g \in Games BY DEF Candidates, WeekInv, Shapes
  <2>5. s \in Pickers /\ s.since = conn[c].since /\ s.now = conn[c].now /\ s.held = {Selection}
    BY <2>2, <2>3, <2>4 DEF Pickers, Plans
  <2>6. Is(c, "pick") BY DEF PickSelects
  <2>7. Locked(c) BY <2>3, <2>6 DEF Locked
  <2>8. \A d \in Conns : Locked(d) => d = c BY <2>7 DEF WeekInv, OneLocked
  <2>9. \A p \in Standing : p.end < conn[c].since BY <2>7 DEF WeekInv, AllOver
  <2>. QED BY <1>1, <2>1, <2>5, <2>6, <2>8, <2>9, GoesOn
<1>. QED BY <1>2, <1>3 DEF PickSelects

(* The new pick begins after every standing one has ended, and ends no     *)
(* sooner than any other choice under way may still last.                  *)
LEMMA Inserts ==
  ASSUME WeekInv, NEW c \in Conns, PickInserts(c)
  PROVE  WeekInv'
<1> DEFINE n == [game |-> Wants(c)[1], start |-> conn[c].now, end |-> conn[c].now + Week]
<1>1. /\ Is(c, "pick") /\ Becomes(c, Idle) /\ clock' = clock /\ playable' = playable /\ Lapses
      /\ picks' = picks \/ picks' = picks \cup {n}
  BY DEF PickInserts
<1>2. playable' \subseteq Games BY <1>1 DEF WeekInv, Shapes
<1>3. CASE picks' = picks BY <1>1, <1>2, <1>3, IdleIsAside, Lapsing, StepsAside
<1>4. CASE picks' = picks \cup {n}
  <2>1. /\ conn[c] \in Pickers /\ conn[c].since <= conn[c].now /\ conn[c].now <= clock
        /\ clock <= conn[c].since + Patience
    BY <1>1 DEF WeekInv, Shapes, Choosing
  <2>2. clock \in Int /\ conn[c].now \in Int /\ conn[c].since \in Int
    BY <2>1 DEF Pickers, WeekInv, Dates
  <2>3. conn[c].plan # <<Selection>>
    BY OneLong DEF PickInserts, Wants
  <2>4. Locked(c)
    <3>1. conn[c].held # {} BY <1>1, <2>3 DEF WeekInv, Shapes
    <3>. QED BY <1>1, <2>1, <3>1 DEF Pickers, Locked
  <2>5. \A d \in Conns : Locked(d) => d = c BY <2>4 DEF WeekInv, OneLocked
  <2>6. \A p \in Standing : p.end < conn[c].since BY <2>4 DEF WeekInv, AllOver
  <2>7. /\ DOMAIN conn' = Conns
        /\ \A d \in Conns : conn'[d] = IF d = c THEN Idle ELSE conn[d]
    BY <1>1 DEF Becomes, WeekInv, Shapes
  <2>8. \A d \in Conns : Choosing(d)' => d # c /\ Choosing(d) /\ conn'[d] = conn[d]
    BY <2>7, IdleIsAside DEF Choosing, Is, Aside
  <2>9. n.start = conn[c].now /\ n.end = conn[c].now + Week OBVIOUS
  <2> HIDE DEF n
  <2>10. \A p \in Standing' : p.game \in playable' /\ (p \in Standing \/ p = n)
    BY <1>1, <1>4 DEF Lapses, Standing
  <2>11. Shapes'
    <3>1. \A d \in Conns : {"kind", "held", "plan"} \subseteq DOMAIN conn'[d]
      BY <2>7, IdleIsAside DEF WeekInv, Shapes, Aside
    <3>. QED BY <1>1, <2>7, <2>8, <3>1 DEF WeekInv, Shapes, Choosing, Is
  <2>12. Streams' BY <2>10 DEF Streams
  <2>13. Dates' BY <1>1, <1>4, <2>1, <2>2, <2>9 DEF WeekInv, Dates
  <2>14. \A d \in Conns : ~Locked(d)' BY <2>5, <2>8 DEF Locked, Choosing, Is
  <2>15. OneLocked' /\ AllOver' BY <2>14 DEF OneLocked, AllOver
  <2>16. NoneEnds'
    <3> SUFFICES ASSUME NEW d \in Conns, NEW p \in Standing', Choosing(d)'
                 PROVE  p.end < conn[d].since \/ conn[d].since + Patience <= p.end
      BY <2>8 DEF NoneEnds
    <3>1. CASE p \in Standing BY <2>8, <3>1 DEF WeekInv, NoneEnds
    <3>2. CASE p = n
      <4>1. conn[d].since \in Int /\ conn[d].since <= clock
        BY <2>8 DEF WeekInv, Shapes, Choosing, Lookers, Pickers
      <4>. QED BY <2>1, <2>2, <2>9, <3>2, <4>1, WeekAssumption
    <3>. QED BY <2>10, <3>1, <3>2
  <2>17. OneGameAWeek'
    <3> SUFFICES ASSUME NEW p \in Standing', NEW q \in Standing', p # q,
                        p.start <= q.start, q.start <= p.end
                 PROVE  FALSE
      BY DEF OneGameAWeek, Standing
    <3>1. CASE p \in Standing /\ q \in Standing BY <3>1 DEF WeekInv, OneGameAWeek, Standing
    <3>2. CASE p \in Standing /\ q = n
      BY <2>1, <2>2, <2>6, <2>9, <3>2, WeekAssumption DEF WeekInv, Dates, Standing
    <3>3. CASE p = n /\ q \in Standing
      BY <2>1, <2>2, <2>6, <2>9, <3>3, WeekAssumption DEF WeekInv, Dates, Standing
    <3>. QED BY <2>10, <3>1, <3>2, <3>3
  <2>. QED BY <2>11, <2>12, <2>13, <2>15, <2>16, <2>17 DEF WeekInv
<1>. QED BY <1>1, <1>3, <1>4

LEMMA Ticks ==
  ASSUME WeekInv, Tick
  PROVE  WeekInv'
<1>1. /\ clock \in Int /\ clock' = clock + 1
      /\ conn' = conn /\ playable' = playable /\ picks' = picks /\ lapsed' = lapsed
  BY DEF Tick, votesVars, WeekInv, Dates
<1>2. Standing' = Standing BY <1>1 DEF Standing
<1>3. Shapes'
  <2>1. \A c \in Conns : Choosing(c) =>
          /\ conn[c].since \in Int
          /\ conn[c].since <= clock + 1 /\ clock + 1 <= conn[c].since + Patience
    <3> SUFFICES ASSUME NEW c \in Conns, Choosing(c)
                 PROVE  /\ conn[c].since \in Int
                        /\ conn[c].since <= clock + 1 /\ clock + 1 <= conn[c].since + Patience
      OBVIOUS
    <3>1. conn[c].since \in Int /\ conn[c].since <= clock
      BY DEF WeekInv, Shapes, Choosing, Lookers, Pickers
    <3>2. clock < conn[c].since + Patience BY DEF Tick
    <3>. QED BY <1>1, <3>1, <3>2, WeekAssumption
  <2>2. \A c \in Conns : Is(c, "pick") =>
          conn[c].since <= conn[c].now /\ conn[c].now <= clock + 1
    <3> SUFFICES ASSUME NEW c \in Conns, Is(c, "pick")
                 PROVE  conn[c].since <= conn[c].now /\ conn[c].now <= clock + 1
      OBVIOUS
    <3>1. conn[c].now \in Int /\ conn[c].since <= conn[c].now /\ conn[c].now <= clock
      BY DEF WeekInv, Shapes, Pickers
    <3>. QED BY <1>1, <3>1
  <2>. QED BY <1>1, <2>1, <2>2 DEF WeekInv, Shapes, Choosing, Is
<1>4. Dates' BY <1>1 DEF WeekInv, Dates
<1>5. Streams' /\ OneLocked' /\ NoneEnds' /\ AllOver' /\ OneGameAWeek'
  BY <1>1, <1>2 DEF WeekInv, Streams, OneLocked, NoneEnds, AllOver, OneGameAWeek, Locked, Choosing, Is
<1>. QED BY <1>3, <1>4, <1>5 DEF WeekInv

LEMMA WeekStep == WeekInv /\ [Next]_vars => WeekInv'
<1> SUFFICES ASSUME WeekInv, [Next]_vars PROVE WeekInv'
  OBVIOUS
<1>1. CASE UNCHANGED vars
  <2>1. conn' = conn /\ UNCHANGED weekVars BY <1>1 DEF vars, votesVars
  <2>. QED BY <2>1, Unchanged, Lessens DEF WeekInv, Shapes
<1>2. ASSUME NEW c \in Conns, PickStep(c) PROVE WeekInv'
  <2>1. CASE PickFails(c) BY <2>1, IdleIsAside, Unchanged, StepsAside DEF PickFails
  <2>. QED BY <1>2, <2>1, Looks, Begins, Locks, Selects, Inserts DEF PickStep
<1>3. ASSUME NEW c \in Conns, Deletes(c) PROVE WeekInv'
  <2>1. Fewer
    <3>1. /\ Lapses /\ clock' = clock /\ picks' \subseteq picks /\ playable' \subseteq playable
      BY <1>3 DEF Deletes
    <3>. QED BY <3>1, Lapsing DEF WeekInv, Shapes
  <2>2. DeleteCommits(c) BY <1>3 DEF Deletes
  <2>. QED BY <2>1, <2>2, Others, StepsAside
<1>4. ASSUME NEW c \in Conns, TableStep(c), UNCHANGED weekVars PROVE WeekInv'
  BY <1>4, Unchanged, Others, StepsAside
<1>5. ASSUME NEW g \in Games, Unhosted(g) \/ Hosted(g) PROVE WeekInv'
  <2>1. /\ conn' = conn /\ clock' = clock /\ picks' = picks /\ Lapses
        /\ playable' = playable \ {g} \/ playable' = playable \cup {g}
    BY <1>5 DEF Unhosted, Hosted, StreamChanges, votesVars
  <2>2. Fewer BY <2>1, Lapsing DEF WeekInv, Shapes
  <2>. QED BY <2>1, <2>2, Lessens DEF WeekInv, Shapes
<1>. QED BY <1>1, <1>2, <1>3, <1>4, <1>5, Ticks DEF Next

(***************************************************************************)
(* One game of the week, whatever requests found the week over at once     *)
(* (models/game-of-the-week.ts).                                           *)
(***************************************************************************)
THEOREM OneGameAWeekCorrect == Spec => []OneGameAWeek
<1>1. WeekInv => OneGameAWeek BY DEF WeekInv
<1>. QED BY WeekInit, WeekStep, <1>1, PTL DEF Spec

(***************************************************************************)
(* The fold behind TotalsExact: it does not depend on the order in which   *)
(* CHOOSE takes the votes, so one vote more or less is one summand.        *)
(***************************************************************************)
First(s) == CHOOSE x \in s : TRUE

(* it solves the fold's recursion below V *)
Sums(it, V, w) ==
  it = [s \in SUBSET V |-> IF s = {} THEN 0 ELSE it[s \ {First(s)}] + w[First(s)]]

LEMMA TotalIs ==
  ASSUME NEW S, NEW w
  PROVE  Total(S, w) = (CHOOSE it : Sums(it, S, w))[S]
  BY Zenon DEF Total, FoldSet, MapThenFoldSet, Sums, First

LEMMA FirstIn == \A s : s # {} => First(s) \in s
  BY DEF First

LEMMA Least ==
  ASSUME NEW V, IsFiniteSet(V), NEW T \in SUBSET SUBSET V, T # {}
  PROVE  \E s \in T : \A u \in T : u \subseteq s => u = s
<1>1. FiniteSubsetsOf(V) = SUBSET V BY FS_FiniteSubsetsOfFinite
<1>2. IsWellFoundedOn(StrictSubsetOrdering(V), SUBSET V)
  BY <1>1, FS_StrictSubsetOrderingWellFounded
<1>3. PICK s \in T : \A u \in T : <<u, s>> \notin StrictSubsetOrdering(V)
  <2> HIDE DEF StrictSubsetOrdering
  <2>1. T \subseteq SUBSET V OBVIOUS
  <2>. QED BY <1>2, <2>1, WFMin, Zenon
<1>. QED BY <1>3 DEF StrictSubsetOrdering

LEMMA SumsStep ==
  ASSUME NEW V, NEW w, NEW it, Sums(it, V, w), NEW s \in SUBSET V
  PROVE  it[s] = IF s = {} THEN 0 ELSE it[s \ {First(s)}] + w[First(s)]
  BY DEF Sums

LEMMA SumsUnique ==
  ASSUME NEW V, NEW U \in SUBSET V, NEW w, NEW f, NEW g, IsFiniteSet(U),
         Sums(f, V, w), Sums(g, U, w)
  PROVE  f[U] = g[U]
<1> DEFINE Bad == {s \in SUBSET U : f[s] # g[s]}
<1>2. SUFFICES ASSUME Bad # {} PROVE FALSE OBVIOUS
<1>3. PICK s \in Bad : \A u \in Bad : u \subseteq s => u = s
  <2>1. Bad \in SUBSET SUBSET U OBVIOUS
  <2> HIDE DEF Bad
  <2>. QED BY <1>2, <2>1, Least
<1>4. s # {} BY <1>3, SumsStep
<1>5. s \ {First(s)} \in SUBSET U /\ s \ {First(s)} \notin Bad BY <1>3, <1>4, FirstIn
<1>. QED BY <1>3, <1>4, <1>5, SumsStep

LEMMA SumsExist ==
  ASSUME NEW V, IsFiniteSet(V), NEW w
  PROVE  \E it : Sums(it, V, w)
<1> DEFINE Bad == {s \in SUBSET V : ~ \E it : Sums(it, s, w)}
<1>1. SUFFICES ASSUME Bad # {} PROVE FALSE OBVIOUS
<1>2. PICK U \in Bad : \A u \in Bad : u \subseteq U => u = U
  <2>1. Bad \in SUBSET SUBSET V OBVIOUS
  <2> HIDE DEF Bad
  <2>. QED BY <1>1, <2>1, Least
<1> DEFINE Of(s) == CHOOSE it : Sums(it, s, w)
<1>3. ASSUME NEW s \in SUBSET U, s # U PROVE Sums(Of(s), s, w)
  <2>1. \E it : Sums(it, s, w) BY <1>2, <1>3
  <2>. QED BY <2>1
<1> HIDE DEF Of
<1> DEFINE it == [s \in SUBSET U |-> IF s = {} THEN 0
                  ELSE Of(s \ {First(s)})[s \ {First(s)}] + w[First(s)]]
<1>4. ASSUME NEW s \in SUBSET U, s # U PROVE Of(s)[s] = it[s]
  <2>1. CASE s = {} BY <1>3, <1>4, <2>1, SumsStep
  <2>2. CASE s # {}
    <3> DEFINE t == s \ {First(s)}
    <3>1. t \in SUBSET s /\ t \in SUBSET U /\ t # U BY <2>2, FirstIn
    <3>2. Of(s)[s] = Of(s)[t] + w[First(s)] BY <1>3, <1>4, <2>2, SumsStep
    <3>3. IsFiniteSet(t) BY <3>1, FS_Subset
    <3>4. Of(s)[t] = Of(t)[t] BY <1>3, <1>4, <3>1, <3>3, SumsUnique
    <3>. QED BY <2>2, <3>2, <3>4
  <2>. QED BY <2>1, <2>2
<1>5. ASSUME NEW s \in SUBSET U
      PROVE  it[s] = IF s = {} THEN 0 ELSE it[s \ {First(s)}] + w[First(s)]
  <2>1. CASE s = {} BY <2>1
  <2>2. CASE s # {}
    <3>1. s \ {First(s)} \in SUBSET U /\ s \ {First(s)} # U BY <2>2, FirstIn
    <3>. QED BY <1>4, <2>2, <3>1
  <2>. QED BY <2>1, <2>2
<1>6. Sums(it, U, w) BY <1>5 DEF Sums
<1>. QED BY <1>2, <1>6

LEMMA TotalSolves ==
  ASSUME NEW V, IsFiniteSet(V), NEW w, NEW it, Sums(it, V, w), NEW S \in SUBSET V
  PROVE  Total(S, w) = it[S]
<1>1. IsFiniteSet(S) BY FS_Subset
<1>2. Sums((CHOOSE f : Sums(f, S, w)), S, w) BY <1>1, SumsExist
<1>. QED BY <1>1, <1>2, SumsUnique, TotalIs

LEMMA TotalEmpty ==
  ASSUME NEW w
  PROVE  Total({}, w) = 0
<1>1. IsFiniteSet({}) BY FS_EmptySet
<1>2. PICK it : Sums(it, {}, w) BY <1>1, SumsExist
<1>. QED BY <1>1, <1>2, SumsStep, TotalSolves

LEMMA TotalFirst ==
  ASSUME NEW S, IsFiniteSet(S), NEW w, S # {}
  PROVE  Total(S, w) = Total(S \ {First(S)}, w) + w[First(S)]
<1>1. PICK it : Sums(it, S, w) BY SumsExist
<1>2. S \ {First(S)} \in SUBSET S OBVIOUS
<1>. QED BY <1>1, <1>2, SumsStep, TotalSolves

(* The total does not depend on the order the fold takes the elements in.  *)
LEMMA TotalRemove ==
  ASSUME NEW S, IsFiniteSet(S), NEW w, \A x \in S : w[x] \in Int
  PROVE  /\ Total(S, w) \in Int
         /\ \A y \in S : Total(S, w) = Total(S \ {y}, w) + w[y]
<1> DEFINE Adds(s) == /\ Total(s, w) \in Int
                      /\ \A y \in s : Total(s, w) = Total(s \ {y}, w) + w[y]
<1> DEFINE Bad == {s \in SUBSET S : ~Adds(s)}
<1>1. SUFFICES ASSUME Bad # {} PROVE FALSE OBVIOUS
<1>2. PICK s \in Bad : \A u \in Bad : u \subseteq s => u = s
  <2>1. Bad \in SUBSET SUBSET S OBVIOUS
  <2> HIDE DEF Bad
  <2>. QED BY <1>1, <2>1, Least
<1>3. \A u \in SUBSET s : u # s => /\ Total(u, w) \in Int
                                  /\ \A y \in u : Total(u, w) = Total(u \ {y}, w) + w[y]
  BY <1>2
<1>4. s # {}
  <2>1. Total({}, w) \in Int BY TotalEmpty
  <2>. QED BY <1>2, <2>1
<1> DEFINE x == First(s)
<1>5. x \in s BY <1>4, FirstIn
<1>6. IsFiniteSet(s) BY FS_Subset
<1>7. Total(s, w) = Total(s \ {x}, w) + w[x] BY <1>4, <1>6, TotalFirst
<1>8. Total(s \ {x}, w) \in Int BY <1>3, <1>5
<1> HIDE DEF x
<1>9. Total(s, w) \in Int BY <1>5, <1>7, <1>8
<1>10. ASSUME NEW y \in s PROVE Total(s, w) = Total(s \ {y}, w) + w[y]
  <2>1. CASE y = x BY <1>7, <2>1
  <2>2. CASE y # x
    <3>1. (s \ {x}) \ {y} = (s \ {y}) \ {x} OBVIOUS
    <3>2. Total(s \ {x}, w) = Total((s \ {x}) \ {y}, w) + w[y]
      <4>1. s \ {x} \in SUBSET s /\ s \ {x} # s /\ y \in s \ {x} BY <1>5, <2>2
      <4>. QED BY <1>3, <4>1
    <3>3. Total(s \ {y}, w) = Total((s \ {y}) \ {x}, w) + w[x]
      <4>1. s \ {y} \in SUBSET s /\ s \ {y} # s /\ x \in s \ {y} BY <1>5, <2>2
      <4>. QED BY <1>3, <4>1
    <3>4. Total((s \ {y}) \ {x}, w) \in Int
      <4>1. (s \ {y}) \ {x} \in SUBSET s /\ (s \ {y}) \ {x} # s BY <1>5
      <4>. QED BY <1>3, <4>1
    <3>5. w[x] \in Int /\ w[y] \in Int BY <1>5
    <3>6. Total(s \ {x}, w) = Total((s \ {y}) \ {x}, w) + w[y] BY <3>1, <3>2
    <3>. QED BY <1>7, <3>3, <3>4, <3>5, <3>6
  <2>. QED BY <2>1, <2>2
<1>. QED BY <1>2, <1>9, <1>10

LEMMA TotalSame ==
  ASSUME NEW S, IsFiniteSet(S), NEW v, NEW w, \A x \in S : v[x] = w[x]
  PROVE  Total(S, v) = Total(S, w)
<1> DEFINE Bad == {s \in SUBSET S : Total(s, v) # Total(s, w)}
<1>1. SUFFICES ASSUME Bad # {} PROVE FALSE OBVIOUS
<1>2. PICK s \in Bad : \A u \in Bad : u \subseteq s => u = s
  <2>1. Bad \in SUBSET SUBSET S OBVIOUS
  <2> HIDE DEF Bad
  <2>. QED BY <1>1, <2>1, Least
<1>3. s # {} BY <1>2, TotalEmpty
<1>4. First(s) \in s /\ IsFiniteSet(s) BY <1>3, FirstIn, FS_Subset
<1>5. Total(s \ {First(s)}, v) = Total(s \ {First(s)}, w) BY <1>2, <1>4
<1>6. v[First(s)] = w[First(s)] BY <1>4
<1>. QED BY <1>2, <1>3, <1>4, <1>5, <1>6, TotalFirst

(***************************************************************************)
(* What a statement on the votes can be at.  A vote takes its game's row   *)
(* first and then its own row, and only a delete that has its game's row   *)
(* goes on to rows of votes.                                               *)
(***************************************************************************)

Ways == Games \X Voters
GameLocks == {GameRow(g) : g \in Games}

VotePlans == {LockOrder(g, v) : g \in Games, v \in Voters} \cup {<<r>> : r \in Ways}
Casting(s) ==
  /\ s \in [kind : {"vote"}, held : SUBSET GameLocks, plan : VotePlans,
            game : Games, voter : Voters, stars : Stars]
  /\ \/ s.held = {} /\ s.plan = LockOrder(s.game, s.voter)
     \/ s.held = {GameRow(s.game)} /\ s.plan = <<<<s.game, s.voter>>>>
Deleting(s) ==
  /\ s \in [kind : {"delete"}, held : SUBSET (GameLocks \cup Ways),
            plan : Seq(GameLocks \cup Ways), game : Games]
  /\ IF s.held = {} THEN s.plan = <<GameRow(s.game)>> ELSE s.plan \in Seq(Ways)
Sweeping(s) ==
  s \in [kind : {"prune"}, held : SUBSET Ways, plan : Seq(Ways), rows : SUBSET Ways]

Jobs(s) == s = Idle \/ Casting(s) \/ Deleting(s) \/ Sweeping(s) \/ s.kind \in {"look", "pick"}

Tables ==
  /\ present \subseteq Games
  /\ Rows \subseteq present \X Voters /\ IsFiniteSet(Rows)
  /\ \A r \in Rows : rating[r] \in Stars
  /\ addressed \subseteq Rows
  /\ \A g \in Games : sum[g] \in Int /\ count[g] \in Int
  /\ DOMAIN sum = Games /\ DOMAIN count = Games

VotesInv == Tables /\ (\A c \in Conns : Jobs(conn[c])) /\ TotalsExact

LEMMA OrderTyped ==
  ASSUME NEW S, IsFiniteSet(S), NEW order \in SetToSeqs(S)
  PROVE  order \in Seq(S)
<1>1. Cardinality(S) \in Nat BY FS_CardinalityType
<1>2. order \in [1..Cardinality(S) -> S] BY DEF SetToSeqs
<1>. QED BY <1>1, <1>2, SeqDef

LEMMA SweepTyped ==
  ASSUME NEW order \in Seq(Ways)
  PROVE  Sweeping(Sweep(order))
<1>1. \A i \in DOMAIN order : order[i] \in Ways BY LenProperties, ElementOfSeq
<1>. QED BY <1>1 DEF Sweeping, Sweep, ToSet

LEMMA BatchTyped ==
  ASSUME NEW old, old \subseteq Ways, IsFiniteSet(old), NEW order \in Batches(old)
  PROVE  order \in Seq(Ways)
<1>1. PICK S \in SUBSET old : order \in SetToSeqs(S) BY DEF Batches
<1>2. S \subseteq Ways /\ IsFiniteSet(S) BY FS_Subset
<1>. QED BY <1>1, <1>2, OrderTyped, SeqMonotonic

LEMMA Orders ==
  ASSUME NEW g, NEW v
  PROVE  /\ Len(<<<<g, v>>>>) = 1 /\ Len(LockOrder(g, v)) = 2
         /\ Head(LockOrder(g, v)) = GameRow(g) /\ Tail(LockOrder(g, v)) = <<<<g, v>>>>
         /\ Head(<<<<g, v>>>>) = <<g, v>>
  BY DEF LockOrder

LEMMA Kinds ==
  /\ Idle.kind = "idle"
  /\ \A s : Casting(s) => s.kind = "vote"
  /\ \A s : Deleting(s) => s.kind = "delete"
  /\ \A s : Sweeping(s) => s.kind = "prune"
  BY DEF Idle, Casting, Deleting, Sweeping

(* Every statement goes on to something it can be at.                      *)
LEMMA VoteGoesOn ==
  ASSUME Tables, NEW c \in Conns, Jobs(conn[c]), VoteLocks(c)
  PROVE  \E s : Jobs(s) /\ Becomes(c, s)
<1>1. CASE Becomes(c, Idle) BY <1>1 DEF Jobs
<1>2. CASE Becomes(c, Takes(c))
  <2>1. Casting(conn[c]) /\ Len(conn[c].plan) = 2 BY Kinds DEF Jobs, VoteLocks, Is
  <2>2. conn[c].held = {} /\ conn[c].plan = LockOrder(conn[c].game, conn[c].voter)
    <3>1. PICK r : r = <<conn[c].game, conn[c].voter>> OBVIOUS
    <3>2. conn[c].plan # <<r>> BY <2>1
    <3>. QED BY <2>1, <3>1, <3>2, Zenon DEF Casting
  <2>3. Wants(c) = GameRow(conn[c].game) /\ Tail(conn[c].plan) = <<<<conn[c].game, conn[c].voter>>>>
    BY <2>2, Orders DEF Wants
  <2>4. GameRow(conn[c].game) \in GameLocks /\ <<conn[c].game, conn[c].voter>> \in Ways
    BY <2>1 DEF Casting, GameLocks, Ways
  <2>5. <<<<conn[c].game, conn[c].voter>>>> \in VotePlans BY <2>4 DEF VotePlans
  <2>6. Casting(Takes(c)) BY <2>1, <2>2, <2>3, <2>4, <2>5 DEF Casting, Takes
  <2>. QED BY <1>2, <2>6 DEF Jobs
<1>. QED BY <1>1, <1>2 DEF VoteLocks

LEMMA DeleteGoesOn ==
  ASSUME Tables, NEW c \in Conns, Jobs(conn[c]), DeleteLocks(c)
  PROVE  \E s : Jobs(s) /\ Becomes(c, s)
<1> DEFINE Rights == GameLocks \cup Ways
<1>0. Deleting(conn[c]) /\ conn[c].plan # <<>> BY Kinds DEF Jobs, DeleteLocks, Is, Free, Waits
<1>1. CASE Becomes(c, Idle) BY <1>1 DEF Jobs
<1>2. CASE conn[c].held # {} /\ Becomes(c, Takes(c))
  <2>1. conn[c].plan \in Seq(Ways) BY <1>0, <1>2 DEF Deleting
  <2>2. Wants(c) \in Ways /\ Tail(conn[c].plan) \in Seq(Ways) BY <1>0, <2>1, HeadTailProperties DEF Wants
  <2>3. Tail(conn[c].plan) \in Seq(Rights) BY <2>2, SeqMonotonic
  <2>4. Deleting(Takes(c)) BY <1>0, <1>2, <2>2, <2>3 DEF Takes, Deleting
  <2>. QED BY <1>2, <2>4 DEF Jobs
<1>3. CASE conn[c].held = {} /\ \E order \in SetToSeqs(RowsOf(conn[c].game)) :
                                  Becomes(c, [Takes(c) EXCEPT !.plan = order])
  <2>1. PICK order \in SetToSeqs(RowsOf(conn[c].game)) : Becomes(c, [Takes(c) EXCEPT !.plan = order])
    BY <1>3
  <2>2. RowsOf(conn[c].game) \subseteq Ways /\ IsFiniteSet(RowsOf(conn[c].game))
    BY FS_Subset DEF Tables, Ways, RowsOf
  <2>3. order \in Seq(Ways) /\ order \in Seq(Rights) BY <2>2, OrderTyped, SeqMonotonic
  <2>4. Wants(c) \in GameLocks
    <3>1. conn[c].plan = <<GameRow(conn[c].game)>> /\ conn[c].game \in Games BY <1>0, <1>3 DEF Deleting
    <3>. QED BY <3>1 DEF Wants, GameLocks
  <2>5. Deleting([Takes(c) EXCEPT !.plan = order])
    BY <1>0, <1>3, <2>3, <2>4 DEF Takes, Deleting
  <2>. QED BY <2>1, <2>5 DEF Jobs
<1>. QED BY <1>1, <1>2, <1>3 DEF DeleteLocks

LEMMA PruneGoesOn ==
  ASSUME Tables, NEW c \in Conns, Jobs(conn[c]), PruneLocks(c) \/ PruneCommits(c)
  PROVE  \E s : Jobs(s) /\ Becomes(c, s)
<1>0. Sweeping(conn[c]) BY Kinds DEF Jobs, PruneLocks, PruneCommits, Is
<1>1. CASE PruneLocks(c)
  <2>1. conn[c].plan \in Seq(Ways) /\ conn[c].plan # <<>> BY <1>0, <1>1 DEF Sweeping, PruneLocks, Free, Waits
  <2>2. Wants(c) \in Ways /\ Tail(conn[c].plan) \in Seq(Ways) BY <2>1, HeadTailProperties DEF Wants
  <2>3. Sweeping(Takes(c)) BY <1>0, <2>2 DEF Takes, Sweeping
  <2>. QED BY <1>1, <2>3 DEF PruneLocks, Jobs
<1>2. CASE PruneCommits(c)
  <2>1. addressed' \subseteq Ways /\ IsFiniteSet(addressed')
    BY <1>2, FS_Subset DEF PruneCommits, Tables, Ways
  <2>2. \A order \in Batches(addressed') : Sweeping(Sweep(order)) BY <2>1, BatchTyped, SweepTyped
  <2>3. Becomes(c, Idle) \/ \E order \in Batches(addressed') : Becomes(c, Sweep(order))
    BY <1>2, Zenon DEF PruneCommits
  <2>. QED BY <2>2, <2>3 DEF Jobs
<1>. QED BY <1>1, <1>2

LEMMA PickGoesOn ==
  ASSUME WeekInv, NEW c \in Conns, PickStep(c)
  PROVE  \E s : Jobs(s) /\ Becomes(c, s)
<1>0. {"kind", "held", "plan"} \subseteq DOMAIN conn[c] BY DEF WeekInv, Shapes
<1>1. CASE LookUp(c) \/ BeginPick(c) BY <1>1 DEF LookUp, BeginPick, Begin, Jobs
<1>2. CASE PickLocks(c)
  <2>1. Takes(c).kind = conn[c].kind BY <1>0 DEF Takes
  <2>. QED BY <1>2, <2>1 DEF PickLocks, Is, Jobs
<1>3. CASE PickSelects(c)
  <2>1. \A p : [conn[c] EXCEPT !.plan = p].kind = conn[c].kind BY <1>0
  <2>. QED BY <1>3, <2>1 DEF PickSelects, Is, Jobs
<1>4. CASE PickInserts(c) \/ PickFails(c) BY <1>4 DEF PickInserts, PickFails, Jobs
<1>. QED BY <1>1, <1>2, <1>3, <1>4 DEF PickStep

LEMMA JobsStep ==
  ASSUME WeekInv, VotesInv, [Next]_vars
  PROVE  \A c \in Conns : Jobs(conn'[c])
<1>1. ASSUME NEW c \in Conns, \E s : Jobs(s) /\ Becomes(c, s) PROVE \A d \in Conns : Jobs(conn'[d])
  BY <1>1 DEF Becomes, VotesInv, WeekInv, Shapes
<1>2. CASE conn' = conn BY <1>2 DEF VotesInv
<1>3. ASSUME NEW c \in Conns, VoteStep(c) PROVE \E s : Jobs(s) /\ Becomes(c, s)
  <2>1. CASE \E g \in Games, v \in Voters, s \in Stars : BeginVote(c, g, v, s)
    <3>1. PICK g \in Games, v \in Voters, n \in Stars : BeginVote(c, g, v, n) BY <2>1
    <3> DEFINE s == [kind |-> "vote", held |-> {}, plan |-> LockOrder(g, v),
                     game |-> g, voter |-> v, stars |-> n]
    <3>2. LockOrder(g, v) \in VotePlans BY DEF VotePlans
    <3>3. Casting(s) BY <3>2 DEF Casting
    <3>. QED BY <3>1, <3>3 DEF BeginVote, Begin, Jobs
  <2>2. CASE VoteLocks(c) BY <2>2, VoteGoesOn DEF VotesInv
  <2>3. CASE VoteCommits(c) BY <2>3 DEF VoteCommits, Jobs
  <2>. QED BY <1>3, <2>1, <2>2, <2>3 DEF VoteStep
<1>4. ASSUME NEW c \in Conns, PruneStep(c) PROVE \E s : Jobs(s) /\ Becomes(c, s)
  <2>1. CASE BeginPrune(c)
    <3>1. PICK order \in Batches(addressed) : Begin(c, Sweep(order)) BY <2>1 DEF BeginPrune
    <3>2. addressed \subseteq Ways /\ IsFiniteSet(addressed) BY FS_Subset DEF VotesInv, Tables, Ways
    <3>3. Sweeping(Sweep(order)) BY <3>2, BatchTyped, SweepTyped
    <3>. QED BY <3>1, <3>3 DEF Begin, Jobs
  <2>. QED BY <1>4, <2>1, PruneGoesOn DEF PruneStep, VotesInv
<1>5. ASSUME NEW c \in Conns, NEW g \in present, BeginDelete(c, g) PROVE \E s : Jobs(s) /\ Becomes(c, s)
  <2> DEFINE s == [kind |-> "delete", held |-> {}, plan |-> <<GameRow(g)>>, game |-> g]
  <2>1. g \in Games BY DEF VotesInv, Tables
  <2>2. Deleting(s) BY <2>1 DEF Deleting, GameLocks
  <2>. QED BY <1>5, <2>2 DEF BeginDelete, Begin, Jobs
<1>6. ASSUME NEW c \in Conns, Cancelled(c) \/ DeleteCommits(c) PROVE \E s : Jobs(s) /\ Becomes(c, s)
  BY <1>6 DEF Cancelled, DeleteCommits, Jobs
<1>7. ASSUME NEW c \in Conns, PickStep(c) \/ Deletes(c) \/ TableStep(c)
      PROVE  \E s : Jobs(s) /\ Becomes(c, s)
  BY <1>3, <1>4, <1>5, <1>6, <1>7, DeleteGoesOn, PickGoesOn DEF TableStep, Deletes, VotesInv
<1>8. CASE UNCHANGED vars \/ Tick \/ \E g \in Games : Unhosted(g) \/ Hosted(g)
  BY <1>2, <1>8 DEF vars, votesVars, Tick, Unhosted, Hosted, StreamChanges
<1>. QED BY <1>1, <1>7, <1>8 DEF Next

LEMMA VotesInit0 == Init => VotesInv
<1> SUFFICES ASSUME Init PROVE VotesInv
  OBVIOUS
<1>1. Rows = {} BY DEF Init, VotesInit, Rows
<1>2. Tables BY <1>1, FS_EmptySet DEF Init, VotesInit, Tables
<1>3. \A c \in Conns : Jobs(conn[c]) BY DEF Init, VotesInit, Jobs
<1>4. \A g \in Games : RowsOf(g) = {} BY <1>1 DEF RowsOf
<1>5. TotalsExact
  <2>1. \A g \in present : count[g] = 0 /\ sum[g] = 0 /\ RowsOf(g) = {}
    BY <1>4 DEF Init, VotesInit
  <2>. QED BY <2>1, FS_EmptySet, TotalEmpty DEF TotalsExact
<1>. QED BY <1>2, <1>3, <1>5 DEF VotesInv

LEMMA VoteCounted ==
  ASSUME VotesInv, NEW c \in Conns, VoteCommits(c)
  PROVE  Tables' /\ TotalsExact'
<1>0. PICK g, n : g = conn[c].game /\ n = conn[c].stars OBVIOUS
<1>r. PICK r : r = <<g, conn[c].voter>> OBVIOUS
<1>1. g \in Games /\ conn[c].voter \in Voters /\ n \in Stars
  BY <1>0, Kinds DEF VotesInv, Jobs, VoteCommits, Is, Casting
<1>2. CASE g \notin present
  BY <1>0, <1>2 DEF VoteCommits, VotesInv, Tables, TotalsExact, Rows, RowsOf
<1>3. CASE g \in present
  <2>1. /\ present' = present
        /\ rating' = [q \in Rows \cup {r} |-> IF q = r THEN n ELSE rating[q]]
        /\ addressed' = addressed \cup {r}
        /\ sum' = [sum EXCEPT ![g] = Synced(r, n).sum]
        /\ count' = [count EXCEPT ![g] = Synced(r, n).count]
    BY <1>0, <1>r, <1>3 DEF VoteCommits
  <2>2. r[1] = g /\ r \in present \X Voters BY <1>r, <1>1, <1>3
  <2>3. n \in Int /\ \A q \in Rows : rating[q] \in Int
    <3>1. Stars \subseteq Int BY VotesAssumption
    <3>. QED BY <1>1, <3>1 DEF VotesInv, Tables
  <2>4. sum[g] \in Int /\ count[g] \in Int BY <1>1 DEF VotesInv, Tables
  <2>5. Synced(r, n) = IF r \in Rows THEN [sum |-> sum[g] + n - rating[r], count |-> count[g]]
                       ELSE [sum |-> sum[g] + n, count |-> count[g] + 1]
    BY <2>2 DEF Synced
  <2>6. Rows' = Rows \cup {r} BY <2>1 DEF Rows
  <2>7. \A q \in Rows' : rating'[q] = IF q = r THEN n ELSE rating[q] BY <2>1, <2>6
  <2>8. Synced(r, n).sum \in Int /\ Synced(r, n).count \in Int BY <2>3, <2>4, <2>5
  <2>9. Tables'
    <3>1. IsFiniteSet(Rows') BY <2>6, FS_AddElement DEF VotesInv, Tables
    <3>2. \A q \in Rows' : rating'[q] \in Stars BY <1>1, <2>6, <2>7 DEF VotesInv, Tables
    <3>. QED BY <1>1, <2>1, <2>2, <2>6, <2>8, <3>1, <3>2 DEF VotesInv, Tables
  <2>10. ASSUME NEW h \in present, h # g
         PROVE  /\ count'[h] = Cardinality(RowsOf(h)')
                /\ sum'[h] = Total(RowsOf(h)', rating')
    <3>1. RowsOf(h)' = RowsOf(h) BY <2>2, <2>6, <2>10 DEF RowsOf
    <3>2. IsFiniteSet(RowsOf(h)) BY FS_Subset DEF RowsOf, VotesInv, Tables
    <3>3. \A q \in RowsOf(h) : rating'[q] = rating[q] BY <2>2, <2>6, <2>7, <2>10 DEF RowsOf
    <3>4. Total(RowsOf(h), rating') = Total(RowsOf(h), rating) BY <3>2, <3>3, TotalSame
    <3>5. sum'[h] = sum[h] /\ count'[h] = count[h] BY <2>1, <2>10 DEF VotesInv, Tables
    <3>6. count[h] = Cardinality(RowsOf(h)) /\ sum[h] = Total(RowsOf(h), rating)
      BY Zenon DEF VotesInv, TotalsExact
    <3>. QED BY <3>1, <3>4, <3>5, <3>6
  <2>11. /\ count'[g] = Cardinality(RowsOf(g)')
         /\ sum'[g] = Total(RowsOf(g)', rating')
    <3> DEFINE S == RowsOf(g) \ {r}
    <3>1. RowsOf(g)' = S \cup {r} /\ r \notin S BY <2>2, <2>6 DEF RowsOf
    <3>2. IsFiniteSet(RowsOf(g)) BY FS_Subset DEF RowsOf, VotesInv, Tables
    <3>3. IsFiniteSet(S) /\ IsFiniteSet(S \cup {r}) /\ S = (S \cup {r}) \ {r}
      BY <3>2, FS_RemoveElement, FS_AddElement
    <3>4. /\ sum'[g] = Synced(r, n).sum /\ count'[g] = Synced(r, n).count
      BY <1>1, <2>1 DEF VotesInv, Tables
    <3>5. count[g] = Cardinality(RowsOf(g)) /\ sum[g] = Total(RowsOf(g), rating)
      BY <1>3, Zenon DEF VotesInv, TotalsExact
    <3>6. \A q \in S : rating'[q] = rating[q] BY <2>6, <2>7 DEF RowsOf
    <3>7. Total(S, rating') = Total(S, rating) BY <3>3, <3>6, TotalSame
    <3>8. rating'[r] = n BY <2>6, <2>7
    <3>9. \A q \in S \cup {r} : rating'[q] \in Int
      BY <2>3, <3>6, <3>8 DEF RowsOf
    <3>10. Total(S \cup {r}, rating') = Total(S, rating') + n
      BY <3>3, <3>8, <3>9, TotalRemove
    <3>11. CASE r \in Rows
      <4>1. r \in RowsOf(g) /\ RowsOf(g)' = RowsOf(g) BY <2>2, <3>1, <3>11 DEF RowsOf
      <4>2. \A q \in RowsOf(g) : rating[q] \in Int BY <2>3 DEF RowsOf
      <4>3. Total(RowsOf(g), rating) = Total(S, rating) + rating[r]
        BY <3>2, <4>1, <4>2, TotalRemove
      <4>4. Total(S, rating) \in Int
        <5>1. \A q \in S : rating[q] \in Int BY <4>2
        <5>. QED BY <3>3, <5>1, TotalRemove
      <4>5. rating[r] \in Int BY <2>3, <3>11
      <4>6. Synced(r, n).sum = sum[g] + n - rating[r] /\ Synced(r, n).count = count[g] BY <2>5, <3>11
      <4>7. sum'[g] = Total(S, rating) + n
        <5> HIDE DEF S
        <5>. QED BY <2>3, <3>4, <3>5, <4>3, <4>4, <4>5, <4>6
      <4>8. count'[g] = Cardinality(RowsOf(g)') BY <3>4, <3>5, <4>1, <4>6
      <4>. QED BY <3>1, <3>7, <3>10, <4>7, <4>8
    <3>12. CASE r \notin Rows
      <4>1. S = RowsOf(g) BY <3>12 DEF RowsOf
      <4>2. Synced(r, n).sum = sum[g] + n /\ Synced(r, n).count = count[g] + 1 BY <2>5, <3>12
      <4>3. Cardinality(S \cup {r}) = Cardinality(S) + 1 BY <3>1, <3>3, FS_AddElement
      <4>4. count'[g] = Cardinality(RowsOf(g)') BY <3>1, <3>4, <3>5, <4>1, <4>2, <4>3
      <4>5. sum'[g] = Total(RowsOf(g)', rating') BY <3>1, <3>4, <3>5, <3>7, <3>10, <4>1, <4>2
      <4>. QED BY <4>4, <4>5
    <3>. QED BY <3>11, <3>12
  <2>12. TotalsExact'
    <3>1. \A h \in present' : /\ count'[h] = Cardinality(RowsOf(h)')
                              /\ sum'[h] = Total(RowsOf(h)', rating')
      <4> SUFFICES ASSUME NEW h \in present'
                   PROVE  /\ count'[h] = Cardinality(RowsOf(h)')
                          /\ sum'[h] = Total(RowsOf(h)', rating')
        OBVIOUS
      <4>1. CASE h = g BY <4>1, <2>11
      <4>2. CASE h # g
        <5>1. h \in present BY <2>1
        <5>. QED BY <4>2, <5>1, <2>10
      <4>. QED BY <4>1, <4>2
    <3>. QED BY <3>1 DEF TotalsExact
  <2>. QED BY <2>9, <2>12
<1>. QED BY <1>2, <1>3

LEMMA DeletedGone ==
  ASSUME VotesInv, NEW c \in Conns, DeleteCommits(c)
  PROVE  Tables' /\ TotalsExact'
<1> DEFINE g == conn[c].game
<1>1. g \in Games BY Kinds DEF VotesInv, Jobs, DeleteCommits, Is, Deleting
<1>2. /\ present' = present \ {g}
      /\ rating' = [r \in Rows \ RowsOf(g) |-> rating[r]]
      /\ addressed' = addressed \ RowsOf(g)
      /\ sum' = [sum EXCEPT ![g] = 0] /\ count' = [count EXCEPT ![g] = 0]
  BY DEF DeleteCommits
<1> HIDE DEF g
<1>3. Rows' = Rows \ RowsOf(g) /\ \A r \in Rows' : rating'[r] = rating[r] BY <1>2 DEF Rows
<1>4. IsFiniteSet(Rows') BY <1>3, FS_Subset DEF VotesInv, Tables
<1>5. \A r \in Rows' : r \in present' \X Voters
  <2> SUFFICES ASSUME NEW r \in Rows' PROVE r \in present' \X Voters
    OBVIOUS
  <2>1. r \in Rows /\ r[1] # g BY <1>3 DEF RowsOf
  <2>. QED BY <1>2, <2>1 DEF VotesInv, Tables
<1>6. Tables'
  <2>1. addressed' \subseteq Rows' BY <1>2, <1>3 DEF VotesInv, Tables
  <2>2. \A h \in Games : sum'[h] \in Int /\ count'[h] \in Int BY <1>2 DEF VotesInv, Tables
  <2>3. DOMAIN sum' = Games /\ DOMAIN count' = Games BY <1>2 DEF VotesInv, Tables
  <2>. QED BY <1>2, <1>3, <1>4, <1>5, <2>1, <2>2, <2>3 DEF VotesInv, Tables
<1>7. ASSUME NEW h \in present'
      PROVE  /\ count'[h] = Cardinality(RowsOf(h)')
             /\ sum'[h] = Total(RowsOf(h)', rating')
  <2>1. h \in present /\ h # g BY <1>2, <1>7
  <2>2. RowsOf(h)' = RowsOf(h) BY <1>3, <2>1 DEF RowsOf
  <2>3. IsFiniteSet(RowsOf(h)) BY FS_Subset DEF RowsOf, VotesInv, Tables
  <2>4. \A r \in RowsOf(h) : rating'[r] = rating[r] BY <1>3, <2>2 DEF RowsOf
  <2>5. Total(RowsOf(h), rating') = Total(RowsOf(h), rating) BY <2>3, <2>4, TotalSame
  <2>6. sum'[h] = sum[h] /\ count'[h] = count[h] BY <1>2, <2>1 DEF VotesInv, Tables
  <2>7. count[h] = Cardinality(RowsOf(h)) /\ sum[h] = Total(RowsOf(h), rating)
    BY <2>1, Zenon DEF VotesInv, TotalsExact
  <2>. QED BY <2>2, <2>5, <2>6, <2>7
<1>8. TotalsExact' BY <1>7 DEF TotalsExact
<1>. QED BY <1>6, <1>8

LEMMA VotesStep == WeekInv /\ VotesInv /\ [Next]_vars => VotesInv'
<1> SUFFICES ASSUME WeekInv, VotesInv, [Next]_vars PROVE VotesInv'
  OBVIOUS
<1>1. (\A c \in Conns : Jobs(conn[c]))' BY JobsStep
<1>2. ASSUME UNCHANGED <<present, rating, sum, count>>, addressed' \subseteq addressed
      PROVE  Tables' /\ TotalsExact'
  BY <1>2 DEF VotesInv, Tables, TotalsExact, Rows, RowsOf
<1>3. ASSUME NEW c \in Conns, TableStep(c) PROVE Tables' /\ TotalsExact'
  <2>1. CASE VoteStep(c) BY <1>2, <2>1, VoteCounted DEF VoteStep, BeginVote, VoteLocks
  <2>2. CASE PruneStep(c)
    BY <1>2, <2>2 DEF PruneStep, BeginPrune, PruneLocks, PruneCommits
  <2>. QED BY <1>2, <1>3, <2>1, <2>2 DEF TableStep, Cancelled, BeginDelete, DeleteLocks
<1>4. ASSUME NEW c \in Conns, PickStep(c) PROVE Tables' /\ TotalsExact'
  BY <1>2, <1>4 DEF PickStep, LookUp, BeginPick, PickLocks, PickSelects, PickInserts, PickFails
<1>5. ASSUME NEW c \in Conns, Deletes(c) PROVE Tables' /\ TotalsExact'
  BY <1>5, DeletedGone DEF Deletes
<1>6. ASSUME UNCHANGED vars \/ Tick \/ \E g \in Games : Unhosted(g) \/ Hosted(g)
      PROVE  Tables' /\ TotalsExact'
  BY <1>2, <1>6 DEF vars, votesVars, Tick, Unhosted, Hosted, StreamChanges
<1>7. Tables' /\ TotalsExact' BY <1>3, <1>4, <1>5, <1>6, Zenon DEF Next
<1>. QED BY <1>1, <1>7 DEF VotesInv

(***************************************************************************)
(* The inductive invariant of the votes: the tables' keys (ratings' key    *)
(* and its foreign key to games), the shapes above and the exact totals.   *)
(***************************************************************************)
THEOREM VotesCorrect == Spec => []VotesInv
<1>. QED BY WeekInit, WeekStep, VotesInit0, VotesStep, PTL DEF Spec

(***************************************************************************)
(* The totals on a game's row are those of its votes, in every state: the  *)
(* trigger sync_games_rating_totals under Game.rate's upserts, Game.delete *)
(* and its cascade, and the batches of pruneRatingIps (models/game.ts).    *)
(***************************************************************************)
THEOREM TotalsExactCorrect == Spec => []TotalsExact
<1>1. VotesInv => TotalsExact BY DEF VotesInv
<1>. QED BY VotesCorrect, <1>1, PTL

(* Behind a vote that holds nothing are only connections that hold         *)
(* something; behind one that holds its game's row, only those that want   *)
(* rows of votes: prunes, and deletes past the game's row.  Both sets are  *)
(* closed under waiting and leave the vote out.                            *)
LEMMA NobodyBehind ==
  ASSUME WeekInv, VotesInv, NEW c \in Conns, Is(c, "vote")
  PROVE  c \notin Behind(c)
<1> DEFINE Holders == {d \in Conns : conn[d].held # {}}
           Takers == {d \in Conns : \/ Is(d, "prune")
                                    \/ Is(d, "delete") /\ conn[d].held # {}}
<1>1. Casting(conn[c]) BY Kinds DEF VotesInv, Jobs, Is
<1>2. CASE conn[c].held = {}
  <2>1. \A d \in Conns : Blockers(d) \subseteq Holders BY DEF Blockers
  <2>2. c \notin Holders /\ Holders \in SUBSET Conns BY <1>2
  <2>. QED BY <2>1, <2>2, Zenon DEF Behind
<1>3. CASE conn[c].held # {}
  <2>1. \A d \in Conns : conn[d].held \cap Ways # {} => d \in Takers
    <3> SUFFICES ASSUME NEW d \in Conns, conn[d].held \cap Ways # {} PROVE d \in Takers
      OBVIOUS
    <3>1. ~Casting(conn[d])
      <4>1. \A g : GameRow(g) \notin Ways BY DEF GameRow, Ways
      <4>. QED BY <4>1 DEF Casting
    <3>2. ~Is(d, "pick") BY DEF WeekInv, Shapes, Pickers, Selection, Ways
    <3>3. ~Is(d, "look") BY DEF WeekInv, Shapes, Lookers
    <3>4. conn[d] # Idle BY DEF Idle
    <3>. QED BY <3>1, <3>2, <3>3, <3>4, Kinds DEF VotesInv, Jobs, Is
  <2>2. \A d \in Takers \cup {c} : Waits(d) => Wants(d) \in Ways
    <3> SUFFICES ASSUME NEW d \in Takers \cup {c}, Waits(d) PROVE Wants(d) \in Ways
      OBVIOUS
    <3>1. CASE d = c
      <4>1. conn[c].plan = <<<<conn[c].game, conn[c].voter>>>> /\ conn[c].game \in Games /\ conn[c].voter \in Voters
        BY <1>1, <1>3 DEF Casting
      <4>. QED BY <3>1, <4>1 DEF Wants, Ways
    <3>2. CASE d \in Takers
      <4>1. conn[d].plan \in Seq(Ways)
        BY <3>2, Kinds DEF VotesInv, Jobs, Is, Deleting, Sweeping
      <4>. QED BY <4>1, HeadTailProperties DEF Wants, Waits
    <3>. QED BY <3>1, <3>2
  <2>3. \A d \in Takers \cup {c} : Blockers(d) \subseteq Takers
    BY <2>1, <2>2 DEF Blockers
  <2>4. c \notin Takers BY DEF Is
  <2>5. Takers \in SUBSET Conns OBVIOUS
  <2> HIDE DEF Takers
  <2>. QED BY <2>3, <2>4, <2>5, Zenon DEF Behind
<1>. QED BY <1>2, <1>3

(***************************************************************************)
(* No vote waits for itself, however indirectly: Game.rate locks the       *)
(* game's row before the upsert locks the vote's (models/game.ts).         *)
(***************************************************************************)
THEOREM VotesNeverDeadlockCorrect == Spec => []VotesNeverDeadlock
<1>1. WeekInv /\ VotesInv => VotesNeverDeadlock BY NobodyBehind DEF VotesNeverDeadlock
<1>. QED BY WeekInit, WeekStep, VotesCorrect, <1>1, PTL DEF Spec
=============================================================================
