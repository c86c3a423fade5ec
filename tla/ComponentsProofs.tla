--------------------------- MODULE ComponentsProofs ---------------------------
(***************************************************************************)
(* Theorems about components that keep their state to themselves: the      *)
(* agent's session (AutonomySession), the same session under requests that *)
(* run at once (SessionThreads), the run archive (RunArchive), the two     *)
(* networks (InMemoryBus, MqttNetwork) and the tools (ToolRegistry).  Each *)
(* is proved about the component, for any values of its constants, and     *)
(* lifted to PartsSpec, in which one component runs and the others stand   *)
(* still.                                                                  *)
(***************************************************************************)
EXTENDS MCComponents, WellFoundedInduction, FiniteSetTheorems, TLAPS
-----------------------------------------------------------------------------
(* AutonomySession: what a trail shows.                                    *)

\* LiveAfter, of any trail.
LiveIn(s, n) ==
    LET decided == {i \in 1..n : s[i].type = "decided"}
        ended(i) == \E j \in i+1..n : s[j].type = "expired" /\ s[j].grant = s[i].grant
    IN  {s[i].grant : i \in {k \in decided : ~ended(k)}}

TrailEvent ==
    [type : {"requested", "decided", "refused", "expired", "change"},
     grant : AutonomyGrant \cup {None}, trigger : {None, "sim_time", "revoked", "question_count"},
     tool : Tools \cup {None}, tier : Tier, at : Nat]

\* The change that is the n-th event of a trail is covered by what is live there.
CoveredIn(s, n) ==
    s[n].type = "change" /\ s[n].tier > DefaultTier =>
        \E g \in LiveIn(s, n) : g = s[n].grant /\ Allows(g, s[n].tool, s[n].tier, s[n].at)

\* A trail of events up to an instant, whose changes are covered.
GoodTrail(s, now) ==
    /\ s \in Seq(TrailEvent)
    /\ \A i \in DOMAIN s : s[i].at \in 0..now
    /\ \A i \in DOMAIN s : CoveredIn(s, i)

\* What is held, as a set.
HeldSet(g) == IF g = None THEN {} ELSE {g}

\* Each grant that is live was decided and has no end after it.
LEMMA LiveInMeans ==
    ASSUME NEW s, NEW n, NEW g
    PROVE  g \in LiveIn(s, n) <=>
              \E i \in 1..n : /\ s[i].type = "decided" /\ s[i].grant = g
                              /\ \A j \in i+1..n : ~(s[j].type = "expired" /\ s[j].grant = g)
  BY DEF LiveIn

\* What was live at a point of a trail does not depend on what came later.
LEMMA LivePrefix ==
    ASSUME NEW s \in Seq(TrailEvent), NEW e \in TrailEvent, NEW n \in Nat, n <= Len(s)
    PROVE  LiveIn(Append(s, e), n) = LiveIn(s, n)
  <1> DEFINE q == Append(s, e)
             Shows(i, g) == /\ s[i].type = "decided" /\ s[i].grant = g
                            /\ \A j \in i+1..n : ~(s[j].type = "expired" /\ s[j].grant = g)
             ShowsThen(i, g) == /\ q[i].type = "decided" /\ q[i].grant = g
                                /\ \A j \in i+1..n : ~(q[j].type = "expired" /\ q[j].grant = g)
  <1>1. \A i \in 1..n : q[i] = s[i] OBVIOUS
  <1>2. \A i \in 1..n : i+1..n \subseteq 1..n OBVIOUS
  <1> HIDE DEF q
  <1>3. ASSUME NEW g, NEW i \in 1..n PROVE ShowsThen(i, g) <=> Shows(i, g) BY <1>1, <1>2
  <1>4. ASSUME NEW g PROVE g \in LiveIn(q, n) <=> g \in LiveIn(s, n)
    <2>1. g \in LiveIn(q, n) <=> \E i \in 1..n : ShowsThen(i, g) BY LiveInMeans
    <2>2. g \in LiveIn(s, n) <=> \E i \in 1..n : Shows(i, g) BY LiveInMeans
    <2> HIDE DEF Shows, ShowsThen
    <2> QED BY <1>3, <2>1, <2>2
  <1> QED BY <1>4 DEF q

\* One event more: a decision adds its grant, an expiry takes it away, and every
\* other event leaves what is live.
LEMMA LiveAppend ==
    ASSUME NEW s \in Seq(TrailEvent), NEW e \in TrailEvent
    PROVE  LiveIn(Append(s, e), Len(s) + 1) =
              IF e.type = "decided" THEN LiveIn(s, Len(s)) \cup {e.grant}
              ELSE IF e.type = "expired" THEN LiveIn(s, Len(s)) \ {e.grant}
              ELSE LiveIn(s, Len(s))
  <1> DEFINE q == Append(s, e)
             n == Len(s)
             Shows(i, g) == /\ s[i].type = "decided" /\ s[i].grant = g
                            /\ \A j \in i+1..n : ~(s[j].type = "expired" /\ s[j].grant = g)
             ShowsThen(i, g) == /\ q[i].type = "decided" /\ q[i].grant = g
                                /\ \A j \in i+1..n+1 : ~(q[j].type = "expired" /\ q[j].grant = g)
  <1>1. n \in Nat /\ (\A i \in 1..n : q[i] = s[i]) /\ q[n+1] = e OBVIOUS
  <1>2. \A i \in 1..n : i+1..n+1 = (i+1..n) \cup {n+1} BY <1>1
  <1>3. ASSUME NEW i \in 1..n PROVE i+1..n \subseteq 1..n BY <1>1
  <1> HIDE DEF q, n
  <1>4. ASSUME NEW g, NEW i \in 1..n
        PROVE  ShowsThen(i, g) <=> Shows(i, g) /\ ~(e.type = "expired" /\ e.grant = g)
    BY <1>1, <1>2, <1>3
  <1>5. ASSUME NEW g PROVE ShowsThen(n+1, g) <=> e.type = "decided" /\ e.grant = g
    <2>1. n+1+1..n+1 = {} BY <1>1
    <2> QED BY <1>1, <2>1
  <1>6. 1..n+1 = (1..n) \cup {n+1} BY <1>1
  <1>7. ASSUME NEW g
        PROVE  g \in LiveIn(q, n+1) <=>
                  \/ g \in LiveIn(s, n) /\ ~(e.type = "expired" /\ e.grant = g)
                  \/ e.type = "decided" /\ e.grant = g
    <2>1. g \in LiveIn(q, n+1) <=> \E i \in 1..n+1 : ShowsThen(i, g) BY LiveInMeans
    <2>2. g \in LiveIn(s, n) <=> \E i \in 1..n : Shows(i, g) BY LiveInMeans
    <2> HIDE DEF Shows, ShowsThen
    <2> QED BY <1>4, <1>5, <1>6, <2>1, <2>2
  <1> QED BY <1>7 DEF q, n
-----------------------------------------------------------------------------
(* AutonomySession: the session.                                           *)

\* The session's state: it holds what its trail shows, the changes on the trail
\* and the last call are covered, and the call was let through on this trail.
SessionInv ==
    /\ TypeOK
    /\ GoodTrail(trail, clock)
    /\ LiveIn(trail, Len(trail)) = HeldSet(grant)
    /\ call # None =>
          /\ call.after \in 0..Len(trail)
          /\ call.tier > DefaultTier =>
                \E g \in LiveIn(trail, call.after) : Allows(g, call.tool, call.tier, call.at)

\* s shows the grant g and goes on from the trail t.
Follows(s, t, g) ==
    /\ GoodTrail(s, clock)
    /\ LiveIn(s, Len(s)) = HeldSet(g)
    /\ Len(t) <= Len(s)
    /\ \A n \in 0..Len(t) : LiveIn(s, n) = LiveIn(t, n)

\* A trail with one event more is good when the change in it is covered by what
\* was live before.
LEMMA AppendGood ==
    ASSUME NEW s, GoodTrail(s, clock), NEW e \in TrailEvent, e.at = clock, clock \in Nat,
           e.type = "change" /\ e.tier > DefaultTier =>
               \E g \in LiveIn(s, Len(s)) : g = e.grant /\ Allows(g, e.tool, e.tier, e.at)
    PROVE  /\ GoodTrail(Append(s, e), clock)
           /\ \A n \in 0..Len(s) : LiveIn(Append(s, e), n) = LiveIn(s, n)
           /\ Len(Append(s, e)) = Len(s) + 1 /\ Len(s) \in Nat
  <1> DEFINE q == Append(s, e)
  <1>1. s \in Seq(TrailEvent) BY DEF GoodTrail
  <1>2. /\ q \in Seq(TrailEvent) /\ Len(q) = Len(s) + 1 /\ Len(s) \in Nat
        /\ DOMAIN q = DOMAIN s \cup {Len(s) + 1} /\ DOMAIN s = 1..Len(s)
        /\ q[Len(s) + 1] = e /\ \A i \in DOMAIN s : q[i] = s[i]
    BY <1>1
  <1>3. \A n \in 0..Len(s) : LiveIn(q, n) = LiveIn(s, n)
    BY <1>1, <1>2, LivePrefix
  <1>4. e.type = "change" => LiveIn(q, Len(s) + 1) = LiveIn(s, Len(s))
    BY <1>1, LiveAppend
  <1> HIDE DEF q
  <1>5. \A i \in DOMAIN q : q[i].at \in 0..clock
    BY <1>2 DEF GoodTrail
  <1>6. ASSUME NEW i \in DOMAIN q PROVE CoveredIn(q, i)
    <2>1. CASE i \in DOMAIN s
      <3>1. LiveIn(q, i) = LiveIn(s, i) /\ q[i] = s[i] BY <1>2, <1>3, <2>1
      <3>2. CoveredIn(s, i) BY <2>1 DEF GoodTrail
      <3> QED BY <3>1, <3>2 DEF CoveredIn
    <2>2. CASE i = Len(s) + 1
      <3>1. q[i] = e BY <1>2, <2>2
      <3> QED BY <1>4, <2>2, <3>1 DEF CoveredIn
    <2> QED BY <1>2, <2>1, <2>2
  <1> QED BY <1>2, <1>3, <1>5, <1>6 DEF GoodTrail, q

\* The events that a call emits.
LEMMA EventTyped ==
    ASSUME clock \in Nat, NEW type \in {"requested", "decided", "refused", "expired", "change"},
           NEW g \in AutonomyGrant \cup {None},
           NEW trigger \in {None, "sim_time", "revoked", "question_count"},
           NEW tool \in Tools \cup {None}, NEW tier \in Tier
    PROVE  /\ Event(type, g, trigger, tool, tier) \in TrailEvent
           /\ Event(type, g, trigger, tool, tier).at = clock
           /\ Event(type, g, trigger, tool, tier).type = type
           /\ Event(type, g, trigger, tool, tier).grant = g
           /\ Event(type, g, trigger, tool, tier).tool = tool
           /\ Event(type, g, trigger, tool, tier).tier = tier
  BY DEF Event, TrailEvent

\* _retire: the expiry of the grant that is held leaves none.
LEMMA ExpiryFollows ==
    ASSUME SessionInv, grant # None, NEW trigger \in {"sim_time", "revoked", "question_count"}
    PROVE  Follows(Append(trail, Expired(trigger)), trail, None)
  <1> DEFINE e == Expired(trigger)
  <1>1. clock \in Nat /\ grant \in AutonomyGrant \cup {None} /\ DefaultTier \in Tier
    BY AutonomyAssumption DEF SessionInv, TypeOK
  <1>2. e \in TrailEvent /\ e.at = clock /\ e.type = "expired" /\ e.grant = grant
    BY <1>1, EventTyped DEF Expired
  <1> HIDE DEF e
  <1>3. GoodTrail(trail, clock) /\ trail \in Seq(TrailEvent) BY DEF SessionInv, GoodTrail
  <1>4. /\ GoodTrail(Append(trail, e), clock)
        /\ \A n \in 0..Len(trail) : LiveIn(Append(trail, e), n) = LiveIn(trail, n)
        /\ Len(Append(trail, e)) = Len(trail) + 1 /\ Len(trail) \in Nat
    BY <1>1, <1>2, <1>3, AppendGood
  <1>5. LiveIn(Append(trail, e), Len(trail) + 1) = LiveIn(trail, Len(trail)) \ {grant}
    BY <1>2, <1>3, LiveAppend
  <1>6. LiveIn(Append(trail, e), Len(trail) + 1) = HeldSet(None)
    BY <1>5 DEF SessionInv, HeldSet
  <1> QED BY <1>4, <1>6 DEF Follows, e

\* _expire_if_stale: what every call sees of the session.
LEMMA SettledFollows ==
    ASSUME SessionInv
    PROVE  /\ Follows(SettledTrail, trail, SettledGrant)
           /\ SettledGrant \in AutonomyGrant \cup {None} /\ SettledQuestions \in Nat
           /\ SettledGrant # None => SettledQuestions < SettledGrant.questions
           /\ SettledGrant = None => SettledQuestions = 0
           /\ SettledGrant # None => clock < SettledGrant.until
  <1>1. CASE stale
    BY <1>1, ExpiryFollows DEF stale, SettledTrail, SettledGrant, SettledQuestions
  <1>2. CASE ~stale
    <2>1. SettledTrail = trail /\ SettledGrant = grant /\ SettledQuestions = questions
      BY <1>2 DEF SettledTrail, SettledGrant, SettledQuestions
    <2>2. Len(trail) \in Nat BY DEF SessionInv, GoodTrail
    <2>3. Follows(trail, trail, grant) BY <2>2 DEF SessionInv, Follows
    <2>4. grant # None => grant.until \in Nat /\ clock \in Nat
      BY AutonomyAssumption DEF SessionInv, TypeOK, AutonomyGrant
    <2>5. grant # None => clock < grant.until BY <1>2, <2>4 DEF stale
    <2> QED BY <2>1, <2>3, <2>5 DEF SessionInv, TypeOK
  <1> QED BY <1>1, <1>2

\* An event that decides and ends nothing leaves what is held.
LEMMA QuietFollows ==
    ASSUME clock \in Nat, NEW s, NEW g, Len(trail) \in Nat, Follows(s, trail, g),
           NEW e \in TrailEvent, e.at = clock, e.type \in {"requested", "refused", "change"},
           e.type = "change" /\ e.tier > DefaultTier =>
               g # None /\ g = e.grant /\ Allows(g, e.tool, e.tier, e.at)
    PROVE  Follows(Append(s, e), trail, g)
  <1>1. GoodTrail(s, clock) /\ s \in Seq(TrailEvent) BY DEF Follows, GoodTrail
  <1>2. e.type = "change" /\ e.tier > DefaultTier =>
            \E h \in LiveIn(s, Len(s)) : h = e.grant /\ Allows(h, e.tool, e.tier, e.at)
    BY DEF Follows, HeldSet
  <1>3. /\ GoodTrail(Append(s, e), clock)
        /\ \A n \in 0..Len(s) : LiveIn(Append(s, e), n) = LiveIn(s, n)
        /\ Len(Append(s, e)) = Len(s) + 1 /\ Len(s) \in Nat
    BY <1>1, <1>2, AppendGood
  <1>4. LiveIn(Append(s, e), Len(s) + 1) = LiveIn(s, Len(s)) BY <1>1, LiveAppend
  <1>5. Len(trail) <= Len(s) /\ LiveIn(s, Len(s)) = HeldSet(g)
        /\ \A n \in 0..Len(trail) : LiveIn(s, n) = LiveIn(trail, n)
    BY DEF Follows
  <1>6. \A n \in 0..Len(trail) : n \in 0..Len(s) BY <1>3, <1>5
  <1>7. \A n \in 0..Len(trail) : LiveIn(Append(s, e), n) = LiveIn(trail, n)
    BY <1>3, <1>5, <1>6
  <1>8. Len(trail) <= Len(Append(s, e)) BY <1>3, <1>5
  <1> QED BY <1>3, <1>4, <1>5, <1>7, <1>8 DEF Follows

\* A call whose trail follows, with a grant of the right form, keeps the invariant.
LEMMA SessionKeeps ==
    ASSUME SessionInv, UNCHANGED <<clock, call>>, Follows(trail', trail, grant'),
           grant' \in AutonomyGrant \cup {None}, questions' \in Nat,
           grant' # None => questions' < grant'.questions,
           grant' = None => questions' = 0
    PROVE  SessionInv'
  <1>1. GoodTrail(trail', clock) BY DEF Follows
  <1>2. \A i \in DOMAIN trail' : trail'[i].at \in 0..clock /\ trail'[i].tier \in Tier
    <2>1. \A s \in Seq(TrailEvent) : \A i \in DOMAIN s : s[i] \in TrailEvent OBVIOUS
    <2>2. \A e \in TrailEvent : e.tier \in Tier BY DEF TrailEvent
    <2> QED BY <1>1, <2>1, <2>2 DEF GoodTrail
  <1>3. TypeOK' BY <1>2 DEF SessionInv, TypeOK
  <1>4. Len(trail) \in Nat /\ Len(trail') \in Nat BY <1>1 DEF SessionInv, GoodTrail
  <1>5. call # None =>
          /\ call.after \in 0..Len(trail')
          /\ call.tier > DefaultTier =>
                \E g \in LiveIn(trail', call.after) : Allows(g, call.tool, call.tier, call.at)
    <2> SUFFICES ASSUME call # None
                 PROVE  /\ call.after \in 0..Len(trail')
                        /\ call.tier > DefaultTier =>
                             \E g \in LiveIn(trail', call.after) :
                                 Allows(g, call.tool, call.tier, call.at)
      OBVIOUS
    <2>1. call.after \in 0..Len(trail) BY DEF SessionInv
    <2>2. LiveIn(trail', call.after) = LiveIn(trail, call.after) BY <2>1 DEF Follows
    <2>3. call.after \in 0..Len(trail') BY <1>4, <2>1 DEF Follows
    <2> QED BY <2>2, <2>3 DEF SessionInv
  <1>6. GoodTrail(trail, clock)' BY <1>1 DEF GoodTrail, CoveredIn
  <1>7. (LiveIn(trail, Len(trail)) = HeldSet(grant))' BY DEF Follows
  <1> QED BY <1>3, <1>5, <1>6, <1>7 DEF SessionInv

\* Every call of the session keeps the invariant.
LEMMA SessionStep ==
    ASSUME SessionInv, [Next]_vars
    PROVE  SessionInv'
  <1> DEFINE sg == SettledGrant
             st == SettledTrail
             sq == SettledQuestions
  <1>0. /\ Follows(st, trail, sg) /\ sg \in AutonomyGrant \cup {None} /\ sq \in Nat
        /\ sg # None => sq < sg.questions
        /\ sg = None => sq = 0
        /\ sg # None => clock < sg.until
    BY SettledFollows
  <1>1. /\ clock \in Nat /\ DefaultTier \in Tier /\ Len(trail) \in Nat
        /\ trail \in Seq(TrailEvent)
    BY AutonomyAssumption DEF SessionInv, TypeOK, GoodTrail
  <1>2. st \in Seq(TrailEvent) /\ Len(st) \in Nat /\ Len(trail) <= Len(st)
    BY <1>0 DEF Follows, GoodTrail
  <1>3. \A tool : allowed_tier_for(tool) \in Tier /\ effective_tier \in Tier
    BY <1>0, <1>1, AutonomyAssumption DEF allowed_tier_for, effective_tier, AutonomyGrant
  <1>4. ASSUME NEW tool, allowed_tier_for(tool) # DefaultTier
        PROVE  sg # None /\ Allows(sg, tool, allowed_tier_for(tool), clock)
    BY <1>0, <1>4 DEF allowed_tier_for, Allows
  <1>5. Settle(<<>>) => trail' = st /\ grant' = sg /\ questions' = sq
    BY <1>2 DEF Settle
  <1>6. ASSUME NEW e \in TrailEvent, Settle(<<e>>)
        PROVE  trail' = Append(st, e) /\ grant' = sg /\ questions' = sq
    BY <1>2, <1>6 DEF Settle
  <1> HIDE DEF sg, st, sq
  <1>7. CASE Tick
    <2>1. /\ clock' = clock + 1 /\ clock' \in 0..MaxTime
          /\ UNCHANGED <<grant, questions, trail, call>>
      BY <1>1, <1>7, AutonomyAssumption DEF Tick
    <2>2. \A i \in DOMAIN trail : trail[i].at \in 0..clock /\ trail[i].tier \in Tier
      BY DEF SessionInv, TypeOK
    <2>3. TypeOK' BY <1>1, <2>1, <2>2 DEF SessionInv, TypeOK
    <2>4. GoodTrail(trail, clock)'
      BY <1>1, <2>1, <2>2 DEF SessionInv, GoodTrail, CoveredIn
    <2> QED BY <2>1, <2>3, <2>4 DEF SessionInv
  <1>8. CASE Read
    <2>1. trail' = st /\ grant' = sg /\ questions' = sq /\ UNCHANGED <<clock, call>>
      BY <1>5, <1>8 DEF Read
    <2> QED BY <1>0, <2>1, SessionKeeps
  <1>9. CASE Refuse
    <2> DEFINE e == Event("refused", None, None, None, DefaultTier)
    <2>1. e \in TrailEvent /\ e.at = clock /\ e.type = "refused" BY <1>1 DEF Event, TrailEvent
    <2>2. trail' = Append(trail, e) /\ UNCHANGED <<clock, grant, questions, call>>
      BY <1>9 DEF Refuse
    <2> HIDE DEF e
    <2>3. Follows(trail, trail, grant) BY <1>1 DEF SessionInv, Follows
    <2>4. Follows(trail', trail, grant') BY <1>1, <2>1, <2>2, <2>3, QuietFollows
    <2> QED BY <2>2, <2>4, SessionKeeps DEF SessionInv, TypeOK
  <1>10. CASE Revoke
    <2>1. grant # None /\ grant' = None /\ questions' = 0 /\ UNCHANGED <<clock, call>>
          /\ trail' = Append(trail, Expired("revoked"))
      BY <1>10 DEF Revoke, Retire
    <2>2. Follows(trail', trail, grant') BY <2>1, ExpiryFollows
    <2> QED BY <2>1, <2>2, SessionKeeps
  <1>11. CASE NoteQuestion
    <2>1. CASE questions + 1 >= grant.questions
      <3>1. grant # None /\ grant' = None /\ questions' = 0 /\ UNCHANGED <<clock, call>>
            /\ trail' = Append(trail, Expired("question_count"))
        BY <1>11, <2>1 DEF NoteQuestion, Retire
      <3>2. Follows(trail', trail, grant') BY <3>1, ExpiryFollows
      <3> QED BY <3>1, <3>2, SessionKeeps
    <2>2. CASE ~(questions + 1 >= grant.questions)
      <3>1. /\ grant # None /\ questions' = questions + 1
            /\ UNCHANGED <<clock, grant, trail, call>>
        BY <1>11, <2>2 DEF NoteQuestion
      <3>2. Follows(trail', trail, grant') BY <1>1, <3>1 DEF SessionInv, Follows
      <3>3. grant.questions \in Nat /\ questions \in Nat /\ grant \in AutonomyGrant \cup {None}
        BY <3>1, AutonomyAssumption DEF SessionInv, TypeOK, AutonomyGrant
      <3>4. questions' \in Nat /\ questions' < grant'.questions BY <2>2, <3>1, <3>3
      <3> QED BY <3>1, <3>2, <3>3, <3>4, SessionKeeps
    <2> QED BY <2>1, <2>2
  <1>12. ASSUME NEW tool \in Tools, RequestElevation(tool) PROVE SessionInv'
    <2> DEFINE e == Event("requested", None, None, tool, effective_tier)
    <2>1. e \in TrailEvent /\ e.at = clock /\ e.type = "requested"
      BY <1>1, <1>3, EventTyped
    <2>2. Settle(<<e>>) /\ UNCHANGED <<clock, call>> BY <1>12 DEF RequestElevation
    <2> HIDE DEF e
    <2>3. trail' = Append(st, e) /\ grant' = sg /\ questions' = sq BY <1>6, <2>1, <2>2
    <2>4. Follows(trail', trail, sg) BY <1>0, <1>1, <2>1, <2>3, QuietFollows
    <2> QED BY <1>0, <2>2, <2>3, <2>4, SessionKeeps
  <1>13. ASSUME NEW tool \in Tools, NEW required \in Tier, Authorize(tool, required)
         PROVE  SessionInv'
    <2>1. /\ trail' = st /\ grant' = sg /\ questions' = sq /\ UNCHANGED clock
          /\ call' = [tool |-> tool, tier |-> allowed_tier_for(tool), at |-> clock,
                      after |-> Len(st)]
      BY <1>5, <1>13 DEF Authorize, st
    <2>2. call'.tool = tool /\ call'.tier = allowed_tier_for(tool) /\ call'.at = clock
          /\ call'.after = Len(st)
      BY <2>1
    <2>3. GoodTrail(st, clock) /\ LiveIn(st, Len(st)) = HeldSet(sg) BY <1>0 DEF Follows
    <2>4. \A i \in DOMAIN st : st[i].at \in 0..clock /\ st[i].tier \in Tier
      <3>1. \A s \in Seq(TrailEvent) : \A i \in DOMAIN s : s[i] \in TrailEvent OBVIOUS
      <3>2. \A e \in TrailEvent : e.tier \in Tier BY DEF TrailEvent
      <3> QED BY <1>2, <2>3, <3>1, <3>2 DEF GoodTrail
    <2>5. TypeOK' BY <1>0, <2>1, <2>4 DEF SessionInv, TypeOK
    <2>6. GoodTrail(trail, clock)' BY <2>1, <2>3 DEF GoodTrail, CoveredIn
    <2>7. call'.after \in 0..Len(trail') BY <1>2, <2>1, <2>2
    <2>8. ASSUME call'.tier > DefaultTier
          PROVE  \E g \in LiveIn(trail', call'.after) : Allows(g, call'.tool, call'.tier, call'.at)
      <3>1. allowed_tier_for(tool) # DefaultTier BY <1>1, <1>3, <2>2, <2>8 DEF Tier
      <3>2. sg # None /\ Allows(sg, tool, allowed_tier_for(tool), clock) BY <1>4, <3>1 DEF sg
      <3> QED BY <2>1, <2>2, <2>3, <3>2 DEF HeldSet
    <2> QED BY <2>1, <2>3, <2>5, <2>6, <2>7, <2>8 DEF SessionInv
  <1>14. ASSUME NEW tool \in Tools, NEW required \in Tier, AttributeChange(tool, required)
         PROVE  SessionInv'
    <2> DEFINE held == allowed_tier_for(tool)
               elevated == held # DefaultTier /\ SettledGrant # None
               under == IF elevated THEN SettledGrant ELSE None
               e == Event("change", under, None, tool, held)
    <2>1. Settle(<<e>>) /\ UNCHANGED <<clock, call>> BY <1>14 DEF AttributeChange
    <2>2. under \in AutonomyGrant \cup {None} /\ held \in Tier BY <1>0, <1>3 DEF sg
    <2>3. held # DefaultTier => under = sg /\ sg # None /\ Allows(sg, tool, held, clock)
      BY <1>4 DEF sg
    <2> HIDE DEF under, held
    <2>4. e \in TrailEvent /\ e.at = clock /\ e.type = "change" /\ e.tool = tool /\ e.tier = held
          /\ e.grant = under
      BY <1>1, <2>2 DEF Event, TrailEvent
    <2> HIDE DEF e
    <2>5. trail' = Append(st, e) /\ grant' = sg /\ questions' = sq BY <1>6, <2>1, <2>4
    <2>6. e.tier > DefaultTier => sg # None /\ sg = e.grant /\ Allows(sg, e.tool, e.tier, e.at)
      BY <1>1, <2>2, <2>3, <2>4 DEF Tier
    <2>7. Follows(trail', trail, sg) BY <1>0, <1>1, <2>4, <2>5, <2>6, QuietFollows
    <2> QED BY <1>0, <2>1, <2>5, <2>7, SessionKeeps
  <1>15. ASSUME NEW g \in AutonomyGrant, Approve(g) PROVE SessionInv'
    <2> DEFINE e == Event("decided", g, None, None, g.tier)
    <2>1. g # None /\ g.tier \in Tier /\ g.questions \in Nat /\ g.questions >= 1
      BY AutonomyAssumption DEF AutonomyGrant, Constructible
    <2>2. e \in TrailEvent /\ e.at = clock /\ e.type = "decided" /\ e.grant = g
      BY <1>1, <2>1, EventTyped
    <2>3. /\ sg = None /\ grant' = g /\ questions' = 0 /\ UNCHANGED <<clock, call>>
          /\ trail' = Append(st, e)
      BY <1>15 DEF Approve, sg, st
    <2> HIDE DEF e
    <2>4. GoodTrail(st, clock) BY <1>0 DEF Follows
    <2>5. /\ GoodTrail(Append(st, e), clock)
          /\ \A n \in 0..Len(st) : LiveIn(Append(st, e), n) = LiveIn(st, n)
          /\ Len(Append(st, e)) = Len(st) + 1
      BY <1>1, <2>2, <2>4, AppendGood
    <2>6. LiveIn(Append(st, e), Len(st) + 1) = LiveIn(st, Len(st)) \cup {g}
      BY <1>2, <2>2, LiveAppend
    <2>7. LiveIn(st, Len(st)) = {} BY <1>0, <2>3 DEF Follows, HeldSet
    <2>8. LiveIn(trail', Len(trail')) = HeldSet(grant')
      BY <2>1, <2>3, <2>5, <2>6, <2>7 DEF HeldSet
    <2>9. \A n \in 0..Len(trail) : n \in 0..Len(st) /\ LiveIn(st, n) = LiveIn(trail, n)
      BY <1>0, <1>1, <1>2 DEF Follows
    <2>10. Len(trail) <= Len(trail') BY <1>1, <1>2, <2>3, <2>5
    <2>11. Follows(trail', trail, grant')
      BY <2>3, <2>5, <2>8, <2>9, <2>10 DEF Follows
    <2> QED BY <2>1, <2>3, <2>11, SessionKeeps
  <1>16. CASE UNCHANGED vars
    <2>1. UNCHANGED <<clock, grant, questions, trail, call>> BY <1>16 DEF vars
    <2> QED BY <2>1 DEF SessionInv, TypeOK, GoodTrail, CoveredIn
  <1> QED
    BY <1>7, <1>8, <1>9, <1>10, <1>11, <1>12, <1>13, <1>14, <1>15, <1>16 DEF Next

\* What the invariant of the session says of its trail and of its calls.
LEMMA SessionMeans ==
    ASSUME SessionInv
    PROVE  TypeOK /\ TrailTellsGrant /\ ElevatedChangeIsCovered /\ ElevatedCallIsCovered
  <1>1. \A n : LiveAfter(n) = LiveIn(trail, n) BY DEF LiveAfter, LiveIn
  <1>2. TrailTellsGrant BY <1>1 DEF SessionInv, TrailTellsGrant, HeldSet
  <1>3. ElevatedChangeIsCovered
    BY <1>1 DEF SessionInv, GoodTrail, CoveredIn, ElevatedChangeIsCovered
  <1>4. ElevatedCallIsCovered BY <1>1 DEF SessionInv, ElevatedCallIsCovered
  <1> QED BY <1>2, <1>3, <1>4 DEF SessionInv

\* A new session holds nothing and its trail shows nothing.
LEMMA SessionBegins ==
    ASSUME Init
    PROVE  SessionInv
  <1>1. trail = <<>> /\ grant = None /\ questions = 0 /\ clock = 0 /\ call = None BY DEF Init
  <1>2. trail \in Seq(TrailEvent) /\ DOMAIN trail = {} /\ Len(trail) = 0 BY <1>1
  <1>3. LiveIn(trail, 0) = {} BY LiveInMeans
  <1>4. TypeOK BY <1>1, <1>2, AutonomyAssumption DEF TypeOK
  <1>5. GoodTrail(trail, clock) BY <1>2 DEF GoodTrail
  <1> QED BY <1>1, <1>2, <1>3, <1>4, <1>5 DEF SessionInv, HeldSet

\* An agent session keeps its invariant through any questions, approvals,
\* revocations, expiries and changes.
THEOREM SessionCorrect == Spec => []SessionInv
  <1>1. SessionInv /\ [Next]_vars => SessionInv' BY SessionStep
  <1> QED BY <1>1, SessionBegins, PTL DEF Spec
-----------------------------------------------------------------------------
(* One component runs: its steps are its own.                              *)

\* A step of the composition is a step of the part that runs, or none.
LEMMA PartRuns ==
    ASSUME [PartsNext]_<<part, vars, tool_vars, portal_vars, temperature_vars,
               bus_vars, mqtt_vars, registry_vars, time_vars, scenario_vars, facility,
               config_vars, versions, archive_vars, sync_vars, rules_vars, thread_vars>>
    PROVE  /\ UNCHANGED part
           /\ part = "autonomy" => [Next]_vars
           /\ part = "threads" => [ThreadsNext]_thread_vars
           /\ part = "archive" => [ArchiveNext]_archive_vars
           /\ part = "bus" => [BusNext]_bus_vars
           /\ part = "mqtt" => [MqttNext]_mqtt_vars
  <1>1. CASE PartsNext BY <1>1 DEF PartsNext, OthersStill
  <1>2. CASE ~PartsNext BY <1>2
  <1> QED BY <1>1, <1>2

\* AutonomySession: the audit trail tells the grant that the session holds, for any
\* grants, tools, limits and order of calls.
THEOREM AuditCorrect == PartsSpec => []AuditTellsGrant
  <1> DEFINE Inv == part = "autonomy" => SessionInv
  <1>1. PartsInit => Inv BY SessionBegins DEF PartsInit
  <1>2. ASSUME Inv, [PartsNext]_<<part, vars, tool_vars, portal_vars, temperature_vars,
                        bus_vars, mqtt_vars, registry_vars, time_vars, scenario_vars, facility,
                        config_vars, versions, archive_vars, sync_vars, rules_vars, thread_vars>>
        PROVE  Inv'
    <2>1. UNCHANGED part /\ (part = "autonomy" => [Next]_vars) BY <1>2, PartRuns
    <2> QED BY <1>2, <2>1, SessionStep
  <1>3. Inv => AuditTellsGrant BY SessionMeans DEF AuditTellsGrant
  <1> QED BY <1>1, <1>2, <1>3, PTL DEF PartsSpec
-----------------------------------------------------------------------------
(* SessionThreads: requests that run at once.                              *)

RequestSteps == {"held?", "stale?", "retire?", "take", "clear", "emit", "answer?", "scope?",
                 "tier", "answered", "AttributeError"}

Request == [at : RequestSteps, scoped : BOOLEAN, retiring : ThreadGrants \cup {NoGrant},
            told : SUBSET ThreadGrants, seen : SUBSET ThreadGrants]

AuditEvent == [kind : {"decided", "expired"}, grant : ThreadGrants]

\* The trail has the decision of the grant, or its end.
OnTrail(kind, g) == \E i \in DOMAIN audit : audit[i].kind = kind /\ audit[i].grant = g

ThreadTypes ==
    /\ requests \in [Threads -> [at : {"idle"}] \cup Request]
    /\ session_grant \in ThreadGrants \cup {NoGrant}
    /\ audit \in Seq(AuditEvent)

\* A grant that is held has been decided and has not ended.
HeldInv ==
    session_grant # NoGrant =>
        OnTrail("decided", session_grant) /\ ~OnTrail("expired", session_grant)

\* A grant that a request is about to end has been decided, and is held no more
\* once the request has cleared the session: it cannot be approved again.
RetireInv ==
    \A t \in Threads :
        /\ At(t, "clear") \/ At(t, "emit") =>
              requests[t].retiring = NoGrant \/ OnTrail("decided", requests[t].retiring)
        /\ At(t, "emit") =>
              requests[t].retiring = NoGrant \/ session_grant # requests[t].retiring

\* A request has seen what the session holds, is told of nothing else, and passes
\* the look at the scope with a grant that names the tool.
SeenInv ==
    \A t \in Threads : ~At(t, "idle") =>
        /\ session_grant # NoGrant => session_grant \in requests[t].seen
        /\ requests[t].told \subseteq requests[t].seen
        /\ requests[t].scoped /\ (requests[t].told # {} \/ At(t, "tier")) =>
              \E g \in requests[t].seen : ThreadTool \in g.scope

ThreadsInv == ThreadTypes /\ HeldInv /\ RetireInv /\ SeenInv

\* A request that has begun, and the others, after it has gone on.
LEMMA RequestGoes ==
    ASSUME ThreadTypes, NEW t \in Threads, ~At(t, "idle"), NEW to \in RequestSteps, Go(t, to)
    PROVE  /\ requests' \in [Threads -> [at : {"idle"}] \cup Request]
           /\ requests'[t].at = to
           /\ requests'[t].scoped = requests[t].scoped
           /\ requests'[t].retiring = requests[t].retiring
           /\ requests'[t].told = requests[t].told
           /\ requests'[t].seen = requests[t].seen
           /\ \A u \in Threads : u # t => requests'[u] = requests[u]
  <1>1. requests[t] \in Request BY DEF ThreadTypes, At
  <1> DEFINE r == [requests[t] EXCEPT !.at = to]
  <1>2. r \in Request BY <1>1 DEF Request
  <1>3. r.at = to /\ r.scoped = requests[t].scoped /\ r.retiring = requests[t].retiring
        /\ r.told = requests[t].told /\ r.seen = requests[t].seen
    BY <1>1 DEF Request
  <1>4. requests' = [requests EXCEPT ![t] = r] BY DEF Go
  <1> HIDE DEF r
  <1> QED BY <1>2, <1>3, <1>4 DEF ThreadTypes

\* A request that goes on and leaves the session, or clears it, keeps the invariant.
LEMMA GoKeeps ==
    ASSUME ThreadsInv, NEW t \in Threads, ~At(t, "idle"),
           NEW to \in RequestSteps \ {"clear"}, Go(t, to), audit' = audit,
           session_grant' = session_grant \/ session_grant' = NoGrant,
           to = "emit" => At(t, "clear") /\ session_grant' = NoGrant,
           to = "tier" /\ requests[t].scoped =>
               \E g \in requests[t].seen : ThreadTool \in g.scope
    PROVE  ThreadsInv'
  <1>1. /\ requests' \in [Threads -> [at : {"idle"}] \cup Request]
        /\ requests'[t].at = to
        /\ requests'[t].scoped = requests[t].scoped
        /\ requests'[t].retiring = requests[t].retiring
        /\ requests'[t].told = requests[t].told
        /\ requests'[t].seen = requests[t].seen
        /\ \A u \in Threads : u # t => requests'[u] = requests[u]
    BY RequestGoes DEF ThreadsInv
  <1>2. ThreadTypes' BY <1>1 DEF ThreadsInv, ThreadTypes
  <1>3. HeldInv' BY DEF ThreadsInv, HeldInv, OnTrail
  <1>4. RetireInv' BY <1>1 DEF ThreadsInv, RetireInv, OnTrail, At
  <1>5. SeenInv' BY <1>1 DEF ThreadsInv, SeenInv, At
  <1> QED BY <1>2, <1>3, <1>4, <1>5 DEF ThreadsInv

\* The trail after one event more.
LEMMA AuditGrows ==
    ASSUME audit \in Seq(AuditEvent), NEW kind \in {"decided", "expired"}, NEW g \in ThreadGrants,
           audit' = Append(audit, [kind |-> kind, grant |-> g])
    PROVE  /\ audit' \in Seq(AuditEvent)
           /\ \A k, h : OnTrail(k, h)' <=> OnTrail(k, h) \/ (k = kind /\ h = g)
  <1> DEFINE e == [kind |-> kind, grant |-> g]
  <1>1. e \in AuditEvent /\ e.kind = kind /\ e.grant = g BY DEF AuditEvent
  <1>2. audit' = Append(audit, e) OBVIOUS
  <1> HIDE DEF e
  <1>3. /\ audit' \in Seq(AuditEvent)
        /\ DOMAIN audit' = DOMAIN audit \cup {Len(audit) + 1}
        /\ audit'[Len(audit) + 1] = e
        /\ \A i \in DOMAIN audit : audit'[i] = audit[i]
    BY <1>1, <1>2
  <1> QED BY <1>1, <1>3 DEF OnTrail

\* propose_config begins: nothing is told yet, and what is held has been seen.
LEMMA BeginKeeps ==
    ASSUME ThreadsInv, NEW t \in Threads, NEW scoped \in BOOLEAN, Begin(t, scoped)
    PROVE  ThreadsInv'
  <1> DEFINE held == IF session_grant = NoGrant THEN {} ELSE {session_grant}
             r == [at |-> "held?", scoped |-> scoped, retiring |-> NoGrant, told |-> {},
                   seen |-> held]
  <1>1. held \in SUBSET ThreadGrants BY DEF ThreadsInv, ThreadTypes
  <1>2. session_grant # NoGrant => session_grant \in held OBVIOUS
  <1>3. requests' = [requests EXCEPT ![t] = r] /\ UNCHANGED <<session_grant, audit>> BY DEF Begin
  <1> HIDE DEF held
  <1>4. r \in Request /\ r.at = "held?" /\ r.told = {} /\ r.seen = held
    BY <1>1 DEF Request, RequestSteps
  <1> HIDE DEF r
  <1>5. /\ requests' \in [Threads -> [at : {"idle"}] \cup Request]
        /\ requests'[t] = r
        /\ \A u \in Threads : u # t => requests'[u] = requests[u]
    BY <1>3, <1>4 DEF ThreadsInv, ThreadTypes
  <1>6. ThreadTypes' BY <1>3, <1>5 DEF ThreadsInv, ThreadTypes
  <1>7. HeldInv' BY <1>3 DEF ThreadsInv, HeldInv, OnTrail
  <1>8. RetireInv' BY <1>3, <1>4, <1>5 DEF ThreadsInv, RetireInv, OnTrail, At
  <1>9. SeenInv' BY <1>2, <1>3, <1>4, <1>5 DEF ThreadsInv, SeenInv, At
  <1> QED BY <1>6, <1>7, <1>8, <1>9 DEF ThreadsInv

\* _retire takes the grant that is held at that moment.
LEMMA TakeKeeps ==
    ASSUME ThreadsInv, NEW t \in Threads, RetireTake(t)
    PROVE  ThreadsInv'
  <1> DEFINE r == [requests[t] EXCEPT !.at = "clear", !.retiring = session_grant]
  <1>1. requests[t] \in Request /\ requests[t].at = "take"
    BY DEF RetireTake, At, ThreadsInv, ThreadTypes
  <1>2. r \in Request /\ r.at = "clear" /\ r.retiring = session_grant
        /\ r.scoped = requests[t].scoped /\ r.told = requests[t].told /\ r.seen = requests[t].seen
    BY <1>1 DEF Request, RequestSteps, ThreadsInv, ThreadTypes
  <1>3. requests' = [requests EXCEPT ![t] = r] /\ UNCHANGED <<session_grant, audit>>
    BY DEF RetireTake, Untouched
  <1> HIDE DEF r
  <1>4. /\ requests' \in [Threads -> [at : {"idle"}] \cup Request]
        /\ requests'[t] = r
        /\ \A u \in Threads : u # t => requests'[u] = requests[u]
    BY <1>2, <1>3 DEF ThreadsInv, ThreadTypes
  <1>5. ThreadTypes' BY <1>3, <1>4 DEF ThreadsInv, ThreadTypes
  <1>6. HeldInv' BY <1>3 DEF ThreadsInv, HeldInv, OnTrail
  <1>7. RetireInv' BY <1>2, <1>3, <1>4 DEF ThreadsInv, RetireInv, HeldInv, OnTrail, At
  <1>8. SeenInv' BY <1>1, <1>2, <1>3, <1>4 DEF ThreadsInv, SeenInv, At
  <1> QED BY <1>5, <1>6, <1>7, <1>8 DEF ThreadsInv

\* The expiry is of a grant that is not held: the one that is held stays live.
LEMMA EmitKeeps ==
    ASSUME ThreadsInv, NEW t \in Threads, RetireEmit(t)
    PROVE  ThreadsInv'
  <1>1. requests[t] \in Request /\ At(t, "emit") /\ ~At(t, "idle")
    BY DEF RetireEmit, At, ThreadsInv, ThreadTypes
  <1>2. CASE requests[t].retiring = NoGrant
    <2>1. Go(t, "AttributeError") /\ UNCHANGED <<audit, session_grant>>
      BY <1>2 DEF RetireEmit
    <2> QED BY <1>1, <2>1, GoKeeps DEF RequestSteps
  <1>3. CASE requests[t].retiring # NoGrant
    <2> DEFINE g == requests[t].retiring
    <2>1. /\ g \in ThreadGrants /\ g # session_grant
      BY <1>1, <1>3 DEF Request, ThreadsInv, RetireInv
    <2>2. /\ Go(t, "answer?") /\ audit' = Append(audit, [kind |-> "expired", grant |-> g])
          /\ session_grant' = session_grant
      BY <1>3 DEF RetireEmit
    <2>3. /\ requests' \in [Threads -> [at : {"idle"}] \cup Request]
          /\ requests'[t].at = "answer?"
          /\ requests'[t].scoped = requests[t].scoped
          /\ requests'[t].told = requests[t].told
          /\ requests'[t].seen = requests[t].seen
          /\ \A u \in Threads : u # t => requests'[u] = requests[u]
      BY <1>1, <2>2, RequestGoes DEF RequestSteps, ThreadsInv
    <2> HIDE DEF g
    <2>4. /\ audit' \in Seq(AuditEvent)
          /\ \A k, h : OnTrail(k, h)' <=> OnTrail(k, h) \/ (k = "expired" /\ h = g)
      BY <2>1, <2>2, AuditGrows DEF ThreadsInv, ThreadTypes
    <2>5. ThreadTypes' BY <2>2, <2>3, <2>4 DEF ThreadsInv, ThreadTypes
    <2>6. HeldInv' BY <2>1, <2>2, <2>4 DEF ThreadsInv, HeldInv
    <2>7. RetireInv' BY <2>2, <2>3, <2>4 DEF ThreadsInv, RetireInv, At
    <2>8. SeenInv' BY <2>2, <2>3, <1>1 DEF ThreadsInv, SeenInv, At
    <2> QED BY <2>5, <2>6, <2>7, <2>8 DEF ThreadsInv
  <1> QED BY <1>2, <1>3

\* The tier that is read is the one of the grant held at that moment.
LEMMA TierKeeps ==
    ASSUME ThreadsInv, NEW t \in Threads, TierRead(t)
    PROVE  ThreadsInv'
  <1>1. requests[t] \in Request /\ At(t, "tier") /\ ~At(t, "idle")
    BY DEF TierRead, At, ThreadsInv, ThreadTypes
  <1>2. CASE session_grant = NoGrant
    <2>1. Go(t, "AttributeError") /\ UNCHANGED <<audit, session_grant>>
      BY <1>2 DEF TierRead, Untouched
    <2> QED BY <1>1, <2>1, GoKeeps DEF RequestSteps
  <1>3. CASE session_grant # NoGrant
    <2> DEFINE r == [requests[t] EXCEPT !.at = "answered", !.told = {session_grant}]
    <2>1. r \in Request /\ r.at = "answered" /\ r.told = {session_grant}
          /\ r.scoped = requests[t].scoped /\ r.seen = requests[t].seen
      BY <1>1, <1>3 DEF Request, RequestSteps, ThreadsInv, ThreadTypes
    <2>2. requests' = [requests EXCEPT ![t] = r] /\ UNCHANGED <<session_grant, audit>>
      BY <1>3 DEF TierRead, Untouched
    <2> HIDE DEF r
    <2>3. /\ requests' \in [Threads -> [at : {"idle"}] \cup Request]
          /\ requests'[t] = r
          /\ \A u \in Threads : u # t => requests'[u] = requests[u]
      BY <2>1, <2>2 DEF ThreadsInv, ThreadTypes
    <2>4. ThreadTypes' BY <2>2, <2>3 DEF ThreadsInv, ThreadTypes
    <2>5. HeldInv' BY <2>2 DEF ThreadsInv, HeldInv, OnTrail
    <2>6. RetireInv' BY <2>1, <2>2, <2>3 DEF ThreadsInv, RetireInv, OnTrail, At
    <2>7. SeenInv' BY <1>1, <1>3, <2>1, <2>2, <2>3 DEF ThreadsInv, SeenInv, At
    <2> QED BY <2>4, <2>5, <2>6, <2>7 DEF ThreadsInv
  <1> QED BY <1>2, <1>3

\* approve() gives a grant that no request can be about to end.
LEMMA ApproveKeeps ==
    ASSUME ThreadsInv, NEW g \in ThreadGrants, ThreadApprove(g)
    PROVE  ThreadsInv'
  <1>1. \A k : ~OnTrail(k, g) BY DEF ThreadApprove, OnTrail, Range
  <1>2. session_grant' = g /\ audit' = Append(audit, [kind |-> "decided", grant |-> g])
    BY DEF ThreadApprove
  <1>3. /\ audit' \in Seq(AuditEvent)
        /\ \A k, h : OnTrail(k, h)' <=> OnTrail(k, h) \/ (k = "decided" /\ h = g)
    BY <1>2, AuditGrows DEF ThreadsInv, ThreadTypes
  <1>4. ASSUME NEW t \in Threads, ~At(t, "idle")
        PROVE  /\ requests[t] \in Request /\ requests'[t] \in Request
               /\ requests'[t].at = requests[t].at /\ requests'[t].scoped = requests[t].scoped
               /\ requests'[t].retiring = requests[t].retiring
               /\ requests'[t].told = requests[t].told
               /\ requests'[t].seen = requests[t].seen \cup {g}
    <2>1. requests[t] \in Request BY <1>4 DEF ThreadsInv, ThreadTypes, At
    <2>2. requests'[t] = [requests[t] EXCEPT !.seen = @ \cup {g}]
      BY <1>4 DEF ThreadApprove, At
    <2> QED BY <2>1, <2>2 DEF Request
  <1>5. ASSUME NEW t \in Threads, At(t, "idle") PROVE requests'[t] = requests[t]
    BY <1>5 DEF ThreadApprove, At
  <1>6. ThreadTypes'
    <2>1. DOMAIN requests' = Threads /\ requests' = [t \in Threads |-> requests'[t]]
      BY DEF ThreadApprove
    <2>2. \A t \in Threads : requests'[t] \in [at : {"idle"}] \cup Request
      BY <1>4, <1>5 DEF ThreadsInv, ThreadTypes
    <2>3. requests' \in [Threads -> [at : {"idle"}] \cup Request] BY <2>1, <2>2
    <2> QED BY <1>2, <1>3, <2>3 DEF ThreadTypes
  <1>7. HeldInv' BY <1>1, <1>2, <1>3 DEF HeldInv
  <1>8. RetireInv'
    <2>1. ASSUME NEW t \in Threads, (At(t, "clear") \/ At(t, "emit"))'
          PROVE  /\ requests'[t].retiring = NoGrant \/ OnTrail("decided", requests[t].retiring)'
                 /\ requests'[t].retiring = requests[t].retiring
                 /\ requests'[t].retiring = NoGrant \/ g # requests'[t].retiring
      <3>1. ~At(t, "idle") BY <1>5, <2>1 DEF At
      <3>2. requests'[t].at = requests[t].at /\ requests'[t].retiring = requests[t].retiring
        BY <1>4, <3>1
      <3>3. requests[t].retiring = NoGrant \/ OnTrail("decided", requests[t].retiring)
        BY <2>1, <3>2 DEF ThreadsInv, RetireInv, At
      <3>4. requests[t].retiring = NoGrant \/ OnTrail("decided", requests[t].retiring)'
        BY <1>3, <3>2, <3>3
      <3> QED BY <1>1, <3>2, <3>3, <3>4
    <2> QED BY <1>2, <2>1 DEF RetireInv
  <1>9. SeenInv'
    <2> SUFFICES ASSUME NEW t \in Threads, ~At(t, "idle")'
                 PROVE  /\ g \in requests'[t].seen
                        /\ requests'[t].told \subseteq requests'[t].seen
                        /\ requests'[t].scoped /\ (requests'[t].told # {} \/ At(t, "tier")') =>
                              \E h \in requests'[t].seen : ThreadTool \in h.scope
      BY <1>2 DEF SeenInv
    <2>1. ~At(t, "idle") BY <1>5 DEF At
    <2> QED BY <1>4, <2>1 DEF ThreadsInv, SeenInv, At
  <1> QED BY <1>6, <1>7, <1>8, <1>9 DEF ThreadsInv

\* Every step of a request, an approval and the clock keeps the invariant.
LEMMA ThreadsStep ==
    ASSUME ThreadsInv, [ThreadsNext]_thread_vars
    PROVE  ThreadsInv'
  <1>1. ASSUME NEW t \in Threads, NEW scoped \in BOOLEAN, Begin(t, scoped) PROVE ThreadsInv'
    BY <1>1, BeginKeeps
  <1>2. ASSUME NEW t \in Threads, \/ ExpireCheck(t) \/ StaleCheck(t)
                                  \/ RetireCheck(t) \/ AnswerCheck(t) \/ ScopeCheck(t)
        PROVE  ThreadsInv'
    <2>1. ~At(t, "idle") BY <1>2 DEF ExpireCheck, StaleCheck, RetireCheck, AnswerCheck, ScopeCheck, At
    <2>2. UNCHANGED <<session_grant, audit>>
      BY <1>2 DEF ExpireCheck, StaleCheck, RetireCheck, AnswerCheck, ScopeCheck, Untouched
    <2>3. PICK to \in {"answer?", "stale?", "retire?", "take", "answered", "scope?", "tier",
                       "AttributeError"} :
             /\ Go(t, to)
             /\ to = "tier" => ~requests[t].scoped \/
                    (session_grant # NoGrant /\ ThreadTool \in session_grant.scope)
      BY <1>2 DEF ExpireCheck, StaleCheck, RetireCheck, AnswerCheck, ScopeCheck, GoWithGrant
    <2>4. to = "tier" /\ requests[t].scoped =>
             \E g \in requests[t].seen : ThreadTool \in g.scope
      BY <2>1, <2>3 DEF ThreadsInv, SeenInv
    <2>5. to \in RequestSteps \ {"clear"} /\ to # "emit" BY DEF RequestSteps
    <2> QED BY <2>1, <2>2, <2>3, <2>4, <2>5, GoKeeps
  <1>3. ASSUME NEW t \in Threads, RetireTake(t) PROVE ThreadsInv' BY <1>3, TakeKeeps
  <1>4. ASSUME NEW t \in Threads, RetireClear(t) PROVE ThreadsInv'
    <2>1. /\ At(t, "clear") /\ ~At(t, "idle") /\ Go(t, "emit") /\ session_grant' = NoGrant
          /\ audit' = audit
      BY <1>4 DEF RetireClear, At
    <2> QED BY <2>1, GoKeeps DEF RequestSteps
  <1>5. ASSUME NEW t \in Threads, RetireEmit(t) PROVE ThreadsInv' BY <1>5, EmitKeeps
  <1>6. ASSUME NEW t \in Threads, TierRead(t) PROVE ThreadsInv' BY <1>6, TierKeeps
  <1>7. ASSUME NEW g \in ThreadGrants, ThreadApprove(g) PROVE ThreadsInv' BY <1>7, ApproveKeeps
  <1>8. CASE ThreadTick \/ UNCHANGED thread_vars
    <2>1. UNCHANGED <<session_grant, audit, requests>> BY <1>8 DEF ThreadTick, thread_vars
    <2> QED
      BY <2>1 DEF ThreadsInv, ThreadTypes, HeldInv, RetireInv, SeenInv, OnTrail, At
  <1> QED BY <1>1, <1>2, <1>3, <1>4, <1>5, <1>6, <1>7, <1>8 DEF ThreadsNext

\* A session that no request has used.
LEMMA ThreadsBegin ==
    ASSUME ThreadsInit
    PROVE  ThreadsInv
  <1>1. session_grant = NoGrant /\ audit = <<>> /\ requests = [t \in Threads |-> [at |-> "idle"]]
    BY DEF ThreadsInit
  <1>2. \A t \in Threads : requests[t].at = "idle" BY <1>1
  <1>3. ThreadTypes BY <1>1 DEF ThreadTypes
  <1>4. HeldInv BY <1>1 DEF HeldInv
  <1>5. RetireInv BY <1>2 DEF RetireInv, At
  <1>6. SeenInv BY <1>2 DEF SeenInv, At
  <1> QED BY <1>3, <1>4, <1>5, <1>6 DEF ThreadsInv

\* What the invariant says of the requests.
LEMMA ThreadsMeans ==
    ASSUME ThreadsInv
    PROVE  RequestsFailClosed
  <1>1. HeldIsOnTheTrail BY DEF ThreadsInv, HeldInv, OnTrail, HeldIsOnTheTrail, Range
  <1>2. AnswerWasHeld
    <2> SUFFICES ASSUME NEW t \in Threads, At(t, "answered"), requests[t].told # {}
                 PROVE  /\ requests[t].told \subseteq requests[t].seen
                        /\ requests[t].scoped => \E g \in requests[t].seen : ThreadTool \in g.scope
      BY DEF AnswerWasHeld
    <2>1. ~At(t, "idle") BY DEF At
    <2> QED BY <2>1 DEF ThreadsInv, SeenInv
  <1> QED BY <1>1, <1>2 DEF RequestsFailClosed

\* propose_config: requests that run at once in threads without a lock fail closed,
\* for any number of threads and grants: no interleaving tells a request a tier
\* that no grant gave meanwhile.
THEOREM RequestsCorrect ==
    ThreadsInit /\ [][ThreadsNext]_thread_vars => []RequestsFailClosed
  <1>1. ThreadsInv /\ [ThreadsNext]_thread_vars => ThreadsInv' BY ThreadsStep
  <1> QED BY <1>1, ThreadsBegin, ThreadsMeans, PTL

\* Every call and every change above the default tier is under a grant that the
\* trail shows as live at that point, and requests that run at once fail closed.
THEOREM ElevationCorrect == PartsSpec => []ElevationIsCovered
  <1> DEFINE Inv == /\ part = "autonomy" => SessionInv
                    /\ part = "threads" => ThreadsInv
  <1>1. PartsInit => Inv BY SessionBegins, ThreadsBegin DEF PartsInit
  <1>2. ASSUME Inv, [PartsNext]_<<part, vars, tool_vars, portal_vars, temperature_vars,
                        bus_vars, mqtt_vars, registry_vars, time_vars, scenario_vars, facility,
                        config_vars, versions, archive_vars, sync_vars, rules_vars, thread_vars>>
        PROVE  Inv'
    <2>1. /\ UNCHANGED part
          /\ part = "autonomy" => [Next]_vars
          /\ part = "threads" => [ThreadsNext]_thread_vars
      BY <1>2, PartRuns
    <2> QED BY <1>2, <2>1, SessionStep, ThreadsStep
  <1>3. Inv => ElevationIsCovered BY SessionMeans, ThreadsMeans DEF ElevationIsCovered
  <1> QED BY <1>1, <1>2, <1>3, PTL DEF PartsSpec
-----------------------------------------------------------------------------
(* RunArchive: what is in the files of a run.                              *)

\* What a reader may take from a file: all of a recording's, or whole lines of it.
Fragment(r, f) ==
    {content(r, f)} \cup
    IF f \in Lines THEN {SubSeq(content(r, f), 1, n) : n \in 0..Len(content(r, f))} ELSE {}

\* The files that read_run has read when it is at a step.
ReadBefore(at_pc) ==
    {f \in File : \/ at_pc \in {"replay", "loaded"}
                  \/ f = "snapshot" /\ at_pc \in {"provenance", "events", "arrivals"}
                  \/ f = "provenance" /\ at_pc \in {"events", "arrivals"}
                  \/ f = "events" /\ at_pc = "arrivals"}

ReaderSteps == File \cup {"idle", "replay", "loaded", "refused"}

\* write_run: the recording it writes is one of those begun, the files before the
\* one it is at are written, and no other call has ended meanwhile.
WriterInv ==
    /\ begun \subseteq Recordings
    /\ step \in 0..4
    /\ step # 0 =>
          /\ writing \in begun /\ complete = NoRecording
          /\ \A i \in 1..step-1 : disk[Files[i]] = Holds(content(writing, Files[i]))

\* A file is absent, unreadable or a piece of some recording.
DiskInv ==
    /\ DOMAIN disk = File
    /\ \A f \in File : \/ disk[f] \in {NoFile, Torn}
                       \/ \E r \in begun : \E v \in Fragment(r, f) : disk[f] = Holds(v)

\* After a call that ran to its end the directory is its recording's.
CompleteInv ==
    complete # NoRecording =>
        /\ complete \in begun /\ step = 0
        /\ \A f \in File : disk[f] = Holds(content(complete, f))

\* read_run has found four files and has taken pieces of recordings from them; what
\* it returned has been replayed and compared with the sidecar.
ReaderInv ==
    /\ pc \in ReaderSteps
    /\ DOMAIN got = File
    /\ pc \notin {"idle", "refused"} => \A f \in File : disk[f] # NoFile
    /\ \A f \in ReadBefore(pc) : \E r \in begun : got[f] \in Fragment(r, f)
    /\ pc = "loaded" =>
          /\ replays
          /\ log_hash(got["events"]) = got["provenance"].event_log_hash
          /\ Len(got["events"]) = got["provenance"].event_count

\* A reader that no call has overtaken reads the recording that was complete.
BasisInv ==
    basis # NoRecording =>
        /\ basis = complete /\ pc # "refused"
        /\ \A f \in ReadBefore(pc) : got[f] = content(basis, f)

ArchiveInv == WriterInv /\ DiskInv /\ CompleteInv /\ ReaderInv /\ BasisInv

\* The four files.
LEMMA FourFiles ==
    /\ File = {"snapshot", "events", "arrivals", "provenance"}
    /\ Len(Files) = 4
    /\ \A i \in 1..4 : Files[i] \in File
    /\ \A f \in File : \E i \in 1..4 : Files[i] = f
    /\ \A i, j \in 1..4 : Files[i] = Files[j] => i = j
  <1>1. /\ Files[1] = "snapshot" /\ Files[2] = "events" /\ Files[3] = "arrivals"
        /\ Files[4] = "provenance" /\ DOMAIN Files = 1..4 /\ Len(Files) = 4
    BY DEF Files
  <1>2. File = {Files[1], Files[2], Files[3], Files[4]} BY <1>1 DEF File, Range
  <1> QED BY <1>1, <1>2

\* A file that holds something is neither absent nor torn, and holds what it holds.
LEMMA HoldsFacts ==
    ASSUME NEW v
    PROVE  Holds(v) # NoFile /\ Holds(v) # Torn /\ Holds(v)[2] = v
  BY DEF Holds, NoFile, Torn

\* Torn is not absent.
LEMMA TornIsThere == Torn # NoFile
  BY DEF Torn, NoFile

\* The contents of the four files.
LEMMA Contents ==
    ASSUME NEW r
    PROVE  /\ content(r, "snapshot") = r.snapshot /\ content(r, "events") = r.events
           /\ content(r, "arrivals") = arrival_records(r) /\ content(r, "provenance") = sidecar(r)
  BY DEF content

\* What an open file may hold is a piece of its recording.
LEMMA PartialIsFragment ==
    ASSUME NEW r, NEW f, NEW v \in Partial(r, f)
    PROVE  v = Torn \/ \E w \in Fragment(r, f) : v = Holds(w)
  BY DEF Partial, Fragment

\* A step that leaves the reader keeps what it has read, when no file goes absent.
LEMMA ReaderKeeps ==
    ASSUME ArchiveInv, begun \subseteq begun', UNCHANGED <<pc, got>>,
           \A f \in File : disk'[f] = NoFile => disk[f] = NoFile
    PROVE  ReaderInv'
  <1>1. replays' = replays BY DEF replays, arrival_of
  <1>2. ASSUME NEW f \in ReadBefore(pc)
        PROVE  \E r \in begun' : got'[f] \in Fragment(r, f)
    BY <1>2 DEF ArchiveInv, ReaderInv
  <1> QED BY <1>1, <1>2 DEF ArchiveInv, ReaderInv

\* A write_run begins: the directory stays as it was, and is nobody's until it ends.
LEMMA BeginWriteKeeps ==
    ASSUME ArchiveInv, NEW r \in Recordings, BeginWrite(r)
    PROVE  ArchiveInv'
  <1>1. /\ begun' = begun \cup {r} /\ writing' = r /\ step' = 1
        /\ complete' = NoRecording /\ basis' = NoRecording /\ UNCHANGED <<disk, pc, got>>
    BY DEF BeginWrite
  <1>2. WriterInv' BY <1>1 DEF ArchiveInv, WriterInv
  <1>3. DiskInv' BY <1>1 DEF ArchiveInv, DiskInv
  <1>4. CompleteInv' BY <1>1 DEF CompleteInv
  <1>5. ReaderInv' BY <1>1, ReaderKeeps
  <1>6. BasisInv' BY <1>1 DEF BasisInv
  <1> QED BY <1>2, <1>3, <1>4, <1>5, <1>6 DEF ArchiveInv

\* While a call runs, no reader has a basis.
LEMMA NoBasisWhileWriting ==
    ASSUME ArchiveInv, step # 0
    PROVE  complete = NoRecording /\ basis = NoRecording
  BY DEF ArchiveInv, WriterInv, BasisInv

\* A file is truncated and filled in pieces.
LEMMA OpenKeeps ==
    ASSUME ArchiveInv, OpenFile
    PROVE  ArchiveInv'
  <1>1. step # 0 /\ step \in 1..4 /\ writing \in begun BY DEF OpenFile, ArchiveInv, WriterInv
  <1> DEFINE f == Files[step]
  <1>2. PICK v \in Partial(writing, f) : disk' = [disk EXCEPT ![f] = v] BY DEF OpenFile
  <1>3. UNCHANGED <<writing, step, begun, complete, writes, pc, got, basis>>
    BY DEF OpenFile, reader_vars
  <1>4. v = Torn \/ \E w \in Fragment(writing, f) : v = Holds(w) BY PartialIsFragment
  <1>5. v # NoFile BY <1>4, HoldsFacts, TornIsThere
  <1>6. f \in File /\ (\A i \in 1..step-1 : Files[i] \in File /\ Files[i] # f)
    BY <1>1, FourFiles
  <1> HIDE DEF f
  <1>7. /\ DOMAIN disk' = File /\ disk'[f] = v
        /\ \A h \in File : h # f => disk'[h] = disk[h]
    BY <1>2, <1>6 DEF ArchiveInv, DiskInv
  <1>8. WriterInv' BY <1>3, <1>6, <1>7 DEF ArchiveInv, WriterInv
  <1>9. DiskInv' BY <1>1, <1>3, <1>4, <1>7 DEF ArchiveInv, DiskInv
  <1>10. CompleteInv' /\ BasisInv'
    BY <1>1, <1>3, NoBasisWhileWriting DEF CompleteInv, BasisInv
  <1>11. ReaderInv'
    <2>1. \A h \in File : disk'[h] = NoFile => disk[h] = NoFile BY <1>5, <1>7
    <2> QED BY <1>3, <2>1, ReaderKeeps
  <1> QED BY <1>8, <1>9, <1>10, <1>11 DEF ArchiveInv

\* A file is whole; with the fourth the directory is the recording's.
LEMMA FinishKeeps ==
    ASSUME ArchiveInv, FinishFile
    PROVE  ArchiveInv'
  <1>1. step # 0 /\ step \in 1..4 /\ writing \in begun BY DEF FinishFile, ArchiveInv, WriterInv
  <1> DEFINE f == Files[step]
             v == Holds(content(writing, f))
  <1>2. disk' = [disk EXCEPT ![f] = v] BY DEF FinishFile
  <1>3. UNCHANGED <<begun, pc, got, basis>> BY DEF FinishFile, reader_vars
  <1>4. v # NoFile /\ \E w \in Fragment(writing, f) : v = Holds(w)
    BY HoldsFacts DEF Fragment
  <1>5. f \in File /\ (\A i \in 1..step-1 : Files[i] \in File /\ Files[i] # f)
    BY <1>1, FourFiles
  <1>6. /\ DOMAIN disk' = File /\ disk'[f] = v
        /\ \A h \in File : h # f => disk'[h] = disk[h]
    BY <1>2, <1>5 DEF ArchiveInv, DiskInv
  <1>7. \A i \in 1..step : disk'[Files[i]] = Holds(content(writing, Files[i]))
    <2>1. \A i \in 1..step-1 : disk'[Files[i]] = Holds(content(writing, Files[i]))
      BY <1>1, <1>5, <1>6 DEF ArchiveInv, WriterInv
    <2>2. \A i \in 1..step : i \in 1..step-1 \/ i = step BY <1>1
    <2> QED BY <1>6, <2>1, <2>2
  <1> HIDE DEF f, v
  <1>8. DiskInv' BY <1>1, <1>3, <1>4, <1>6 DEF ArchiveInv, DiskInv
  <1>9. ReaderInv'
    <2>1. \A h \in File : disk'[h] = NoFile => disk[h] = NoFile BY <1>4, <1>6
    <2> QED BY <1>3, <2>1, ReaderKeeps
  <1>10. basis' = NoRecording /\ complete = NoRecording
    BY <1>1, <1>3, NoBasisWhileWriting
  <1>11. BasisInv' BY <1>10 DEF BasisInv
  <1>12. CASE step < 4
    <2>1. step' = step + 1 /\ UNCHANGED <<writing, complete>>
      BY <1>12, FourFiles DEF FinishFile
    <2>2. step' \in 0..4 /\ step' - 1 = step BY <1>1, <1>12, <2>1
    <2>3. WriterInv' BY <1>1, <1>3, <1>7, <1>10, <2>1, <2>2 DEF ArchiveInv, WriterInv
    <2>4. CompleteInv' BY <1>10, <2>1 DEF CompleteInv
    <2> QED BY <1>8, <1>9, <1>11, <2>3, <2>4 DEF ArchiveInv
  <1>13. CASE step = 4
    <2>1. step' = 0 /\ complete' = writing BY <1>13, FourFiles DEF FinishFile
    <2>2. WriterInv' BY <1>3, <2>1 DEF ArchiveInv, WriterInv
    <2>3. \A h \in File : disk'[h] = Holds(content(writing, h))
      BY <1>7, <1>13, FourFiles
    <2>4. CompleteInv' BY <1>1, <1>3, <2>1, <2>3 DEF CompleteInv
    <2> QED BY <1>8, <1>9, <1>11, <2>2, <2>4 DEF ArchiveInv
  <1> QED BY <1>1, <1>12, <1>13

\* A crash leaves the directory as it is.
LEMMA CrashKeeps ==
    ASSUME ArchiveInv, Crash
    PROVE  ArchiveInv'
  <1>1. /\ step # 0 /\ step' = 0 /\ UNCHANGED <<disk, begun, complete, pc, got, basis>>
    BY DEF Crash, reader_vars
  <1>2. complete = NoRecording /\ basis = NoRecording BY <1>1, NoBasisWhileWriting
  <1>3. WriterInv' BY <1>1 DEF ArchiveInv, WriterInv
  <1>4. DiskInv' BY <1>1 DEF ArchiveInv, DiskInv
  <1>5. CompleteInv' /\ BasisInv' BY <1>1, <1>2 DEF CompleteInv, BasisInv
  <1>6. ReaderInv' BY <1>1, ReaderKeeps
  <1> QED BY <1>3, <1>4, <1>5, <1>6 DEF ArchiveInv

\* A reader finds its four files or refuses; over a complete directory it finds them.
LEMMA BeginReadKeeps ==
    ASSUME ArchiveInv, BeginRead
    PROVE  ArchiveInv'
  <1>1. /\ UNCHANGED <<disk, writing, step, begun, complete>>
        /\ basis' = complete /\ got' = Empty
        /\ pc' = IF \E f \in File : disk[f] = NoFile THEN "refused" ELSE "snapshot"
    BY DEF BeginRead, writer_vars
  <1>2. WriterInv' BY <1>1 DEF ArchiveInv, WriterInv
  <1>3. DiskInv' BY <1>1 DEF ArchiveInv, DiskInv
  <1>4. CompleteInv' BY <1>1 DEF ArchiveInv, CompleteInv
  <1>5. ReadBefore(pc') = {} BY <1>1 DEF ReadBefore
  <1>6. ReaderInv' BY <1>1, <1>5, FourFiles DEF ReaderInv, ReaderSteps, Empty
  <1>7. complete # NoRecording => \A f \in File : disk[f] # NoFile
    BY HoldsFacts DEF ArchiveInv, CompleteInv
  <1>8. BasisInv' BY <1>1, <1>5, <1>7 DEF BasisInv
  <1> QED BY <1>2, <1>3, <1>4, <1>6, <1>8 DEF ArchiveInv

\* One file more has been read, or the reader has refused.
LEMMA ReadKeeps ==
    ASSUME ArchiveInv, NEW f \in File, NEW next \in ReaderSteps \ {"idle", "loaded", "refused"},
           ReadFile(f, next), ReadBefore(next) = ReadBefore(f) \cup {f}
    PROVE  ArchiveInv'
  <1>1. /\ pc = f /\ UNCHANGED <<disk, writing, step, begun, complete, basis>>
        /\ IF disk[f] = Torn THEN pc' = "refused" /\ UNCHANGED got
           ELSE pc' = next /\ got' = [got EXCEPT ![f] = disk[f][2]]
    BY DEF ReadFile, writer_vars
  <1>2. WriterInv' BY <1>1 DEF ArchiveInv, WriterInv
  <1>3. DiskInv' BY <1>1 DEF ArchiveInv, DiskInv
  <1>4. CompleteInv' BY <1>1 DEF ArchiveInv, CompleteInv
  <1>5. CASE disk[f] = Torn
    <2>1. ReadBefore(pc') = {} BY <1>1, <1>5 DEF ReadBefore
    <2>2. ReaderInv' BY <1>1, <1>5, <2>1 DEF ArchiveInv, ReaderInv, ReaderSteps
    <2>3. basis = NoRecording
      BY <1>5, HoldsFacts DEF ArchiveInv, BasisInv, CompleteInv
    <2>4. BasisInv' BY <1>1, <2>3 DEF BasisInv
    <2> QED BY <1>2, <1>3, <1>4, <2>2, <2>4 DEF ArchiveInv
  <1>6. CASE disk[f] # Torn
    <2>1. disk[f] # NoFile BY <1>1, FourFiles DEF ArchiveInv, ReaderInv
    <2>2. PICK r \in begun : \E v \in Fragment(r, f) : disk[f] = Holds(v)
      BY <1>6, <2>1 DEF ArchiveInv, DiskInv
    <2>3. PICK v \in Fragment(r, f) : disk[f] = Holds(v) BY <2>2
    <2>4. /\ pc' = next /\ DOMAIN got' = File /\ got'[f] = v
          /\ \A h \in File : h # f => got'[h] = got[h]
      BY <1>1, <1>6, <2>3, HoldsFacts DEF ArchiveInv, ReaderInv
    <2>5. ReadBefore(f) \subseteq File BY DEF ReadBefore
    <2>6. \A h \in ReadBefore(pc') : \E q \in begun' : got'[h] \in Fragment(q, h)
      BY <1>1, <2>3, <2>4, <2>5 DEF ArchiveInv, ReaderInv
    <2>7. ReaderInv'
      BY <1>1, <2>4, <2>6, FourFiles DEF ArchiveInv, ReaderInv
    <2>8. ASSUME basis # NoRecording PROVE v = content(basis, f)
      <3>1. disk[f] = Holds(content(basis, f))
        BY <2>8 DEF ArchiveInv, BasisInv, CompleteInv
      <3> QED BY <2>3, <3>1, HoldsFacts
    <2>9. next # "refused" OBVIOUS
    <2>10. BasisInv' BY <1>1, <2>4, <2>5, <2>8, <2>9 DEF ArchiveInv, BasisInv
    <2> QED BY <1>2, <1>3, <1>4, <2>7, <2>10 DEF ArchiveInv
  <1> QED BY <1>5, <1>6

\* A function from the first numbers is a sequence.
LEMMA FunctionIsSeq ==
    ASSUME NEW S, NEW n \in Nat, NEW q \in [1..n -> S]
    PROVE  q \in Seq(S) /\ Len(q) = n /\ DOMAIN q = 1..n
  OBVIOUS

\* The records of arrivals.jsonl.
LEMMA ArrivalRecords ==
    ASSUME NEW r \in Recordings
    PROVE  /\ arrival_records(r) = [i \in 1..Len(r.events) |-> [id |-> r.events[i].id, at |-> r.arrivals[i]]]
           /\ Len(r.events) \in Nat /\ DOMAIN r.events = 1..Len(r.events)
           /\ Len(arrival_records(r)) = Len(r.events)
           /\ DOMAIN arrival_records(r) = 1..Len(r.events)
           /\ \A i \in 1..Len(r.events) :
                 /\ arrival_records(r)[i].id = r.events[i].id
                 /\ arrival_records(r)[i].at = r.arrivals[i]
  <1>1. r.events \in Seq(Range(r.events)) BY RecordingsAssumption
  <1>2. Len(r.events) \in Nat /\ DOMAIN r.events = 1..Len(r.events) BY <1>1
  <1>3. arrival_records(r) = [i \in 1..Len(r.events) |-> [id |-> r.events[i].id, at |-> r.arrivals[i]]]
    BY DEF arrival_records
  <1>4. DOMAIN arrival_records(r) = 1..Len(r.events) BY <1>3
  <1>5. Len(arrival_records(r)) = Len(r.events)
    <2> DEFINE as == arrival_records(r)
               n == Len(r.events)
    <2>1. as \in [1..n -> Range(as)] BY <1>3, <1>4 DEF Range
    <2>2. n \in Nat BY <1>2
    <2> HIDE DEF as, n
    <2> QED BY <2>1, <2>2, FunctionIsSeq DEF as, n
  <1> QED BY <1>2, <1>3, <1>4, <1>5

\* A recording that was written whole replays and is verified.
LEMMA WholeReplays ==
    ASSUME NEW r \in Recordings, \A f \in File : got[f] = content(r, f)
    PROVE  /\ replays
           /\ log_hash(got["events"]) = got["provenance"].event_log_hash
           /\ Len(got["events"]) = got["provenance"].event_count
  <1> DEFINE es == r.events
             as == arrival_records(r)
  <1>1. got["events"] = es /\ got["arrivals"] = as /\ got["provenance"] = sidecar(r)
    BY FourFiles, Contents
  <1>2. /\ Len(es) \in Nat /\ DOMAIN es = 1..Len(es) /\ DOMAIN as = 1..Len(es)
        /\ \A i \in 1..Len(es) : as[i].id = es[i].id /\ as[i].at = r.arrivals[i]
    BY ArrivalRecords
  <1>3. \A i, j \in 1..Len(es) :
            /\ i < j => r.arrivals[i] <= r.arrivals[j] /\ es[i].id # es[j].id
            /\ es[i].ts <= r.arrivals[i]
    BY RecordingsAssumption
  <1>4. sidecar(r).event_log_hash = log_hash(es) /\ sidecar(r).event_count = Len(es)
    BY DEF sidecar
  <1> HIDE DEF es, as
  <1>5. \A i, j \in 1..Len(es) : es[i].id = es[j].id => i = j BY <1>2, <1>3
  <1>6. ASSUME NEW i \in 1..Len(es) PROVE arrival_of(es[i]) = r.arrivals[i]
    <2>1. as[i] \in Range(as) /\ as[i].id = es[i].id BY <1>2 DEF Range
    <2>2. ASSUME NEW a \in Range(as), a.id = es[i].id PROVE a = as[i]
      <3>1. PICK k \in 1..Len(es) : a = as[k] BY <1>2 DEF Range
      <3>2. k = i BY <1>2, <1>5, <2>2, <3>1
      <3> QED BY <3>1, <3>2
    <2>3. (CHOOSE a \in Range(as) : a.id = es[i].id) = as[i] BY <2>1, <2>2
    <2>4. arrival_of(es[i]) = as[i].at BY <1>1, <2>3 DEF arrival_of
    <2> QED BY <1>2, <2>4
  <1>7. \A e \in Range(es) : \E a \in Range(as) : a.id = e.id BY <1>2, ZenonT(60) DEF Range
  <1>8. replays BY <1>1, <1>3, <1>6, <1>7, ZenonT(60) DEF replays
  <1> QED BY <1>1, <1>4, <1>8

\* The replay and the comparison with the sidecar.
LEMMA ReplayKeeps ==
    ASSUME ArchiveInv, ReplayAndVerify
    PROVE  ArchiveInv'
  <1>1. /\ pc = "replay" /\ UNCHANGED <<disk, writing, step, begun, complete, got, basis>>
        /\ pc' = IF replays /\ verified THEN "loaded" ELSE "refused"
    BY DEF ReplayAndVerify, writer_vars
  <1>2. WriterInv' BY <1>1 DEF ArchiveInv, WriterInv
  <1>3. DiskInv' BY <1>1 DEF ArchiveInv, DiskInv
  <1>4. CompleteInv' BY <1>1 DEF ArchiveInv, CompleteInv
  <1>5. replays' = replays BY <1>1 DEF replays, arrival_of
  <1>6. ReadBefore("loaded") = File /\ ReadBefore("replay") = File /\ ReadBefore("refused") = {}
    BY DEF ReadBefore
  <1>7. ReaderInv'
    <2>1. CASE pc' = "loaded"
      <3>1. replays /\ verified BY <1>1, <2>1
      <3> QED BY <1>1, <1>5, <1>6, <2>1, <3>1 DEF ArchiveInv, ReaderInv, ReaderSteps, verified
    <2>2. CASE pc' = "refused"
      BY <1>1, <1>6, <2>2 DEF ArchiveInv, ReaderInv, ReaderSteps
    <2> QED BY <1>1, <2>1, <2>2
  <1>8. ASSUME basis # NoRecording PROVE pc' = "loaded"
    <2>1. /\ basis = complete /\ basis \in Recordings /\ \A f \in File : got[f] = content(basis, f)
          /\ \A f \in File : disk[f] = Holds(content(basis, f))
      BY <1>1, <1>6, <1>8 DEF ArchiveInv, BasisInv, CompleteInv, WriterInv
    <2>2. verified /\ replays
      BY <2>1, WholeReplays, FourFiles DEF verified
    <2> QED BY <1>1, <2>2
  <1>9. BasisInv' BY <1>1, <1>6, <1>8 DEF ArchiveInv, BasisInv
  <1> QED BY <1>2, <1>3, <1>4, <1>7, <1>9 DEF ArchiveInv

\* Every step of the writer and of the reader keeps the invariant.
LEMMA ArchiveStep ==
    ASSUME ArchiveInv, [ArchiveNext]_archive_vars
    PROVE  ArchiveInv'
  <1>1. ASSUME NEW r \in Recordings, BeginWrite(r) PROVE ArchiveInv' BY <1>1, BeginWriteKeeps
  <1>2. /\ ReadBefore("provenance") = ReadBefore("snapshot") \cup {"snapshot"}
        /\ ReadBefore("events") = ReadBefore("provenance") \cup {"provenance"}
        /\ ReadBefore("arrivals") = ReadBefore("events") \cup {"events"}
        /\ ReadBefore("replay") = ReadBefore("arrivals") \cup {"arrivals"}
    BY FourFiles DEF ReadBefore
  <1>3. {"snapshot", "events", "arrivals", "provenance"} \subseteq File
        /\ {"events", "arrivals", "provenance", "replay"} \subseteq
              ReaderSteps \ {"idle", "loaded", "refused"}
    BY FourFiles DEF ReaderSteps
  <1>4. CASE ReadFile("snapshot", "provenance") BY <1>2, <1>3, <1>4, ReadKeeps
  <1>5. CASE ReadFile("provenance", "events") BY <1>2, <1>3, <1>5, ReadKeeps
  <1>6. CASE ReadFile("events", "arrivals") BY <1>2, <1>3, <1>6, ReadKeeps
  <1>7. CASE ReadFile("arrivals", "replay") BY <1>2, <1>3, <1>7, ReadKeeps
  <1>8. CASE UNCHANGED archive_vars
    <2>1. UNCHANGED <<disk, writing, step, begun, complete, pc, got, basis>>
      BY <1>8 DEF archive_vars, writer_vars, reader_vars
    <2>2. WriterInv' /\ DiskInv' /\ CompleteInv' /\ BasisInv'
      BY <2>1 DEF ArchiveInv, WriterInv, DiskInv, CompleteInv, BasisInv
    <2>3. ReaderInv' BY <2>1, ReaderKeeps
    <2> QED BY <2>2, <2>3 DEF ArchiveInv
  <1> QED
    BY <1>1, <1>4, <1>5, <1>6, <1>7, <1>8, OpenKeeps, FinishKeeps, CrashKeeps,
       BeginReadKeeps, ReplayKeeps DEF ArchiveNext

\* An empty directory.
LEMMA ArchiveBegins ==
    ASSUME ArchiveInit
    PROVE  ArchiveInv
  <1>1. WriterInv BY DEF ArchiveInit, WriterInv
  <1>2. DiskInv BY DEF ArchiveInit, DiskInv
  <1>3. CompleteInv /\ BasisInv BY DEF ArchiveInit, CompleteInv, BasisInv
  <1>4. ReadBefore("idle") = {} BY DEF ReadBefore
  <1>5. ReaderInv BY <1>4 DEF ArchiveInit, ReaderInv, ReaderSteps, Empty
  <1> QED BY <1>1, <1>2, <1>3, <1>5 DEF ArchiveInv

\* A nonempty set of numbers has a least one.
LEMMA LeastNumber ==
    ASSUME NEW T, T \subseteq Nat, T # {}
    PROVE  \E x \in T : \A y \in T : x <= y
  <1> DEFINE R == OpToRel(<, Nat)
  <1>1. IsWellFoundedOn(R, Nat) BY NatLessThanWellFounded, Zenon
  <1>2. \A x, y \in Nat : x < y => <<x, y>> \in R BY DEF OpToRel
  <1> HIDE DEF R
  <1>3. PICK x \in T : \A y \in T : ~(<<y, x>> \in R) BY <1>1, WFMin
  <1>4. \A y \in T : ~(y < x) BY <1>2, <1>3
  <1>5. \A y \in T : x <= y BY <1>4
  <1> QED BY <1>3, <1>5

\* Recordings of one run id log the events that they share in the same order.
OneOrder ==
    \A r, q \in Recordings :
        \A i, j \in 1..Len(r.events) : \A k, l \in 1..Len(q.events) :
            i < j /\ r.events[i] = q.events[k] /\ r.events[j] = q.events[l] => k < l

\* Two logs have the same n events, each once and in the same order.
SameEvents(n, s, u) ==
    /\ \A i, j \in 1..n : s[i] = s[j] => i = j
    /\ \A i, j \in 1..n : u[i] = u[j] => i = j
    /\ \A i \in 1..n : \E k \in 1..n : s[i] = u[k]
    /\ \A i \in 1..n : \E k \in 1..n : u[i] = s[k]
    /\ \A i, j, k, l \in 1..n : i < j /\ s[i] = u[k] /\ s[j] = u[l] => k < l

\* Two logs of the same events in the same order are one.
LEMMA SameLog ==
    ASSUME NEW n \in Nat, NEW s, NEW u, SameEvents(n, s, u)
    PROVE  \A i \in 1..n : s[i] = u[i]
  <1> DEFINE T == {i \in 1..n : s[i] # u[i]}
  <1> SUFFICES ASSUME T # {} PROVE FALSE OBVIOUS
  <1>1. T \subseteq Nat OBVIOUS
  <1>2. PICK i \in T : \A y \in T : i <= y BY <1>1, LeastNumber
  <1>3. i \in 1..n /\ s[i] # u[i] OBVIOUS
  <1>4. \A j \in 1..n : j < i => s[j] = u[j] BY <1>2, <1>3
  <1> HIDE DEF T
  <1>5. PICK k \in 1..n : s[i] = u[k] BY <1>3 DEF SameEvents
  <1>6. PICK l \in 1..n : u[i] = s[l] BY <1>3 DEF SameEvents
  <1>7. ~(k < i)
    <2> SUFFICES ASSUME k < i PROVE FALSE OBVIOUS
    <2>1. s[k] = s[i] BY <1>4, <1>5
    <2>2. k = i BY <1>3, <2>1 DEF SameEvents
    <2> QED BY <1>3, <2>2
  <1>8. ~(l < i)
    <2> SUFFICES ASSUME l < i PROVE FALSE OBVIOUS
    <2>1. u[l] = u[i] BY <1>4, <1>6
    <2>2. l = i BY <1>3, <2>1 DEF SameEvents
    <2> QED BY <1>3, <2>2
  <1>9. k # i /\ l # i BY <1>3, <1>5, <1>6
  <1>10. i < l /\ i < k BY <1>3, <1>7, <1>8, <1>9
  <1>11. k < i BY <1>3, <1>5, <1>6, <1>10 DEF SameEvents
  <1> QED BY <1>7, <1>11

\* The pieces of a log: its first lines.
LEMMA LogPiece ==
    ASSUME NEW r \in Recordings, NEW v \in Fragment(r, "events")
    PROVE  /\ v \in Seq(Range(r.events))
           /\ Len(v) \in 0..Len(r.events) /\ Len(r.events) \in Nat /\ DOMAIN v = 1..Len(v)
           /\ \A i \in 1..Len(v) : v[i] = r.events[i]
           /\ Len(v) = Len(r.events) => v = r.events
  <1> DEFINE es == r.events
             S == Range(r.events)
  <1>1. es \in Seq(S) BY RecordingsAssumption
  <1>2. v = es \/ \E n \in 0..Len(es) : v = SubSeq(es, 1, n)
    BY Contents DEF Fragment
  <1> HIDE DEF es, S
  <1>3. ASSUME NEW n \in 0..Len(es)
        PROVE  /\ SubSeq(es, 1, n) \in Seq(S) /\ Len(SubSeq(es, 1, n)) = n
               /\ \A i \in 1..n : SubSeq(es, 1, n)[i] = es[i]
    BY <1>1
  <1>4. ASSUME NEW w \in Seq(S), Len(w) = Len(es), \A i \in 1..Len(w) : w[i] = es[i]
        PROVE  w = es
    BY <1>1, <1>4
  <1>5. Len(es) \in Nat BY <1>1
  <1>6. CASE v = es BY <1>1, <1>5, <1>6 DEF es, S
  <1>7. ASSUME NEW n \in 0..Len(es), v = SubSeq(es, 1, n)
        PROVE  /\ v \in Seq(S) /\ Len(v) = n /\ \A i \in 1..n : v[i] = es[i]
    BY <1>3, <1>7
  <1>8. CASE \E n \in 0..Len(es) : v = SubSeq(es, 1, n)
    <2>1. PICK n \in 0..Len(es) : v = SubSeq(es, 1, n) BY <1>8
    <2>2. v \in Seq(S) /\ Len(v) = n /\ \A i \in 1..n : v[i] = es[i] BY <1>7, <2>1
    <2>3. DOMAIN v = 1..n BY <2>2
    <2>4. Len(v) = Len(es) => v = es BY <1>4, <2>2
    <2> QED BY <1>5, <2>2, <2>3, <2>4 DEF es, S
  <1> QED BY <1>2, <1>6, <1>8

\* A log that loads is the one whose hash and count its sidecar has.
LEMMA LoadedHash ==
    ASSUME ArchiveInv, pc = "loaded"
    PROVE  \E r \in begun : /\ got["provenance"] = sidecar(r)
                            /\ Range(got["events"]) = Range(r.events)
                            /\ Len(got["events"]) = Len(r.events)
  <1>1. "provenance" \in ReadBefore(pc) BY FourFiles DEF ReadBefore
  <1>2. PICK r \in begun : got["provenance"] \in Fragment(r, "provenance")
    BY <1>1 DEF ArchiveInv, ReaderInv
  <1>3. got["provenance"] = sidecar(r) BY <1>2, Contents DEF Fragment, Lines
  <1>4. sidecar(r).event_log_hash = Range(r.events) /\ sidecar(r).event_count = Len(r.events)
    BY DEF sidecar, log_hash
  <1> QED BY <1>3, <1>4 DEF ArchiveInv, ReaderInv, log_hash

\* A loaded log is the whole log of the recording in its sidecar.
LEMMA LoadedWhole ==
    ASSUME ArchiveInv, OneOrder
    PROVE  LoadedLogIsWhole
  <1> SUFFICES ASSUME pc = "loaded"
               PROVE  \E r \in begun : got["events"] = r.events /\ got["provenance"] = sidecar(r)
    BY DEF LoadedLogIsWhole
  <1>1. PICK r \in begun : /\ got["provenance"] = sidecar(r)
                           /\ Range(got["events"]) = Range(r.events)
                           /\ Len(got["events"]) = Len(r.events)
    BY LoadedHash
  <1>2. "events" \in ReadBefore(pc) BY FourFiles DEF ReadBefore
  <1>3. PICK q \in begun : got["events"] \in Fragment(q, "events")
    BY <1>2 DEF ArchiveInv, ReaderInv
  <1>4. r \in Recordings /\ q \in Recordings BY DEF ArchiveInv, WriterInv
  <1> DEFINE s == got["events"]
             n == Len(r.events)
  <1>5. /\ n \in Nat /\ n \in 0..Len(q.events) /\ DOMAIN s = 1..n
        /\ \A i \in 1..n : s[i] = q.events[i]
    BY <1>1, <1>3, <1>4, LogPiece
  <1>6. DOMAIN r.events = 1..n /\ r.events \in Seq(Range(r.events))
    BY <1>4, ArrivalRecords, RecordingsAssumption
  <1> DEFINE u == r.events
             w == q.events
  <1>7. \A i, j \in 1..Len(u) : i < j => u[i].id # u[j].id BY <1>4, RecordingsAssumption
  <1>8. \A i, j \in 1..Len(w) : i < j => w[i].id # w[j].id BY <1>4, RecordingsAssumption
  <1>9. \A i, j \in 1..Len(w) : \A k, l \in 1..Len(u) :
            i < j /\ w[i] = u[k] /\ w[j] = u[l] => k < l
    BY <1>4 DEF OneOrder
  <1>10. Range(s) = Range(u) /\ n = Len(u) BY <1>1
  <1>11. Len(w) \in Nat /\ n \in Nat /\ n \in 0..Len(w) BY <1>4, <1>5, ArrivalRecords
  <1>12. DOMAIN s = 1..n /\ DOMAIN u = 1..n /\ \A i \in 1..n : s[i] = w[i] BY <1>5, <1>6
  <1>13. \A i \in 1..n : s[i] = u[i]
    <2> HIDE DEF s, n, u, w
    <2>1. \A i \in 1..n : i \in 1..Len(w) BY <1>11
    <2>2. \A i, j \in 1..n : u[i] = u[j] => i = j BY <1>5, <1>7, <1>10
    <2>3. ASSUME NEW i \in 1..n, NEW j \in 1..n, s[i] = s[j] PROVE i = j
      <3>1. w[i] = w[j] /\ i \in 1..Len(w) /\ j \in 1..Len(w) BY <1>12, <2>1, <2>3
      <3>2. ~(i < j) /\ ~(j < i) BY <1>8, <3>1
      <3>3. i \in Int /\ j \in Int BY <1>11, <2>3
      <3> QED BY <3>2, <3>3
    <2>4. ASSUME NEW i \in 1..n PROVE \E k \in 1..n : s[i] = u[k]
      <3>1. s[i] \in Range(s) BY <1>12, <2>4 DEF Range
      <3>2. s[i] \in Range(u) BY <1>10, <3>1
      <3> QED BY <1>12, <3>2 DEF Range
    <2>5. ASSUME NEW i \in 1..n PROVE \E k \in 1..n : u[i] = s[k]
      <3>1. u[i] \in Range(u) BY <1>12, <2>5 DEF Range
      <3>2. u[i] \in Range(s) BY <1>10, <3>1
      <3> QED BY <1>12, <3>2 DEF Range
    <2>6. \A i, j, k, l \in 1..n : i < j /\ s[i] = u[k] /\ s[j] = u[l] => k < l
      BY <1>9, <1>10, <1>12, <2>1
    <2>7. SameEvents(n, s, u) BY <2>2, <2>3, <2>4, <2>5, <2>6 DEF SameEvents
    <2> QED BY <1>11, <2>7, SameLog
  <1>14. s = r.events
    <2>0. s \in Seq(Range(q.events)) BY <1>3, <1>4, LogPiece
    <2>1. s = [i \in 1..n |-> s[i]] BY <1>5, <2>0
    <2>2. r.events = [i \in 1..n |-> r.events[i]] BY <1>6
    <2> QED BY <1>13, <2>1, <2>2
  <1> QED BY <1>1, <1>14

\* The first elements of a sequence.
LEMMA FrontPiece ==
    ASSUME NEW S, NEW q \in Seq(S), NEW n \in 0..Len(q)
    PROVE  /\ DOMAIN SubSeq(q, 1, n) = 1..n
           /\ \A i \in 1..n : SubSeq(q, 1, n)[i] = q[i]
  OBVIOUS

\* All of a sequence is the sequence.
LEMMA WholeSubSeq ==
    ASSUME NEW S, NEW q \in Seq(S)
    PROVE  SubSeq(q, 1, Len(q)) = q
  <1>1. /\ SubSeq(q, 1, Len(q)) \in Seq(S) /\ Len(SubSeq(q, 1, Len(q))) = Len(q)
        /\ \A i \in 1..Len(q) : SubSeq(q, 1, Len(q))[i] = q[i]
    OBVIOUS
  <1>2. ASSUME NEW w \in Seq(S), Len(w) = Len(q), \A i \in 1..Len(q) : w[i] = q[i]
        PROVE  w = q
    BY <1>2
  <1> QED BY <1>1, <1>2

\* With one recording, what loads is all of it: its log by the count, its arrivals
\* because every event of the log has one.
LEMMA LoadedAsWritten ==
    ASSUME ArchiveInv
    PROVE  LoadsAsWritten
  <1> SUFFICES ASSUME NEW r \in begun, pc = "loaded", begun = {r}
               PROVE  \A f \in File : got[f] = content(r, f)
    BY DEF LoadsAsWritten
  <1>1. r \in Recordings BY DEF ArchiveInv, WriterInv
  <1>2. \A f \in File : got[f] \in Fragment(r, f)
    <2>1. ReadBefore(pc) = File BY DEF ReadBefore
    <2> QED BY <2>1 DEF ArchiveInv, ReaderInv
  <1>3. \A f \in File \ Lines : got[f] = content(r, f) BY <1>2 DEF Fragment
  <1>4. got["events"] = r.events
    <2>1. Len(got["events"]) = Len(r.events)
      BY LoadedHash
    <2>2. got["events"] \in Fragment(r, "events") BY <1>2, FourFiles
    <2> QED BY <1>1, <2>1, <2>2, LogPiece
  <1>5. got["arrivals"] = arrival_records(r)
    <2> DEFINE as == arrival_records(r)
               es == r.events
               m == Len(r.events)
    <2>1. /\ m \in Nat /\ DOMAIN es = 1..m /\ Len(as) = m /\ DOMAIN as = 1..m
          /\ \A i \in 1..m : as[i].id = es[i].id
      BY <1>1, ArrivalRecords
    <2>2. as \in Seq(Range(as))
      <3>1. as = [i \in 1..m |-> as[i]] BY <1>1, ArrivalRecords
      <3>2. as \in [1..m -> Range(as)] BY <2>1, <3>1 DEF Range
      <3> QED BY <2>1, <3>2, FunctionIsSeq
    <2>3. "arrivals" \in File BY FourFiles
    <2>4. got["arrivals"] = as \/ \E n \in 0..m : got["arrivals"] = SubSeq(as, 1, n)
      BY <1>2, <2>1, <2>3, Contents DEF Fragment
    <2>5. \A e \in Range(es) : \E a \in Range(got["arrivals"]) : a.id = e.id
      BY <1>4 DEF ArchiveInv, ReaderInv, replays
    <2>6. \A i, j \in 1..m : i < j => es[i].id # es[j].id BY <1>1, RecordingsAssumption
    <2> HIDE DEF as, es, m
    <2>7. ASSUME NEW n \in 0..m, got["arrivals"] = SubSeq(as, 1, n), n # m PROVE FALSE
      <3>1. /\ DOMAIN SubSeq(as, 1, n) = 1..n
            /\ \A i \in 1..n : SubSeq(as, 1, n)[i] = as[i]
        <4>1. n \in 0..Len(as) BY <2>1
        <4> QED BY <2>2, <4>1, FrontPiece
      <3>2. m \in 1..m /\ \A k \in 1..n : k \in 1..m /\ k < m BY <2>1, <2>7
      <3>3. es[m] \in Range(es) BY <2>1, <3>2 DEF Range
      <3>4. PICK a \in Range(got["arrivals"]) : a.id = es[m].id BY <2>5, <3>3
      <3>5. PICK k \in 1..n : a = as[k] BY <2>7, <3>1, <3>4 DEF Range
      <3> QED BY <2>1, <2>6, <3>2, <3>4, <3>5, ZenonT(60)
    <2>8. SubSeq(as, 1, m) = as BY <2>1, <2>2, WholeSubSeq
    <2> QED BY <2>4, <2>7, <2>8 DEF as
  <1> QED BY <1>3, <1>4, <1>5, Contents, FourFiles DEF Lines

\* A run whose write_run ended reads back.
LEMMA CompleteRead ==
    ASSUME ArchiveInv
    PROVE  CompleteReadsBack
  <1>1. ReadBefore("loaded") = File BY DEF ReadBefore
  <1> QED BY <1>1 DEF ArchiveInv, BasisInv, CompleteReadsBack

\* read_run against write_run, with any recordings of a run id, however many writes,
\* crashes and readers: a directory of one recording loads as that recording or not
\* at all, a run whose write_run ended reads back, and a log that loads is the log
\* whose hash and count its sidecar has.
THEOREM ArchiveCorrect ==
    ArchiveSpec => []( /\ LoadsAsWritten /\ CompleteReadsBack
                       /\ pc = "loaded" =>
                             \E r \in begun : /\ got["provenance"] = sidecar(r)
                                              /\ Range(got["events"]) = Range(r.events)
                                              /\ Len(got["events"]) = Len(r.events) )
  <1>1. ArchiveInv /\ [ArchiveNext]_archive_vars => ArchiveInv' BY ArchiveStep
  <1>2. ArchiveInv => /\ LoadsAsWritten /\ CompleteReadsBack
                      /\ pc = "loaded" =>
                            \E r \in begun : /\ got["provenance"] = sidecar(r)
                                             /\ Range(got["events"]) = Range(r.events)
                                             /\ Len(got["events"]) = Len(r.events)
    BY LoadedAsWritten, CompleteRead, LoadedHash
  <1> QED BY <1>1, <1>2, ArchiveBegins, PTL DEF ArchiveSpec

\* What read_run returns is what write_run was given, for recordings that log the
\* events they share in one order; a hash over the set of events cannot tell two
\* orders apart.
THEOREM ArchiveLoads ==
    ASSUME OneOrder
    PROVE  PartsSpec => []ArchiveReadsBack
  <1> DEFINE Inv == part = "archive" => ArchiveInv
  <1>1. PartsInit => Inv BY ArchiveBegins DEF PartsInit
  <1>2. ASSUME Inv, [PartsNext]_<<part, vars, tool_vars, portal_vars, temperature_vars,
                        bus_vars, mqtt_vars, registry_vars, time_vars, scenario_vars, facility,
                        config_vars, versions, archive_vars, sync_vars, rules_vars, thread_vars>>
        PROVE  Inv'
    <2>1. UNCHANGED part /\ (part = "archive" => [ArchiveNext]_archive_vars)
      BY <1>2, PartRuns
    <2> QED BY <1>2, <2>1, ArchiveStep
  <1>3. Inv => ArchiveReadsBack
    BY LoadedWhole, LoadedAsWritten, CompleteRead DEF ArchiveReadsBack, LoadsOneRecording
  <1> QED BY <1>1, <1>2, <1>3, PTL DEF PartsSpec
-----------------------------------------------------------------------------
(* TopicFilters: the walk over the levels and MQTT's rule.                 *)

\* The filters that a network accepts have # at their end only.  filter_levels asks
\* less: it lets #/# pass.
HashIsLast(filters) ==
    \A f \in filters : FilterLevels(f) => \A i \in 1..Len(f) - 1 : f[i] # MULTI_LEVEL

\* The least number of a set.
LEMMA MinIs ==
    ASSUME NEW T, T \subseteq Nat, T # {}
    PROVE  Min(T) \in T /\ \A y \in T : Min(T) <= y
  <1>1. \E x \in T : \A y \in T : x <= y BY LeastNumber
  <1> QED BY <1>1 DEF Min

\* The first levels of a topic or a filter.
LEMMA PrefixIs ==
    ASSUME NEW S, NEW q \in Seq(S), NEW k \in 0..Len(q)
    PROVE  /\ SubSeq(q, 1, k) \in Seq(S) /\ Len(SubSeq(q, 1, k)) = k
           /\ DOMAIN SubSeq(q, 1, k) = 1..k
           /\ \A i \in 1..k : SubSeq(q, 1, k)[i] = q[i]
  <1>1. \A i \in 1..k : q[i] \in S OBVIOUS
  <1>2. SubSeq(q, 1, k) = [i \in 1..k |-> q[i]] OBVIOUS
  <1> QED BY <1>1, <1>2

\* topic_matches on a filter without #: level by level.
LEMMA PlainMatches ==
    ASSUME NEW f \in Seq(STRING), f # <<>>, NEW t \in Seq(STRING),
           \A i \in 1..Len(f) : f[i] # MULTI_LEVEL
    PROVE  topic_matches(f, t) <=> LevelsFit(f, t)
  <1> DEFINE D == {i \in DOMAIN f : \/ f[i] = MULTI_LEVEL
                                    \/ i > Len(t)
                                    \/ f[i] # SINGLE_LEVEL /\ f[i] # t[i]}
  <1>1. DOMAIN f = 1..Len(f) /\ Len(f) \in Nat /\ Len(t) \in Nat OBVIOUS
  <1>2. D \subseteq Nat BY <1>1
  <1>3. topic_matches(f, t) = IF D = {} THEN Len(f) = Len(t)
                              ELSE f[Min(D)] = MULTI_LEVEL /\ Min(D) - 1 <= Len(t)
    BY DEF topic_matches
  <1>4. \A i \in 1..Len(f) : i \in D <=> i > Len(t) \/ (f[i] # SINGLE_LEVEL /\ f[i] # t[i])
    BY <1>1
  <1> HIDE DEF D
  <1>5. CASE D = {}
    <2>1. \A i \in 1..Len(f) : f[i] = SINGLE_LEVEL \/ f[i] = t[i] BY <1>4, <1>5
    <2> QED BY <1>1, <1>3, <1>5, <2>1 DEF LevelsFit
  <1>6. CASE D # {}
    <2>1. Min(D) \in D BY <1>2, <1>6, MinIs
    <2>2. D \subseteq 1..Len(f) BY <1>1 DEF D
    <2>3. ~topic_matches(f, t) BY <1>3, <1>6, <2>1, <2>2
    <2>4. PICK i \in 1..Len(f) : i > Len(t) \/ (f[i] # SINGLE_LEVEL /\ f[i] # t[i])
      BY <1>4, <2>1, <2>2
    <2>5. i > Len(t) => Len(f) # Len(t) BY <1>1, <2>4
    <2>6. ~LevelsFit(f, t) BY <1>1, <2>4, <2>5 DEF LevelsFit
    <2> QED BY <2>3, <2>6
  <1> QED BY <1>5, <1>6

\* topic_matches on a filter whose last level, and no other, is #.
LEMMA HashMatches ==
    ASSUME NEW f \in Seq(STRING), f # <<>>, NEW t \in Seq(STRING),
           f[Len(f)] = MULTI_LEVEL, \A i \in 1..Len(f) - 1 : f[i] # MULTI_LEVEL
    PROVE  topic_matches(f, t) <=>
              /\ Len(f) - 1 <= Len(t)
              /\ \A i \in 1..Len(f) - 1 : f[i] = SINGLE_LEVEL \/ f[i] = t[i]
  <1> DEFINE D == {i \in DOMAIN f : \/ f[i] = MULTI_LEVEL
                                    \/ i > Len(t)
                                    \/ f[i] # SINGLE_LEVEL /\ f[i] # t[i]}
             n == Len(f)
  <1>1. DOMAIN f = 1..n /\ n \in Nat /\ n >= 1 /\ Len(t) \in Nat OBVIOUS
  <1>2. D \subseteq Nat /\ n \in D /\ D \subseteq 1..n BY <1>1
  <1>3. topic_matches(f, t) = IF D = {} THEN Len(f) = Len(t)
                              ELSE f[Min(D)] = MULTI_LEVEL /\ Min(D) - 1 <= Len(t)
    BY DEF topic_matches
  <1>4. \A i \in 1..n-1 : i \in D <=> i > Len(t) \/ (f[i] # SINGLE_LEVEL /\ f[i] # t[i])
    BY <1>1
  <1>5. \A i \in 1..n-1 : f[i] # MULTI_LEVEL OBVIOUS
  <1>6. f[n] = MULTI_LEVEL OBVIOUS
  <1> HIDE DEF D, n
  <1>7. Min(D) \in D /\ (\A y \in D : Min(D) <= y) BY <1>2, MinIs
  <1> DEFINE k == Min(D)
  <1>8. k \in 1..n /\ k \in D /\ (\A y \in D : k <= y) BY <1>2, <1>7
  <1>9. topic_matches(f, t) <=> f[k] = MULTI_LEVEL /\ k - 1 <= Len(t) BY <1>2, <1>3
  <1> HIDE DEF k
  <1>10. CASE k = n
    <2>1. \A i \in 1..n-1 : i \notin D BY <1>1, <1>8, <1>10
    <2>2. \A i \in 1..n-1 : i <= Len(t) /\ (f[i] = SINGLE_LEVEL \/ f[i] = t[i]) BY <1>1, <1>4, <2>1
    <2>3. n - 1 <= Len(t)
      <3>1. CASE n = 1 BY <1>1, <3>1
      <3>2. CASE n # 1
        <4>1. n - 1 \in 1..n-1 BY <1>1, <3>2
        <4> QED BY <2>2, <4>1
      <3> QED BY <3>1, <3>2
    <2> QED BY <1>6, <1>9, <1>10, <2>2, <2>3 DEF n
  <1>11. CASE k # n
    <2>1. k \in 1..n-1 BY <1>1, <1>8, <1>11
    <2>2. ~topic_matches(f, t) BY <1>5, <1>9, <2>1
    <2>3. k > Len(t) \/ (f[k] # SINGLE_LEVEL /\ f[k] # t[k]) BY <1>4, <1>8, <2>1
    <2>4. k > Len(t) => n - 1 > Len(t) BY <1>1, <2>1
    <2> QED BY <1>1, <2>1, <2>2, <2>3, <2>4 DEF n
  <1> QED BY <1>10, <1>11

\* topic_matches, which decides at the first level that tells, selects what MQTT's
\* rule for filters selects.
LEMMA MatchesIsSelects ==
    ASSUME NEW f \in Seq(STRING), FilterLevels(f), NEW t \in Seq(STRING),
           \A i \in 1..Len(f) - 1 : f[i] # MULTI_LEVEL
    PROVE  topic_matches(f, t) <=> Selects(f, t)
  <1>1. f # <<>> /\ Len(f) \in Nat /\ Len(f) >= 1 /\ Len(t) \in Nat /\ DOMAIN f = 1..Len(f)
    BY DEF FilterLevels
  <1>2. CASE f[Len(f)] # MULTI_LEVEL
    <2>1. \A i \in 1..Len(f) : f[i] # MULTI_LEVEL BY <1>1, <1>2
    <2> QED BY <1>1, <1>2, <2>1, PlainMatches DEF Selects, Last
  <1>3. CASE f[Len(f)] = MULTI_LEVEL
    <2> DEFINE n == Len(f)
               g == SubSeq(f, 1, n - 1)
               u == SubSeq(t, 1, n - 1)
    <2>1. n \in Nat /\ n >= 1 BY <1>1
    <2>2. Len(g) = n - 1 /\ DOMAIN g = 1..n-1 /\ \A i \in 1..n-1 : g[i] = f[i]
      <3>1. n - 1 \in 0..Len(f) BY <2>1
      <3> QED BY <3>1, PrefixIs
    <2>3. n - 1 <= Len(t) => Len(u) = n - 1 /\ \A i \in 1..n-1 : u[i] = t[i]
      <3>1. n - 1 <= Len(t) => n - 1 \in 0..Len(t) BY <1>1, <2>1
      <3> QED BY <3>1, PrefixIs
    <2>4. Selects(f, t) <=> Len(g) <= Len(t) /\ LevelsFit(g, u)
      BY <1>3 DEF Selects, Last, Front
    <2>5. topic_matches(f, t) <=>
              /\ n - 1 <= Len(t)
              /\ \A i \in 1..n - 1 : f[i] = SINGLE_LEVEL \/ f[i] = t[i]
      BY <1>1, <1>3, HashMatches
    <2> HIDE DEF g, u, n
    <2>6. CASE n - 1 <= Len(t)
      <3>1. LevelsFit(g, u) <=> \A i \in 1..n-1 : f[i] = SINGLE_LEVEL \/ f[i] = t[i]
        BY <2>2, <2>3, <2>6 DEF LevelsFit
      <3> QED BY <2>2, <2>4, <2>5, <2>6, <3>1
    <2>7. CASE ~(n - 1 <= Len(t)) BY <2>2, <2>4, <2>5, <2>7
    <2> QED BY <2>6, <2>7
  <1> QED BY <1>2, <1>3
-----------------------------------------------------------------------------
(* MqttNetwork: the subscriptions of the adapter.                          *)

Accepted == {f \in CallerFilters : FilterLevels(f)}

MqttMessage == [topic : MessageTopics, subs : Nat]
HandlerCall == [message : Nat, sub : Nat]

MqttTypes ==
    /\ client \in BOOLEAN /\ linked \in BOOLEAN
    /\ subscriptions \in Seq(Accepted)
    /\ calling \in Accepted \cup {NoFilter}
    /\ replay \in Nat
    /\ fan_out \in [message : Nat, next : Nat]
    /\ messages \in Seq(MqttMessage)
    /\ handled \in Seq(HandlerCall)

\* What the broker holds goes with the connection.  Of the list it lacks only what
\* _on_connect has still to replay and the filter subscribe() has still to send.
BrokerInv ==
    /\ ~linked => at_broker = {}
    /\ \A f \in at_broker : \E i \in 1..Len(subscriptions) : f = subscriptions[i]
    /\ calling # NoFilter => Len(subscriptions) > 0 /\ calling = subscriptions[Len(subscriptions)]
    /\ linked => \A i \in 1..Len(subscriptions) :
          \/ subscriptions[i] \in at_broker
          \/ replay # Idle /\ replay <= i
          \/ calling # NoFilter /\ i = Len(subscriptions)

Hit(m, i) == topic_matches(subscriptions[i], messages[m].topic)
Heard(m, i) == \E k \in 1..Len(handled) : handled[k].message = m /\ handled[k].sub = i

\* The fan-out under way is that of the newest message and has served the handlers
\* before the one it is at; the others are complete.
HearInv ==
    /\ fan_out = Nothing \/ /\ Len(messages) > 0 /\ fan_out.message = Len(messages)
                            /\ fan_out.next \in 1..Len(subscriptions) + 1
    /\ \A m \in 1..Len(messages) : messages[m].subs <= Len(subscriptions)
    /\ \A k \in 1..Len(handled) : /\ handled[k].message \in 1..Len(messages)
                                  /\ handled[k].sub \in 1..Len(subscriptions)
                                  /\ Hit(handled[k].message, handled[k].sub)
    /\ \A k, l \in 1..Len(handled) :
          k < l /\ handled[k].message = handled[l].message => handled[k].sub < handled[l].sub
    /\ \A m \in 1..Len(messages) : m # fan_out.message =>
          \A i \in 1..messages[m].subs : Hit(m, i) => Heard(m, i)
    /\ fan_out # Nothing =>
          /\ \A k \in 1..Len(handled) :
                handled[k].message = fan_out.message => handled[k].sub < fan_out.next
          /\ \A i \in 1..fan_out.next - 1 : Hit(fan_out.message, i) => Heard(fan_out.message, i)

MqttInv == MqttTypes /\ BrokerInv /\ HearInv

\* What appending does to a list.
LEMMA Appended ==
    ASSUME NEW S, NEW q \in Seq(S), NEW e \in S
    PROVE  /\ Append(q, e) \in Seq(S) /\ Len(q) \in Nat /\ Len(Append(q, e)) = Len(q) + 1
           /\ \A i \in 1..Len(q) : Append(q, e)[i] = q[i]
           /\ Append(q, e)[Len(q) + 1] = e
  OBVIOUS

\* The messages that have arrived.
LEMMA MessageIs ==
    ASSUME NEW q \in Seq(MqttMessage), NEW m \in 1..Len(q)
    PROVE  q[m] \in MqttMessage /\ q[m].subs \in Nat /\ q[m].topic \in MessageTopics
  <1>1. q[m] \in MqttMessage OBVIOUS
  <1> QED BY <1>1 DEF MqttMessage

\* Handlers that have heard stay so while nothing of theirs changes.
LEMMA HearKept ==
    ASSUME HearInv, UNCHANGED <<subscriptions, fan_out, messages, handled>>
    PROVE  HearInv'
  BY DEF HearInv, Hit, Heard

\* What the broker holds stays the same while the fan-out goes on.
LEMMA BrokerKept ==
    ASSUME BrokerInv, UNCHANGED <<subscriptions, linked, at_broker, calling, replay>>
    PROVE  BrokerInv'
  BY DEF BrokerInv

\* subscribe() adds a filter at the end of the list, which no message under way owes.
LEMMA SubscribeKeeps ==
    ASSUME MqttInv, NEW filter \in CallerFilters, MqttSubscribe(filter)
    PROVE  MqttInv'
  <1>1. /\ filter \in Accepted /\ calling = NoFilter
        /\ subscriptions' = Append(subscriptions, filter) /\ calling' = filter
        /\ UNCHANGED <<client, linked, at_broker, replay, fan_out, messages, handled>>
    BY DEF MqttSubscribe, Accepted
  <1>2. subscriptions \in Seq(Accepted) BY DEF MqttInv, MqttTypes
  <1>3. /\ subscriptions' \in Seq(Accepted) /\ Len(subscriptions) \in Nat
        /\ Len(subscriptions') = Len(subscriptions) + 1
        /\ \A i \in 1..Len(subscriptions) : subscriptions'[i] = subscriptions[i]
        /\ subscriptions'[Len(subscriptions) + 1] = filter
    BY <1>1, <1>2, Appended
  <1>4. MqttTypes' BY <1>1, <1>3 DEF MqttInv, MqttTypes
  <1>5. filter # NoFilter BY <1>1 DEF Accepted, FilterLevels, NoFilter
  <1>6. BrokerInv'
    <2>1. \A f \in at_broker' : \E i \in 1..Len(subscriptions') : f = subscriptions'[i]
      BY <1>1, <1>3 DEF MqttInv, BrokerInv
    <2>2. linked' => \A i \in 1..Len(subscriptions') :
             \/ subscriptions'[i] \in at_broker'
             \/ replay' # Idle /\ replay' <= i
             \/ calling' # NoFilter /\ i = Len(subscriptions')
      BY <1>1, <1>3, <1>5 DEF MqttInv, BrokerInv
    <2> QED BY <1>1, <1>3, <2>1, <2>2 DEF MqttInv, BrokerInv
  <1>7. HearInv'
    <2>1. \A m \in 1..Len(messages) : messages[m].subs \in Nat /\ messages[m].subs <= Len(subscriptions)
      <3>1. messages \in Seq(MqttMessage) BY DEF MqttInv, MqttTypes
      <3>2. \A m \in 1..Len(messages) : messages[m].subs \in Nat BY <3>1, MessageIs
      <3> QED BY <3>2 DEF MqttInv, HearInv
    <2>2. \A m : \A i \in 1..Len(subscriptions) : (Hit(m, i)' <=> Hit(m, i)) /\ (Heard(m, i)' <=> Heard(m, i))
      BY <1>1, <1>3 DEF Hit, Heard
    <2>3. HearInv BY DEF MqttInv
    <2>4. fan_out # Nothing => /\ Len(messages) > 0 /\ fan_out.message = Len(messages)
                               /\ fan_out.next \in 1..Len(subscriptions) + 1
      BY <2>3 DEF HearInv
    <2>5. fan_out # Nothing => \A i \in 1..fan_out.next - 1 : i \in 1..Len(subscriptions)
      BY <1>3, <2>4
    <2>6. /\ fan_out = Nothing \/ /\ Len(messages) > 0 /\ fan_out.message = Len(messages)
                                  /\ fan_out.next \in 1..Len(subscriptions') + 1
          /\ \A m \in 1..Len(messages) : messages[m].subs <= Len(subscriptions')
      BY <1>3, <2>1, <2>4
    <2>7. \A k \in 1..Len(handled) : /\ handled[k].message \in 1..Len(messages)
                                     /\ handled[k].sub \in 1..Len(subscriptions')
                                     /\ Hit(handled[k].message, handled[k].sub)'
      BY <1>1, <1>3, <2>2, <2>3 DEF HearInv
    <2>8. \A m \in 1..Len(messages) : m # fan_out.message =>
             \A i \in 1..messages[m].subs : Hit(m, i)' => Heard(m, i)'
      <3>1. \A m \in 1..Len(messages) : \A i \in 1..messages[m].subs : i \in 1..Len(subscriptions)
        BY <1>3, <2>1
      <3> QED BY <2>2, <2>3, <3>1 DEF HearInv
    <2>9. fan_out # Nothing =>
             \A i \in 1..fan_out.next - 1 : Hit(fan_out.message, i)' => Heard(fan_out.message, i)'
      BY <1>1, <2>2, <2>3, <2>5 DEF HearInv
    <2> QED BY <1>1, <2>3, <2>6, <2>7, <2>8, <2>9 DEF HearInv
  <1> QED BY <1>4, <1>6, <1>7 DEF MqttInv

\* _on_message takes the next message: nobody has heard it yet.
LEMMA ArriveKeeps ==
    ASSUME MqttInv, NEW topic \in MessageTopics, Arrive(topic)
    PROVE  MqttInv'
  <1> DEFINE m0 == [topic |-> topic, subs |-> Len(subscriptions)]
             n == Len(messages) + 1
  <1>1. /\ fan_out = Nothing /\ messages' = Append(messages, m0)
        /\ fan_out' = [message |-> Len(messages'), next |-> 1]
        /\ UNCHANGED <<client, subscriptions, calling, linked, at_broker, replay, handled>>
    BY DEF Arrive
  <1>2. /\ messages \in Seq(MqttMessage) /\ Len(subscriptions) \in Nat
        /\ subscriptions \in Seq(Accepted) /\ HearInv
    BY DEF MqttInv, MqttTypes
  <1>3. m0 \in MqttMessage /\ m0.subs = Len(subscriptions) BY <1>2 DEF MqttMessage
  <1> HIDE DEF m0
  <1>4. /\ messages' \in Seq(MqttMessage) /\ Len(messages) \in Nat
        /\ Len(messages') = n /\ n \in Nat
        /\ \A i \in 1..Len(messages) : messages'[i] = messages[i]
        /\ messages'[n] = m0
    BY <1>1, <1>2, <1>3, Appended
  <1>5. fan_out'.message = n /\ fan_out'.next = 1 /\ fan_out' \in [message : Nat, next : Nat]
    BY <1>1, <1>4
  <1>6. MqttTypes' BY <1>1, <1>4, <1>5 DEF MqttInv, MqttTypes
  <1>7. BrokerInv' BY <1>1, BrokerKept DEF MqttInv
  <1> HIDE DEF n
  <1>8. \A m \in 1..n : m # n => m \in 1..Len(messages) /\ m # fan_out.message BY <1>1, <1>4 DEF n, Nothing
  <1>9. \A m \in 1..Len(messages) : \A i : (Hit(m, i)' <=> Hit(m, i)) /\ (Heard(m, i)' <=> Heard(m, i))
    BY <1>1, <1>4 DEF Hit, Heard
  <1>10. n # 0 /\ Len(messages) \in 1..n \cup {0} /\ n \notin 1..Len(messages) BY <1>4 DEF n
  <1>11. HearInv'
    <2>1. /\ Len(messages') > 0 /\ fan_out'.message = Len(messages')
          /\ fan_out'.next \in 1..Len(subscriptions') + 1
      BY <1>1, <1>2, <1>4, <1>5, <1>10
    <2>2. \A m \in 1..Len(messages') : messages'[m].subs <= Len(subscriptions')
      BY <1>1, <1>2, <1>3, <1>4, <1>8 DEF HearInv
    <2>3. \A k \in 1..Len(handled') : /\ handled'[k].message \in 1..Len(messages')
                                      /\ handled'[k].sub \in 1..Len(subscriptions')
                                      /\ Hit(handled[k].message, handled[k].sub)'
                                      /\ handled'[k].message # n
      <3>1. \A k \in 1..Len(handled) : /\ handled[k].message \in 1..Len(messages)
                                       /\ handled[k].sub \in 1..Len(subscriptions)
                                       /\ Hit(handled[k].message, handled[k].sub)
        BY <1>2 DEF HearInv
      <3>2. 1..Len(messages) \subseteq 1..n BY <1>4 DEF n
      <3>3. \A k \in 1..Len(handled) : messages'[handled[k].message] = messages[handled[k].message]
        BY <1>4, <3>1
      <3>4. \A k \in 1..Len(handled) : Hit(handled[k].message, handled[k].sub)'
        BY <1>1, <3>1, <3>3 DEF Hit
      <3> QED BY <1>1, <1>4, <1>10, <3>1, <3>2, <3>4
    <2>4. \A m \in 1..Len(messages') : m # fan_out'.message =>
             \A i \in 1..messages'[m].subs : Hit(m, i)' => Heard(m, i)'
      BY <1>2, <1>4, <1>5, <1>8, <1>9 DEF HearInv
    <2>5. \A k, l \in 1..Len(handled') :
             k < l /\ handled'[k].message = handled'[l].message => handled'[k].sub < handled'[l].sub
      BY <1>1, <1>2 DEF HearInv
    <2>6. /\ \A k \in 1..Len(handled') : handled'[k].message # fan_out'.message
          /\ \A i \in 1..fan_out'.next - 1 : FALSE
      BY <1>5, <2>3
    <2>7. \A k \in 1..Len(handled') : /\ handled'[k].message \in 1..Len(messages')
                                      /\ handled'[k].sub \in 1..Len(subscriptions')
                                      /\ Hit(handled[k].message, handled[k].sub)'
      BY <2>3
    <2> QED BY <2>1, <2>2, <2>4, <2>5, <2>6, <2>7 DEF HearInv
  <1> QED BY <1>6, <1>7, <1>11 DEF MqttInv

\* One round of _on_message: the handler at hand is called when its filter matches.
LEMMA FanOutKeeps ==
    ASSUME MqttInv, FanOut
    PROVE  MqttInv'
  <1>0. PICK m, i : m = fan_out.message /\ i = fan_out.next OBVIOUS
  <1> DEFINE h == [message |-> m, sub |-> i]
  <1>1. /\ fan_out # Nothing
        /\ UNCHANGED <<client, subscriptions, calling, linked, at_broker, replay, messages>>
    BY DEF FanOut
  <1>2. /\ handled \in Seq(HandlerCall) /\ HearInv /\ MqttTypes
        /\ fan_out \in [message : Nat, next : Nat] /\ subscriptions \in Seq(Accepted)
        /\ messages \in Seq(MqttMessage)
    BY DEF MqttInv, MqttTypes
  <1>3. /\ Len(messages) \in Nat /\ Len(subscriptions) \in Nat /\ Len(handled) \in Nat
        /\ m \in Nat /\ i \in Nat
    BY <1>0, <1>2
  <1>4. m = Len(messages) /\ m \in 1..Len(messages) /\ i \in 1..Len(subscriptions) + 1
    BY <1>0, <1>1, <1>2, <1>3 DEF HearInv
  <1>5. BrokerInv' BY <1>1, BrokerKept DEF MqttInv
  <1>6. \A a, b : Hit(a, b)' <=> Hit(a, b) BY <1>1 DEF Hit
  <1>7. CASE i > Len(subscriptions)
    <2>1. fan_out' = Nothing /\ handled' = handled
      BY <1>0, <1>3, <1>7 DEF FanOut
    <2>2. MqttTypes' BY <1>1, <1>2, <2>1 DEF MqttTypes, Nothing
    <2>3. \A a, b : Heard(a, b)' <=> Heard(a, b) BY <2>1 DEF Heard
    <2>4. \A j \in 1..Len(subscriptions) : Hit(m, j) => Heard(m, j)
      <3>1. \A j \in 1..Len(subscriptions) : j \in 1..i - 1 BY <1>3, <1>7
      <3> QED BY <1>0, <1>1, <1>2, <3>1 DEF HearInv
    <2>5. \A j \in 1..messages[m].subs : j \in 1..Len(subscriptions)
      <3>1. messages[m].subs \in Nat BY <1>2, <1>4, MessageIs
      <3>2. messages[m].subs <= Len(subscriptions) BY <1>2, <1>4 DEF HearInv
      <3> QED BY <1>3, <3>1, <3>2
    <2>6. \A a \in 1..Len(messages) : \A j \in 1..messages[a].subs : Hit(a, j)' => Heard(a, j)'
      <3> SUFFICES ASSUME NEW a \in 1..Len(messages), NEW j \in 1..messages[a].subs, Hit(a, j)
                   PROVE  Heard(a, j)
        BY <1>6, <2>3
      <3>1. CASE a = m BY <2>4, <2>5, <3>1
      <3>2. CASE a # m BY <1>0, <1>2, <3>2 DEF HearInv
      <3> QED BY <3>1, <3>2
    <2>7. HearInv' BY <1>1, <1>2, <1>6, <2>1, <2>6 DEF HearInv
    <2> QED BY <1>5, <2>2, <2>7 DEF MqttInv
  <1>8. CASE i <= Len(subscriptions)
    <2>1. /\ handled' = IF Hit(m, i) THEN Append(handled, h) ELSE handled
          /\ fan_out' = [fan_out EXCEPT !.next = i + 1]
      BY <1>0, <1>8 DEF FanOut, Hit
    <2>2. fan_out'.message = m /\ fan_out'.next = i + 1 /\ fan_out' \in [message : Nat, next : Nat]
      BY <1>0, <1>2, <1>3, <2>1
    <2>3. h \in HandlerCall /\ h.message = m /\ h.sub = i BY <1>3 DEF HandlerCall
    <2>4. fan_out' # Nothing BY <1>3, <1>4, <2>2 DEF Nothing
    <2>5. i \in 1..Len(subscriptions) BY <1>4, <1>8
    <2> HIDE DEF h
    <2>6. /\ MqttTypes'
          /\ \A k \in 1..Len(handled') : /\ handled'[k].message \in 1..Len(messages)
                                          /\ handled'[k].sub \in 1..Len(subscriptions)
                                          /\ Hit(handled'[k].message, handled'[k].sub)
          /\ \A k, l \in 1..Len(handled') :
                k < l /\ handled'[k].message = handled'[l].message => handled'[k].sub < handled'[l].sub
          /\ \A k \in 1..Len(handled') : handled'[k].message = m => handled'[k].sub < i + 1
          /\ \A a, b : Heard(a, b) => Heard(a, b)'
          /\ Hit(m, i) => Heard(m, i)'
      <3>1. CASE Hit(m, i)
        <4>1. /\ handled' \in Seq(HandlerCall) /\ Len(handled') = Len(handled) + 1
              /\ \A k \in 1..Len(handled) : handled'[k] = handled[k]
              /\ handled'[Len(handled) + 1] = h
          BY <1>2, <2>1, <2>3, <3>1, Appended
        <4>2. MqttTypes' BY <1>1, <1>2, <2>2, <4>1 DEF MqttTypes
        <4>3. \A k \in 1..Len(handled') : k \in 1..Len(handled) \/ k = Len(handled) + 1
          BY <1>3, <4>1
        <4>4. \A k \in 1..Len(handled') : handled'[k].message = m => handled'[k].sub < i + 1
          <5>1. \A k \in 1..Len(handled) : handled[k].message = m => handled[k].sub < i /\ handled[k].sub \in Nat
            BY <1>0, <1>1, <1>2, <1>3 DEF HearInv
          <5> QED BY <1>3, <2>3, <4>1, <4>3, <5>1
        <4>5. \A k, l \in 1..Len(handled') :
                 k < l /\ handled'[k].message = handled'[l].message => handled'[k].sub < handled'[l].sub
          <5>1. \A k \in 1..Len(handled) : handled[k].message = m => handled[k].sub < i
            BY <1>0, <1>1, <1>2 DEF HearInv
          <5>2. \A k, l \in 1..Len(handled) :
                   k < l /\ handled[k].message = handled[l].message => handled[k].sub < handled[l].sub
            BY <1>2 DEF HearInv
          <5>3. \A k \in 1..Len(handled') : ~(Len(handled) + 1 < k) BY <1>3, <4>1
          <5> QED BY <2>3, <4>1, <4>3, <5>1, <5>2, <5>3
        <4>6. \A k \in 1..Len(handled') : /\ handled'[k].message \in 1..Len(messages)
                                          /\ handled'[k].sub \in 1..Len(subscriptions)
                                          /\ Hit(handled'[k].message, handled'[k].sub)
          <5>1. m \in 1..Len(messages) BY <1>4
          <5> QED BY <1>2, <2>3, <2>5, <3>1, <4>1, <4>3, <5>1 DEF HearInv
        <4>7. \A a, b : Heard(a, b) => Heard(a, b)'
          <5>1. 1..Len(handled) \subseteq 1..Len(handled') BY <1>3, <4>1
          <5> QED BY <4>1, <5>1 DEF Heard
        <4>8. Heard(m, i)'
          <5>1. Len(handled) + 1 \in 1..Len(handled') BY <1>3, <4>1
          <5> QED BY <2>3, <4>1, <5>1 DEF Heard
        <4> QED BY <4>2, <4>4, <4>5, <4>6, <4>7, <4>8
      <3>2. CASE ~Hit(m, i)
        <4>1. handled' = handled BY <2>1, <3>2
        <4>2. MqttTypes' BY <1>1, <1>2, <2>2, <4>1 DEF MqttTypes
        <4>3. \A k \in 1..Len(handled) : handled[k].message = m => handled[k].sub < i + 1
          <5>1. \A k \in 1..Len(handled) : handled[k].message = m => handled[k].sub < i /\ handled[k].sub \in Nat
            BY <1>0, <1>1, <1>2, <1>3 DEF HearInv
          <5> QED BY <1>3, <5>1
        <4>4. \A a, b : Heard(a, b) => Heard(a, b)' BY <4>1 DEF Heard
        <4> QED BY <1>2, <3>2, <4>1, <4>2, <4>3, <4>4 DEF HearInv
      <3> QED BY <3>1, <3>2
    <2>7. \A j \in 1..i : Hit(m, j)' => Heard(m, j)'
      <3>1. \A j \in 1..i : j = i \/ j \in 1..i - 1 BY <1>3
      <3>2. \A j \in 1..i - 1 : Hit(m, j) => Heard(m, j) BY <1>0, <1>1, <1>2 DEF HearInv
      <3> QED BY <1>6, <2>6, <3>1, <3>2
    <2>8. \A a \in 1..Len(messages) : a # m => \A j \in 1..messages[a].subs : Hit(a, j)' => Heard(a, j)'
      BY <1>0, <1>2, <1>6, <2>6 DEF HearInv
    <2>9. HearInv'
      <3>1. /\ Len(messages') > 0 /\ fan_out'.message = Len(messages')
            /\ fan_out'.next \in 1..Len(subscriptions') + 1
        BY <1>1, <1>3, <1>4, <2>2, <2>5
      <3>2. \A k \in 1..Len(messages') : messages'[k].subs <= Len(subscriptions')
        BY <1>1, <1>2 DEF HearInv
      <3>3. \A k \in 1..Len(handled') : Hit(handled[k].message, handled[k].sub)'
        BY <1>1, <2>6 DEF Hit
      <3>4. \A j \in 1..(i + 1) - 1 : j \in 1..i BY <1>3
      <3>5. \A j \in 1..fan_out'.next - 1 : Hit(fan_out.message, j)' => Heard(fan_out.message, j)'
        <4>1. \A j \in 1..fan_out'.next - 1 : j \in 1..i BY <2>2, <3>4
        <4> QED BY <2>2, <2>7, <4>1 DEF Hit, Heard
      <3>6. \A a \in 1..Len(messages') : a # fan_out'.message =>
               \A j \in 1..messages'[a].subs : Hit(a, j)' => Heard(a, j)'
        BY <1>1, <2>2, <2>8
      <3>7. \A k \in 1..Len(handled') : handled'[k].message = fan_out'.message => handled'[k].sub < fan_out'.next
        BY <2>2, <2>6
      <3> QED BY <1>1, <2>6, <3>1, <3>2, <3>3, <3>5, <3>6, <3>7 DEF HearInv
    <2> QED BY <1>5, <2>6, <2>9 DEF MqttInv
  <1> QED BY <1>3, <1>7, <1>8

\* A connection begins without subscriptions at the broker and replays the list.
LEMMA ConnectionKeeps ==
    ASSUME MqttInv, MqttConnect \/ Reconnect
    PROVE  MqttInv'
  <1>1. /\ client' \in BOOLEAN /\ linked' = TRUE /\ replay' = 1 /\ at_broker' = {}
        /\ UNCHANGED <<subscriptions, calling, fan_out, messages, handled>>
    BY DEF MqttConnect, Reconnect, MqttInv, MqttTypes, BrokerInv
  <1>2. MqttTypes' BY <1>1 DEF MqttInv, MqttTypes
  <1>3. BrokerInv' BY <1>1 DEF MqttInv, BrokerInv, Idle
  <1> QED BY <1>1, <1>2, <1>3, HearKept DEF MqttInv

\* A connection that ends takes its subscriptions along; the list stays.
LEMMA LossKeeps ==
    ASSUME MqttInv, MqttDisconnect \/ LinkLost
    PROVE  MqttInv'
  <1>1. /\ client' \in BOOLEAN /\ linked' = FALSE /\ at_broker' = {}
        /\ UNCHANGED <<subscriptions, calling, replay, fan_out, messages, handled>>
    BY DEF MqttDisconnect, LinkLost, MqttInv, MqttTypes
  <1>2. MqttTypes' BY <1>1 DEF MqttInv, MqttTypes
  <1>3. BrokerInv' BY <1>1 DEF MqttInv, BrokerInv
  <1> QED BY <1>1, <1>2, <1>3, HearKept DEF MqttInv

\* subscribe() sends the last filter of the list.
LEMMA SendKeeps ==
    ASSUME MqttInv, MqttSubscribeSend
    PROVE  MqttInv'
  <1>1. /\ calling # NoFilter /\ calling' = NoFilter
        /\ at_broker' = IF linked THEN at_broker \cup {calling} ELSE at_broker
        /\ UNCHANGED <<client, subscriptions, linked, replay, fan_out, messages, handled>>
    BY DEF MqttSubscribeSend
  <1>2. MqttTypes' BY <1>1 DEF MqttInv, MqttTypes
  <1>3. Len(subscriptions) \in 1..Len(subscriptions) /\ calling = subscriptions[Len(subscriptions)]
    <2>1. Len(subscriptions) \in Nat BY DEF MqttInv, MqttTypes
    <2> QED BY <1>1, <2>1 DEF MqttInv, BrokerInv
  <1>4. BrokerInv' BY <1>1, <1>3 DEF MqttInv, BrokerInv
  <1> QED BY <1>1, <1>2, <1>4, HearKept DEF MqttInv

\* One round of _on_connect, or its end: what is behind the loop is at the broker.
LEMMA MqttReplayKeeps ==
    ASSUME MqttInv, Replay
    PROVE  MqttInv'
  <1>1. replay # Idle /\ UNCHANGED <<client, subscriptions, calling, linked, fan_out, messages, handled>>
    BY DEF Replay
  <1>2. replay \in Nat /\ Len(subscriptions) \in Nat BY DEF MqttInv, MqttTypes
  <1>3. CASE replay <= Len(subscriptions)
    <2>1. /\ at_broker' = IF linked THEN at_broker \cup {subscriptions[replay]} ELSE at_broker
          /\ replay' = replay + 1
      BY <1>3 DEF Replay
    <2>2. MqttTypes' BY <1>1, <1>2, <2>1 DEF MqttInv, MqttTypes
    <2>3. replay \in 1..Len(subscriptions) BY <1>1, <1>2, <1>3 DEF Idle
    <2>4. replay' # Idle /\ \A i \in 1..Len(subscriptions) : replay <= i => i = replay \/ replay' <= i
      BY <1>2, <2>1 DEF Idle
    <2>5. BrokerInv' BY <1>1, <2>1, <2>3, <2>4 DEF MqttInv, BrokerInv
    <2> QED BY <1>1, <2>2, <2>5, HearKept DEF MqttInv
  <1>4. CASE ~(replay <= Len(subscriptions))
    <2>1. at_broker' = at_broker /\ replay' = Idle BY <1>4 DEF Replay
    <2>2. MqttTypes' BY <1>1, <2>1 DEF MqttInv, MqttTypes, Idle
    <2>3. \A i \in 1..Len(subscriptions) : ~(replay <= i) BY <1>2, <1>4
    <2>4. BrokerInv' BY <1>1, <2>1, <2>3 DEF MqttInv, BrokerInv
    <2> QED BY <1>1, <2>2, <2>4, HearKept DEF MqttInv
  <1> QED BY <1>3, <1>4

\* Every step of the caller's thread and of paho's loop keeps the invariant.
LEMMA MqttStep ==
    ASSUME MqttInv, [MqttNext]_mqtt_vars
    PROVE  MqttInv'
  <1>1. CASE UNCHANGED mqtt_vars
    <2>1. MqttTypes' BY <1>1 DEF MqttInv, MqttTypes, mqtt_vars
    <2>2. BrokerInv' BY <1>1, BrokerKept DEF MqttInv, mqtt_vars
    <2>3. HearInv' BY <1>1, HearKept DEF MqttInv, mqtt_vars
    <2> QED BY <2>1, <2>2, <2>3 DEF MqttInv
  <1> QED
    BY <1>1, SubscribeKeeps, ArriveKeeps, FanOutKeeps, ConnectionKeeps, LossKeeps, SendKeeps,
       MqttReplayKeeps DEF MqttNext

\* An adapter that has not connected.
LEMMA MqttBegins ==
    ASSUME MqttInit
    PROVE  MqttInv
  <1>1. MqttTypes
    <2>1. /\ client = FALSE /\ linked = FALSE /\ subscriptions = <<>> /\ calling = NoFilter
          /\ replay = 0 /\ messages = <<>> /\ handled = <<>>
          /\ fan_out \in [message : Nat, next : Nat]
      BY DEF MqttInit, Idle, Nothing
    <2>2. \A S : <<>> \in Seq(S) OBVIOUS
    <2> QED BY <2>1, <2>2 DEF MqttTypes
  <1>2. BrokerInv BY DEF MqttInit, BrokerInv
  <1>3. HearInv BY DEF MqttInit, HearInv
  <1> QED BY <1>1, <1>2, <1>3 DEF MqttInv

\* The invariant says that nothing that was subscribed goes quiet.
LEMMA MqttMeans ==
    ASSUME MqttInv, HashIsLast(CallerFilters)
    PROVE  SubscriptionsAreHeard
  <1>1. /\ subscriptions \in Seq(Accepted) /\ messages \in Seq(MqttMessage)
        /\ handled \in Seq(HandlerCall)
    BY DEF MqttInv, MqttTypes
  <1>2. /\ DOMAIN subscriptions = 1..Len(subscriptions) /\ DOMAIN messages = 1..Len(messages)
        /\ DOMAIN handled = 1..Len(handled) /\ Len(subscriptions) \in Nat
    BY <1>1
  <1>3. BrokerHoldsTheList
    BY <1>2 DEF BrokerHoldsTheList, ToSet, MqttInv, BrokerInv
  <1>4. ASSUME NEW m \in 1..Len(messages), NEW i \in 1..Len(subscriptions)
        PROVE  Hit(m, i) <=> Selects(subscriptions[i], messages[m].topic)
    <2>1. subscriptions[i] \in Accepted BY <1>1, <1>4
    <2>2. messages[m].topic \in MessageTopics BY <1>1, <1>4, MessageIs
    <2>3. /\ subscriptions[i] \in Seq(STRING) /\ messages[m].topic \in Seq(STRING)
          /\ FilterLevels(subscriptions[i])
          /\ \A j \in 1..Len(subscriptions[i]) - 1 : subscriptions[i][j] # MULTI_LEVEL
      BY <2>1, <2>2, MqttAssumption DEF Accepted, HashIsLast
    <2> QED BY <2>3, MatchesIsSelects DEF Hit
  <1>5. ASSUME NEW m \in DOMAIN messages
        PROVE  LET mine == {i \in DOMAIN handled : handled[i].message = m}
                   Due(n) == {i \in 1..n : Selects(subscriptions[i], messages[m].topic)}
                   heard == {handled[i].sub : i \in mine}
               IN  /\ \A i, j \in mine : i < j => handled[i].sub < handled[j].sub
                   /\ heard \subseteq Due(Len(subscriptions))
                   /\ m # fan_out.message => Due(messages[m].subs) \subseteq heard
    <2> DEFINE mine == {i \in DOMAIN handled : handled[i].message = m}
               Due(n) == {i \in 1..n : Selects(subscriptions[i], messages[m].topic)}
               heard == {handled[i].sub : i \in mine}
    <2>1. m \in 1..Len(messages) /\ messages[m].subs \in Nat /\ messages[m].subs <= Len(subscriptions)
      <3>1. m \in 1..Len(messages) BY <1>2, <1>5
      <3>2. messages[m].subs \in Nat BY <1>1, <3>1, MessageIs
      <3> QED BY <3>1, <3>2 DEF MqttInv, HearInv
    <2>2. \A i, j \in mine : i < j => handled[i].sub < handled[j].sub
      BY <1>2 DEF MqttInv, HearInv
    <2>3. heard \subseteq Due(Len(subscriptions))
      <3>1. \A k \in mine : handled[k].sub \in 1..Len(subscriptions) /\ Hit(m, handled[k].sub)
        BY <1>2 DEF MqttInv, HearInv
      <3> QED BY <1>4, <2>1, <3>1
    <2>4. m # fan_out.message => Due(messages[m].subs) \subseteq heard
      <3> SUFFICES ASSUME m # fan_out.message, NEW i \in Due(messages[m].subs) PROVE i \in heard
        OBVIOUS
      <3>1. i \in 1..messages[m].subs /\ i \in 1..Len(subscriptions) BY <1>2, <2>1
      <3>2. Hit(m, i) BY <1>4, <2>1, <3>1
      <3>3. Heard(m, i) BY <2>1, <3>1, <3>2 DEF MqttInv, HearInv
      <3> QED BY <1>2, <3>3 DEF Heard
    <2> QED BY <2>2, <2>3, <2>4
  <1>6. EveryHandlerHears BY <1>5 DEF EveryHandlerHears
  <1> QED BY <1>3, <1>6 DEF SubscriptionsAreHeard

\* MqttNetwork: what was subscribed is at the broker once neither thread is under way,
\* and every message that arrives reaches the handlers subscribed by then, once and in
\* order, for any interleaving of subscribe(), losses, reconnections and messages.
THEOREM SubscriptionsHeard ==
    ASSUME HashIsLast(CallerFilters)
    PROVE  MqttInit /\ [][MqttNext]_mqtt_vars => []SubscriptionsAreHeard
  <1>1. MqttInv /\ [MqttNext]_mqtt_vars => MqttInv' BY MqttStep
  <1>2. MqttInv => SubscriptionsAreHeard BY MqttMeans
  <1> QED BY <1>1, <1>2, MqttBegins, PTL
-----------------------------------------------------------------------------
(* InMemoryBus: deliveries.                                                *)

BusFilters == {f \in Filters : FilterLevels(f)}
BusFrame   == [topic : Seq(STRING), session : Nat, subs : Nat, done : BOOLEAN]
Activation == [frame : Nat, next : Nat, called : BOOLEAN, leaving : Clients \cup {NoOne}]
Delivery   == [sub : Nat, frame : Nat]

DeliveryTypes ==
    /\ subs \in Seq(BusFilters)
    /\ deliveries \in Seq(Delivery)
    /\ stack \in Seq(Activation)
    /\ frames \in Seq(BusFrame)
    /\ identity \in [Clients -> Identities \cup {NoOne}]

FrameFits(f, i) == topic_matches(subs[i], frames[f].topic)
Served(f, i)    == \E k \in 1..Len(deliveries) : deliveries[k].frame = f /\ deliveries[k].sub = i

\* An activation is at its place of the loop over the list: it has served what fits
\* before that place and nothing else.
LoopIsAt(f, next) ==
    /\ \A k \in 1..Len(deliveries) : deliveries[k].frame = f => deliveries[k].sub < next
    /\ \A i \in 1..next - 1 : FrameFits(f, i) => Served(f, i)

\* Each activation delivers a frame of its own that is not done.
StackInv ==
    /\ \A a \in 1..Len(stack) : /\ stack[a].frame \in 1..Len(frames)
                                /\ ~frames[stack[a].frame].done
                                /\ stack[a].next \in 1..Len(subs) + 1
                                /\ LoopIsAt(stack[a].frame, stack[a].next)
    /\ \A a, b \in 1..Len(stack) : stack[a].frame = stack[b].frame => a = b

\* What was delivered fits and came in order, and a frame that is done has been
\* handed to the list as it stood at the end of its loop.
ServedInv ==
    /\ \A k \in 1..Len(deliveries) : /\ deliveries[k].frame \in 1..Len(frames)
                                     /\ deliveries[k].sub \in 1..Len(subs)
                                     /\ FrameFits(deliveries[k].frame, deliveries[k].sub)
    /\ \A k, l \in 1..Len(deliveries) :
          k < l /\ deliveries[k].frame = deliveries[l].frame => deliveries[k].sub < deliveries[l].sub
    /\ \A f \in 1..Len(frames) : /\ frames[f].subs \in 0..Len(subs)
                                 /\ frames[f].done => LoopIsAt(f, frames[f].subs + 1)

DeliveryInv == DeliveryTypes /\ StackInv /\ ServedInv

\* The parts of a frame and of an activation.
LEMMA FrameIs ==
    ASSUME DeliveryTypes
    PROVE  /\ \A f \in 1..Len(frames) : /\ frames[f] \in BusFrame /\ frames[f].topic \in Seq(STRING)
                                        /\ frames[f].subs \in Nat /\ frames[f].done \in BOOLEAN
           /\ \A a \in 1..Len(stack) : /\ stack[a] \in Activation /\ stack[a].next \in Nat
                                       /\ stack[a].frame \in Nat
                                       /\ stack[a].leaving \in Clients \cup {NoOne}
           /\ \A k \in 1..Len(deliveries) : deliveries[k].sub \in Nat /\ deliveries[k].frame \in Nat
           /\ Len(frames) \in Nat /\ Len(stack) \in Nat /\ Len(deliveries) \in Nat /\ Len(subs) \in Nat
           /\ DOMAIN frames = 1..Len(frames) /\ DOMAIN stack = 1..Len(stack)
           /\ DOMAIN deliveries = 1..Len(deliveries) /\ DOMAIN subs = 1..Len(subs)
  <1>1. /\ subs \in Seq(BusFilters) /\ deliveries \in Seq(Delivery) /\ stack \in Seq(Activation)
        /\ frames \in Seq(BusFrame)
    BY DEF DeliveryTypes
  <1>2. \A f \in 1..Len(frames) : frames[f] \in BusFrame BY <1>1
  <1>3. \A a \in 1..Len(stack) : stack[a] \in Activation BY <1>1
  <1>4. \A k \in 1..Len(deliveries) : deliveries[k] \in Delivery BY <1>1
  <1>5. \A x \in BusFrame : x.topic \in Seq(STRING) /\ x.subs \in Nat /\ x.done \in BOOLEAN
    BY DEF BusFrame
  <1>6. \A x \in Activation : x.next \in Nat /\ x.frame \in Nat /\ x.leaving \in Clients \cup {NoOne}
    BY DEF Activation
  <1>7. \A x \in Delivery : x.sub \in Nat /\ x.frame \in Nat BY DEF Delivery
  <1>8. /\ Len(frames) \in Nat /\ Len(stack) \in Nat /\ Len(deliveries) \in Nat /\ Len(subs) \in Nat
        /\ DOMAIN frames = 1..Len(frames) /\ DOMAIN stack = 1..Len(stack)
        /\ DOMAIN deliveries = 1..Len(deliveries) /\ DOMAIN subs = 1..Len(subs)
    BY <1>1
  <1> QED BY <1>2, <1>3, <1>4, <1>5, <1>6, <1>7, <1>8

\* Calls that leave the list, the frames and the deliveries alone.
LEMMA DeliveryKept ==
    ASSUME DeliveryInv, identity' \in [Clients -> Identities \cup {NoOne}],
           UNCHANGED <<subs, deliveries, stack, frames>>
    PROVE  DeliveryInv'
  BY DEF DeliveryInv, DeliveryTypes, StackInv, ServedInv, LoopIsAt, FrameFits, Served

\* _subscribe adds a filter behind the place of every loop.
LEMMA BusSubscribeKeeps ==
    ASSUME DeliveryInv, NEW c \in Clients, NEW filter \in Filters, BusSubscribe(c, filter)
    PROVE  DeliveryInv'
  <1>1. /\ filter \in BusFilters /\ subs' = Append(subs, filter)
        /\ UNCHANGED <<identity, deliveries, stack, frames>>
    BY DEF BusSubscribe, BusFilters
  <1>2. subs \in Seq(BusFilters) /\ DeliveryTypes BY DEF DeliveryInv, DeliveryTypes
  <1>3. /\ subs' \in Seq(BusFilters) /\ Len(subs) \in Nat /\ Len(subs') = Len(subs) + 1
        /\ \A i \in 1..Len(subs) : subs'[i] = subs[i]
    BY <1>1, <1>2, Appended
  <1>4. DeliveryTypes' BY <1>1, <1>2, <1>3 DEF DeliveryTypes
  <1>5. \A f : \A i \in 1..Len(subs) : (FrameFits(f, i)' <=> FrameFits(f, i)) /\ (Served(f, i)' <=> Served(f, i))
    BY <1>1, <1>3 DEF FrameFits, Served
  <1>6. \A f : \A next \in 1..Len(subs) + 1 : LoopIsAt(f, next) => LoopIsAt(f, next)'
    <2>1. \A next \in 1..Len(subs) + 1 : \A i \in 1..next - 1 : i \in 1..Len(subs) BY <1>3
    <2> QED BY <1>1, <1>5, <2>1 DEF LoopIsAt
  <1>7. \A n \in 1..Len(subs) + 1 : n \in 1..Len(subs') + 1 BY <1>3
  <1>8. StackInv'
    <2>1. \A a \in 1..Len(stack) : LoopIsAt(stack[a].frame, stack[a].next)'
      BY <1>1, <1>6 DEF DeliveryInv, StackInv
    <2> QED BY <1>1, <1>7, <2>1 DEF DeliveryInv, StackInv
  <1>9. ServedInv'
    <2>1. \A f \in 1..Len(frames) : frames[f].subs + 1 \in 1..Len(subs) + 1 /\ frames[f].subs \in 0..Len(subs')
      BY <1>3 DEF DeliveryInv, ServedInv
    <2>2. \A f \in 1..Len(frames) : frames[f].done => LoopIsAt(f, frames[f].subs + 1)'
      BY <1>1, <1>6, <2>1 DEF DeliveryInv, ServedInv
    <2>3. \A k \in 1..Len(deliveries) : /\ deliveries[k].sub \in 1..Len(subs')
                                        /\ FrameFits(deliveries[k].frame, deliveries[k].sub)'
      <3>1. \A k \in 1..Len(deliveries) : deliveries[k].sub \in 1..Len(subs) /\ FrameFits(deliveries[k].frame, deliveries[k].sub)
        BY DEF DeliveryInv, ServedInv
      <3>2. 1..Len(subs) \subseteq 1..Len(subs') BY <1>3
      <3> QED BY <1>1, <1>5, <3>1, <3>2
    <2> QED BY <1>1, <2>1, <2>2, <2>3 DEF DeliveryInv, ServedInv
  <1> QED BY <1>4, <1>8, <1>9 DEF DeliveryInv

\* A frame that is pushed has reached nobody, and its loop is at the start of the list.
LEMMA StartKeeps ==
    ASSUME DeliveryInv, NEW topic \in Seq(STRING), NEW session \in Nat,
           NEW leaving \in Clients \cup {NoOne}, StartDelivery(topic, session, leaving),
           UNCHANGED <<subs, deliveries>>, identity' \in [Clients -> Identities \cup {NoOne}]
    PROVE  DeliveryInv'
  <1> DEFINE fr == [topic |-> topic, session |-> session, subs |-> Len(subs), done |-> FALSE]
             ac == [frame |-> Len(frames) + 1, next |-> 1, called |-> FALSE, leaving |-> leaving]
  <1>0. PICK n, t : n = Len(frames) + 1 /\ t = Len(stack) + 1 OBVIOUS
  <1>1. DeliveryTypes /\ frames \in Seq(BusFrame) /\ stack \in Seq(Activation)
    BY DEF DeliveryInv, DeliveryTypes
  <1>2. Len(frames) \in Nat /\ Len(stack) \in Nat /\ Len(subs) \in Nat /\ Len(deliveries) \in Nat
    BY <1>1, FrameIs
  <1>3. fr \in BusFrame BY <1>2 DEF BusFrame
  <1>4. ac \in Activation BY <1>2 DEF Activation
  <1>5. frames' = Append(frames, fr) BY DEF StartDelivery
  <1>6. /\ frames' \in Seq(BusFrame) /\ Len(frames') = n
        /\ \A f \in 1..Len(frames) : frames'[f] = frames[f]
        /\ frames'[n] = fr
    BY <1>0, <1>1, <1>3, <1>5, Appended
  <1>7. stack' = Append(stack, ac) BY <1>0, <1>6 DEF StartDelivery
  <1>8. /\ stack' \in Seq(Activation) /\ Len(stack') = t
        /\ \A a \in 1..Len(stack) : stack'[a] = stack[a]
        /\ stack'[t] = ac
    BY <1>0, <1>1, <1>4, <1>7, Appended
  <1>9. fr.subs = Len(subs) /\ fr.done = FALSE /\ ac.frame = n /\ ac.next = 1 BY <1>0
  <1>10. DeliveryTypes' BY <1>1, <1>6, <1>8 DEF DeliveryTypes
  <1>11. /\ \A f \in 1..n : f = n \/ f \in 1..Len(frames)
         /\ \A a \in 1..t : a = t \/ a \in 1..Len(stack)
         /\ n \in 1..n /\ n \notin 1..Len(frames) /\ 1..Len(frames) \subseteq 1..n
         /\ t \notin 1..Len(stack) /\ 1 \in 1..Len(subs) + 1 /\ Len(subs) \in 0..Len(subs)
    BY <1>0, <1>2
  <1> HIDE DEF fr, ac
  <1>12. \A k \in 1..Len(deliveries) : deliveries[k].frame \in 1..Len(frames)
    BY DEF DeliveryInv, ServedInv
  <1>13. \A f \in 1..Len(frames) : \A i : (FrameFits(f, i)' <=> FrameFits(f, i)) /\ (Served(f, i)' <=> Served(f, i))
    BY <1>6 DEF FrameFits, Served
  <1>14. \A f \in 1..Len(frames) : \A next : LoopIsAt(f, next) => LoopIsAt(f, next)'
    BY <1>13 DEF LoopIsAt
  <1>15. LoopIsAt(n, 1)'
    <2>1. \A k \in 1..Len(deliveries') : deliveries'[k].frame # n BY <1>11, <1>12
    <2>2. \A i \in 1..1 - 1 : FALSE OBVIOUS
    <2> QED BY <2>1, <2>2 DEF LoopIsAt
  <1>16. StackInv'
    <2>1. \A a \in 1..Len(stack) : /\ stack[a].frame \in 1..Len(frames)
                                   /\ ~frames[stack[a].frame].done
                                   /\ stack[a].next \in 1..Len(subs) + 1
                                   /\ LoopIsAt(stack[a].frame, stack[a].next)
      BY DEF DeliveryInv, StackInv
    <2>2. \A a \in 1..Len(stack) : LoopIsAt(stack[a].frame, stack[a].next)'
      BY <1>8, <1>14, <2>1
    <2>3. \A a \in 1..Len(stack') : /\ stack'[a].frame \in 1..Len(frames')
                                    /\ ~frames'[stack'[a].frame].done
                                    /\ stack'[a].next \in 1..Len(subs') + 1
      BY <1>6, <1>8, <1>9, <1>11, <2>1, ZenonT(60)
    <2>4. LoopIsAt(stack[t].frame, stack[t].next)' BY <1>8, <1>9, <1>15
    <2>5. \A a \in 1..Len(stack') : LoopIsAt(stack[a].frame, stack[a].next)'
      BY <1>8, <1>11, <2>2, <2>4
    <2>6. \A a, b \in 1..Len(stack') : stack'[a].frame = stack'[b].frame => a = b
      <3>1. \A a, b \in 1..Len(stack) : stack[a].frame = stack[b].frame => a = b
        BY DEF DeliveryInv, StackInv
      <3>2. \A a \in 1..Len(stack) : stack'[a].frame = stack[a].frame /\ stack'[a].frame # n
        BY <1>8, <1>11, <2>1
      <3> QED BY <1>8, <1>9, <1>11, <3>1, <3>2
    <2> QED BY <2>3, <2>5, <2>6 DEF StackInv
  <1>17. ServedInv'
    <2>1. \A f \in 1..Len(frames') : /\ frames'[f].subs \in 0..Len(subs')
                                     /\ frames'[f].done => LoopIsAt(f, frames[f].subs + 1)'
      BY <1>6, <1>9, <1>11, <1>14 DEF DeliveryInv, ServedInv
    <2>2. \A k \in 1..Len(deliveries) : FrameFits(deliveries[k].frame, deliveries[k].sub)'
      BY <1>12, <1>13 DEF DeliveryInv, ServedInv
    <2>3. \A k \in 1..Len(deliveries) : deliveries[k].frame \in 1..Len(frames')
      BY <1>6, <1>11, <1>12
    <2> QED BY <2>1, <2>2, <2>3 DEF DeliveryInv, ServedInv
  <1> QED BY <1>10, <1>16, <1>17 DEF DeliveryInv

\* _deliver hands the frame of the top activation to the next filter that fits.
LEMMA DeliverKeeps ==
    ASSUME DeliveryInv, Deliver
    PROVE  DeliveryInv'
  <1>1. DeliveryTypes /\ StackInv /\ ServedInv BY DEF DeliveryInv
  <1>2. PICK t, f, next : t = Len(stack) /\ f = stack[t].frame /\ next = stack[t].next OBVIOUS
  <1>3. t \in 1..Len(stack) /\ stack # <<>>
    <2>1. stack # <<>> BY DEF Deliver
    <2>2. stack \in Seq(Activation) BY <1>1 DEF DeliveryTypes
    <2> QED BY <1>2, <2>1, <2>2
  <1>4. /\ f \in 1..Len(frames) /\ ~frames[f].done /\ next \in 1..Len(subs) + 1 /\ LoopIsAt(f, next)
    BY <1>1, <1>2, <1>3 DEF StackInv
  <1> DEFINE rest == {j \in next..Len(subs) : topic_matches(subs[j], frames[f].topic)}
  <1>5. PICK i : /\ i = Min(rest) /\ rest # {}
                 /\ deliveries' = Append(deliveries, [sub |-> i, frame |-> f])
                 /\ stack' = [stack EXCEPT ![t] = [stack[t] EXCEPT !.next = i + 1, !.called = TRUE]]
    BY <1>2 DEF Deliver, Top, Last, WithTop, SubsOf
  <1>6. UNCHANGED <<subs, identity, frames>> BY DEF Deliver
  <1>7. /\ Len(frames) \in Nat /\ Len(stack) \in Nat /\ Len(subs) \in Nat /\ Len(deliveries) \in Nat
        /\ stack[t] \in Activation /\ next \in Nat /\ f \in Nat
        /\ \A k \in 1..Len(deliveries) : deliveries[k].sub \in Nat /\ deliveries[k].frame \in Nat
    BY <1>1, <1>2, <1>3, FrameIs
  <1>8. rest \subseteq Nat BY <1>7
  <1>9. i \in rest /\ \A j \in rest : i <= j BY <1>5, <1>8, MinIs
  <1>10. i \in next..Len(subs) /\ FrameFits(f, i) BY <1>9 DEF FrameFits
  <1>11. \A j \in next..i - 1 : ~FrameFits(f, j)
    <2>1. \A j \in next..i - 1 : j \in next..Len(subs) /\ ~(i <= j) BY <1>7, <1>10
    <2> QED BY <1>9, <2>1 DEF FrameFits
  <1> HIDE DEF rest
  <1>12. i \in Nat /\ i \in 1..Len(subs) /\ i + 1 \in 1..Len(subs) + 1 /\ next <= i
    BY <1>4, <1>7, <1>10
  <1> DEFINE d == [sub |-> i, frame |-> f]
             up == [stack[t] EXCEPT !.next = i + 1, !.called = TRUE]
  <1>13. d \in Delivery /\ d.sub = i /\ d.frame = f BY <1>7, <1>12 DEF Delivery
  <1>14. up \in Activation /\ up.next = i + 1 /\ up.frame = f
    <2>1. i + 1 \in Nat /\ TRUE \in BOOLEAN BY <1>12
    <2> QED BY <1>2, <1>7, <2>1 DEF Activation
  <1> HIDE DEF d, up
  <1>15. /\ deliveries' \in Seq(Delivery) /\ Len(deliveries') = Len(deliveries) + 1
         /\ \A k \in 1..Len(deliveries) : deliveries'[k] = deliveries[k]
         /\ deliveries'[Len(deliveries) + 1] = d
    <2>1. deliveries \in Seq(Delivery) BY <1>1 DEF DeliveryTypes
    <2> QED BY <1>5, <1>13, <2>1, Appended DEF d
  <1>16. /\ stack' \in Seq(Activation) /\ Len(stack') = Len(stack)
         /\ stack'[t] = up /\ \A a \in 1..Len(stack) : a # t => stack'[a] = stack[a]
    <2>1. stack \in Seq(Activation) BY <1>1 DEF DeliveryTypes
    <2>2. stack' = [stack EXCEPT ![t] = up] BY <1>5 DEF up
    <2> QED BY <1>3, <1>14, <2>1, <2>2
  <1>17. DeliveryTypes' BY <1>1, <1>6, <1>15, <1>16 DEF DeliveryTypes
  <1>18. \A g, j : (FrameFits(g, j)' <=> FrameFits(g, j)) /\ (Served(g, j) => Served(g, j)')
    <2>1. 1..Len(deliveries) \subseteq 1..Len(deliveries') BY <1>7, <1>15
    <2> QED BY <1>6, <1>15, <2>1 DEF FrameFits, Served
  <1>19. /\ \A k \in 1..Len(deliveries') : k \in 1..Len(deliveries) \/ k = Len(deliveries) + 1
         /\ Len(deliveries) + 1 \in 1..Len(deliveries')
    BY <1>7, <1>15
  <1>20. ASSUME NEW g, g # f, NEW n, LoopIsAt(g, n) PROVE LoopIsAt(g, n)'
    BY <1>13, <1>15, <1>18, <1>19, <1>20 DEF LoopIsAt
  <1>21. LoopIsAt(f, i + 1)'
    <2>1. \A k \in 1..Len(deliveries') : deliveries'[k].frame = f => deliveries'[k].sub < i + 1
      <3>1. \A k \in 1..Len(deliveries) : deliveries[k].frame = f => deliveries[k].sub < i + 1
        <4>1. \A k \in 1..Len(deliveries) : deliveries[k].frame = f => deliveries[k].sub < next
          BY <1>4 DEF LoopIsAt
        <4> QED BY <1>7, <1>12, <4>1
      <3> QED BY <1>12, <1>13, <1>15, <1>19, <3>1
    <2>2. Served(f, i)' BY <1>13, <1>15, <1>19 DEF Served
    <2>3. \A j \in 1..(i + 1) - 1 : j = i \/ j \in next..i - 1 \/ j \in 1..next - 1 BY <1>7, <1>12
    <2>4. \A j \in 1..next - 1 : FrameFits(f, j) => Served(f, j) BY <1>4 DEF LoopIsAt
    <2>5. \A j \in 1..(i + 1) - 1 : FrameFits(f, j)' => Served(f, j)'
      BY <1>11, <1>18, <2>2, <2>3, <2>4
    <2> QED BY <2>1, <2>5 DEF LoopIsAt
  <1>22. StackInv'
    <2>1. \A a \in 1..Len(stack) : stack'[a].frame = stack[a].frame BY <1>2, <1>14, <1>16
    <2>2. \A a \in 1..Len(stack) : a # t => stack[a].frame # f BY <1>1, <1>2, <1>3 DEF StackInv
    <2>3. \A a \in 1..Len(stack) : stack'[a].next \in 1..Len(subs) + 1
      BY <1>1, <1>12, <1>14, <1>16 DEF StackInv
    <2>4. \A a \in 1..Len(stack) : a # t => LoopIsAt(stack[a].frame, stack[a].next)'
      BY <1>1, <1>16, <1>20, <2>2 DEF StackInv
    <2>5. LoopIsAt(stack[t].frame, stack[t].next)' BY <1>14, <1>16, <1>21
    <2>6. \A a \in 1..Len(stack) : LoopIsAt(stack[a].frame, stack[a].next)' BY <2>4, <2>5
    <2> QED BY <1>1, <1>6, <1>16, <2>1, <2>3, <2>6 DEF StackInv
  <1>23. ServedInv'
    <2>1. \A k \in 1..Len(deliveries') : /\ deliveries'[k].frame \in 1..Len(frames)
                                         /\ deliveries'[k].sub \in 1..Len(subs)
                                         /\ FrameFits(deliveries[k].frame, deliveries[k].sub)'
      <3>1. \A k \in 1..Len(deliveries') : /\ deliveries'[k].frame \in 1..Len(frames)
                                           /\ deliveries'[k].sub \in 1..Len(subs)
                                           /\ FrameFits(deliveries'[k].frame, deliveries'[k].sub)
        BY <1>1, <1>4, <1>10, <1>12, <1>13, <1>15, <1>19 DEF ServedInv
      <3> QED BY <1>18, <3>1
    <2>2. \A k, l \in 1..Len(deliveries') :
             k < l /\ deliveries'[k].frame = deliveries'[l].frame => deliveries'[k].sub < deliveries'[l].sub
      <3>1. \A k \in 1..Len(deliveries) : deliveries[k].frame = f => deliveries[k].sub < i
        <4>1. \A k \in 1..Len(deliveries) : deliveries[k].frame = f => deliveries[k].sub < next
          BY <1>4 DEF LoopIsAt
        <4> QED BY <1>7, <1>12, <4>1
      <3>2. \A k, l \in 1..Len(deliveries) :
               k < l /\ deliveries[k].frame = deliveries[l].frame => deliveries[k].sub < deliveries[l].sub
        BY <1>1 DEF ServedInv
      <3>3. \A k \in 1..Len(deliveries') : ~(Len(deliveries) + 1 < k) BY <1>7, <1>15
      <3> QED BY <1>13, <1>15, <1>19, <3>1, <3>2, <3>3
    <2>3. \A g \in 1..Len(frames) : /\ frames[g].subs \in 0..Len(subs)
                                    /\ frames[g].done => LoopIsAt(g, frames[g].subs + 1)'
      BY <1>1, <1>4, <1>6, <1>20 DEF ServedInv
    <2> QED BY <1>6, <2>1, <2>2, <2>3 DEF ServedInv
  <1> QED BY <1>17, <1>22, <1>23 DEF DeliveryInv

\* At the end of its loop a frame has been handed to the whole list, and the client
\* whose will it was forgets its identity.
LEMMA BusFinishKeeps ==
    ASSUME DeliveryInv, Finish
    PROVE  DeliveryInv'
  <1>1. DeliveryTypes /\ StackInv /\ ServedInv BY DEF DeliveryInv
  <1>2. PICK t, f, next : t = Len(stack) /\ f = stack[t].frame /\ next = stack[t].next OBVIOUS
  <1>3. stack \in Seq(Activation) /\ frames \in Seq(BusFrame) BY <1>1 DEF DeliveryTypes
  <1>4. t \in 1..Len(stack) /\ t \in Nat /\ t - 1 \in 0..Len(stack)
    <2>1. stack # <<>> BY DEF Finish
    <2> QED BY <1>2, <1>3, <2>1
  <1>5. /\ f \in 1..Len(frames) /\ ~frames[f].done /\ next \in 1..Len(subs) + 1 /\ LoopIsAt(f, next)
    BY <1>1, <1>2, <1>4 DEF StackInv
  <1>6. /\ Len(frames) \in Nat /\ Len(subs) \in Nat /\ frames[f] \in BusFrame /\ next \in Nat
        /\ DOMAIN frames = 1..Len(frames)
        /\ \A k \in 1..Len(deliveries) : deliveries[k].sub \in Nat
        /\ \A g \in 1..Len(frames) : frames[g].subs \in Nat
    BY <1>1, <1>2, <1>4, <1>5, FrameIs
  <1>7. /\ \A j \in next..Len(subs) : ~FrameFits(f, j)
        /\ stack' = SubSeq(stack, 1, t - 1)
        /\ frames' = [frames EXCEPT ![f].done = TRUE, ![f].subs = Len(subs)]
        /\ UNCHANGED <<subs, deliveries>>
    BY <1>2 DEF Finish, Top, Last, Front, SubsOf, FrameFits
  <1>8. /\ stack' \in Seq(Activation) /\ Len(stack') = t - 1
        /\ \A a \in 1..t - 1 : stack'[a] = stack[a]
    BY <1>3, <1>4, <1>7, PrefixIs
  <1> DEFINE up == [frames[f] EXCEPT !.done = TRUE, !.subs = Len(subs)]
  <1>9. up \in BusFrame /\ up.done = TRUE /\ up.subs = Len(subs) /\ up.topic = frames[f].topic
    BY <1>6 DEF BusFrame
  <1>10. frames' = [frames EXCEPT ![f] = up]
    BY <1>5, <1>6, <1>7
  <1> HIDE DEF up
  <1>11. /\ frames' \in Seq(BusFrame) /\ Len(frames') = Len(frames)
         /\ frames'[f] = up /\ \A g \in 1..Len(frames) : g # f => frames'[g] = frames[g]
    BY <1>3, <1>5, <1>9, <1>10
  <1>12. identity' \in [Clients -> Identities \cup {NoOne}]
    BY <1>1 DEF Finish, DeliveryTypes
  <1>13. DeliveryTypes' BY <1>1, <1>7, <1>8, <1>11, <1>12 DEF DeliveryTypes
  <1>14. \A g \in 1..Len(frames) : frames'[g].topic = frames[g].topic BY <1>9, <1>11
  <1>15. \A g \in 1..Len(frames) : \A j : (FrameFits(g, j)' <=> FrameFits(g, j)) /\ (Served(g, j)' <=> Served(g, j))
    BY <1>7, <1>14 DEF FrameFits, Served
  <1>16. \A g \in 1..Len(frames) : \A n : LoopIsAt(g, n) => LoopIsAt(g, n)'
    BY <1>7, <1>15 DEF LoopIsAt
  <1>17. LoopIsAt(f, Len(subs) + 1)
    <2>1. \A k \in 1..Len(deliveries) : deliveries[k].frame = f => deliveries[k].sub < Len(subs) + 1
      <3>1. \A k \in 1..Len(deliveries) : deliveries[k].sub \in 1..Len(subs) BY <1>1 DEF ServedInv
      <3> QED BY <1>6, <3>1
    <2>2. \A j \in 1..(Len(subs) + 1) - 1 : j \in next..Len(subs) \/ j \in 1..next - 1 BY <1>6
    <2>3. \A j \in 1..next - 1 : FrameFits(f, j) => Served(f, j) BY <1>5 DEF LoopIsAt
    <2> QED BY <1>7, <2>1, <2>2, <2>3 DEF LoopIsAt
  <1>18. \A a \in 1..t - 1 : a \in 1..Len(stack) /\ a # t BY <1>2, <1>4
  <1>19. StackInv'
    <2>1. \A a \in 1..t - 1 : stack[a].frame # f BY <1>1, <1>2, <1>4, <1>18 DEF StackInv
    <2>2. \A a \in 1..t - 1 : /\ stack'[a].frame \in 1..Len(frames')
                              /\ ~frames'[stack'[a].frame].done
                              /\ stack'[a].next \in 1..Len(subs') + 1
      BY <1>1, <1>7, <1>8, <1>11, <1>18, <2>1 DEF StackInv
    <2>3. \A a \in 1..t - 1 : LoopIsAt(stack[a].frame, stack[a].next)'
      BY <1>1, <1>8, <1>16, <1>18 DEF StackInv
    <2>4. \A a, b \in 1..t - 1 : stack'[a].frame = stack'[b].frame => a = b
      BY <1>1, <1>8, <1>18 DEF StackInv
    <2> QED BY <1>8, <2>2, <2>3, <2>4 DEF StackInv
  <1>20. ServedInv'
    <2>1. \A g \in 1..Len(frames) : frames'[g].subs \in 0..Len(subs)
      <3>1. Len(subs) \in 0..Len(subs) BY <1>6
      <3> QED BY <1>1, <1>9, <1>11, <3>1 DEF ServedInv
    <2>2. \A g \in 1..Len(frames) : frames'[g].done => LoopIsAt(g, frames[g].subs + 1)'
      <3>1. LoopIsAt(f, frames[f].subs + 1)' BY <1>5, <1>9, <1>11, <1>16, <1>17
      <3>2. ASSUME NEW g \in 1..Len(frames), g # f, frames'[g].done
            PROVE  LoopIsAt(g, frames[g].subs + 1)'
        <4>1. frames'[g] = frames[g] BY <1>11, <3>2
        <4> QED BY <1>1, <1>16, <3>2, <4>1 DEF ServedInv
      <3> QED BY <3>1, <3>2
    <2>3. \A k \in 1..Len(deliveries) : FrameFits(deliveries[k].frame, deliveries[k].sub)'
      BY <1>1, <1>7, <1>15 DEF ServedInv
    <2> QED BY <1>1, <1>7, <1>11, <2>1, <2>2, <2>3 DEF ServedInv
  <1> QED BY <1>13, <1>19, <1>20 DEF DeliveryInv
-----------------------------------------------------------------------------
(* InMemoryBus: identities, sessions and wills.                            *)

BusSession == [identity : Identities, will : BOOLEAN, ended : {"open", "clean", "lost"}]

WillTypes ==
    /\ joined \in Seq(Identities)
    /\ sessions \in Seq(BusSession)
    /\ DOMAIN wills \subseteq Identities

Distinct(s)    == \A i, j \in 1..Len(s) : s[i] = s[j] => i = j
IsOpen(n)      == sessions[n].ended = "open"
IsMourned(n)   == sessions[n].ended = "lost" /\ sessions[n].will
OpenFor(n, id) == n \in 1..Len(sessions) /\ IsOpen(n) /\ sessions[n].identity = id

\* An identity is joined once, while it has an open session, and has one at most.
JoinedInv ==
    /\ Distinct(joined)
    /\ \A id \in Identities : Contains(joined, id) <=> \E n \in 1..Len(sessions) : OpenFor(n, id)
    /\ \A m, n \in 1..Len(sessions) :
          IsOpen(m) /\ IsOpen(n) /\ sessions[m].identity = sessions[n].identity => m = n

\* The wills are those of the open sessions that have one.
HeldWillInv ==
    /\ \A id \in DOMAIN wills : OpenFor(wills[id], id) /\ sessions[wills[id]].will
    /\ \A n \in 1..Len(sessions) :
          IsOpen(n) /\ sessions[n].will =>
             sessions[n].identity \in DOMAIN wills /\ wills[sessions[n].identity] = n

\* The wills delivered are those of the sessions lost, one for each.
ToldInv ==
    /\ \A f \in 1..Len(frames) : frames[f].session # Plain =>
          frames[f].session \in 1..Len(sessions) /\ IsMourned(frames[f].session)
    /\ \A f, g \in 1..Len(frames) :
          frames[f].session # Plain /\ frames[f].session = frames[g].session => f = g
    /\ \A n \in 1..Len(sessions) : IsMourned(n) => \E f \in 1..Len(frames) : frames[f].session = n

WillInv == WillTypes /\ JoinedInv /\ HeldWillInv /\ ToldInv

\* The parts of a session.
LEMMA SessionIs ==
    ASSUME WillTypes
    PROVE  /\ Len(sessions) \in Nat /\ DOMAIN sessions = 1..Len(sessions)
           /\ \A n \in 1..Len(sessions) : /\ sessions[n] \in BusSession
                                          /\ sessions[n].identity \in Identities
                                          /\ sessions[n].will \in BOOLEAN
                                          /\ sessions[n].ended \in {"open", "clean", "lost"}
  <1>1. sessions \in Seq(BusSession) BY DEF WillTypes
  <1>2. \A n \in 1..Len(sessions) : sessions[n] \in BusSession BY <1>1
  <1>3. \A x \in BusSession : /\ x.identity \in Identities /\ x.will \in BOOLEAN
                              /\ x.ended \in {"open", "clean", "lost"}
    BY DEF BusSession
  <1> QED BY <1>1, <1>2, <1>3

\* Two sequences put one behind the other.
LEMMA Joins ==
    ASSUME NEW S, NEW p \in Seq(S), NEW q \in Seq(S)
    PROVE  /\ p \o q \in Seq(S) /\ Len(p \o q) = Len(p) + Len(q)
           /\ \A j \in 1..Len(p) + Len(q) : (p \o q)[j] = IF j <= Len(p) THEN p[j] ELSE q[j - Len(p)]
  OBVIOUS

\* A list without repetitions, less one of its members.
LEMMA Removed ==
    ASSUME NEW S, NEW s \in Seq(S), NEW i \in 1..Len(s), Distinct(s)
    PROVE  /\ RemoveAt(s, i) \in Seq(S) /\ Distinct(RemoveAt(s, i))
           /\ \A x : Contains(RemoveAt(s, i), x) <=> Contains(s, x) /\ x # s[i]
  <1> DEFINE r == RemoveAt(s, i)
  <1>1. r = SubSeq(s, 1, i - 1) \o SubSeq(s, i + 1, Len(s)) BY DEF RemoveAt
  <1>2. /\ SubSeq(s, 1, i - 1) \in Seq(S) /\ Len(SubSeq(s, 1, i - 1)) = i - 1
        /\ \A j \in 1..i - 1 : SubSeq(s, 1, i - 1)[j] = s[j]
    BY PrefixIs
  <1>3. /\ SubSeq(s, i + 1, Len(s)) \in Seq(S) /\ Len(SubSeq(s, i + 1, Len(s))) = Len(s) - i
        /\ \A j \in 1..Len(s) - i : SubSeq(s, i + 1, Len(s))[j] = s[i + j]
    OBVIOUS
  <1> DEFINE p == SubSeq(s, 1, i - 1)
             q == SubSeq(s, i + 1, Len(s))
  <1>4. /\ r \in Seq(S) /\ Len(r) = Len(s) - 1
        /\ \A j \in 1..Len(s) - 1 : r[j] = IF j <= i - 1 THEN p[j] ELSE q[j - (i - 1)]
    <2>0. p \in Seq(S) /\ q \in Seq(S) /\ r = p \o q BY <1>1, <1>2, <1>3
    <2> HIDE DEF r, p, q
    <2>1. /\ r \in Seq(S) /\ Len(r) = Len(p) + Len(q)
          /\ \A j \in 1..Len(p) + Len(q) : r[j] = IF j <= Len(p) THEN p[j] ELSE q[j - Len(p)]
      BY <2>0, Joins
    <2>2. Len(p) = i - 1 /\ Len(q) = Len(s) - i BY <1>2, <1>3 DEF p, q
    <2>3. Len(p) + Len(q) = Len(s) - 1 BY <2>2
    <2> QED BY <2>1, <2>2, <2>3
  <1>5. \A j \in 1..Len(s) - 1 : r[j] = IF j < i THEN s[j] ELSE s[j + 1]
    <2> SUFFICES ASSUME NEW j \in 1..Len(s) - 1 PROVE r[j] = IF j < i THEN s[j] ELSE s[j + 1]
      OBVIOUS
    <2> HIDE DEF r, p, q
    <2>1. CASE j < i
      <3>1. j \in 1..i - 1 /\ j <= i - 1 BY <2>1
      <3>2. p[j] = s[j] BY <1>2, <3>1 DEF p
      <3> QED BY <1>4, <2>1, <3>1, <3>2
    <2>2. CASE ~(j < i)
      <3>1. j - (i - 1) \in 1..Len(s) - i /\ ~(j <= i - 1) /\ i + (j - (i - 1)) = j + 1 BY <2>2
      <3>2. q[j - (i - 1)] = s[j + 1] BY <1>3, <3>1 DEF q
      <3> QED BY <1>4, <2>2, <3>1, <3>2
    <2> QED BY <2>1, <2>2
  <1> HIDE DEF r
  <1>6. Distinct(r)
    <2> SUFFICES ASSUME NEW j \in 1..Len(r), NEW k \in 1..Len(r), r[j] = r[k] PROVE j = k
      BY DEF Distinct
    <2> QED BY <1>4, <1>5 DEF Distinct
  <1>7. ASSUME NEW x, Contains(r, x) PROVE Contains(s, x) /\ x # s[i]
    <2>1. PICK j \in 1..Len(s) - 1 : r[j] = x BY <1>4, <1>7 DEF Contains
    <2> QED BY <1>5, <2>1 DEF Contains, Distinct
  <1>8. ASSUME NEW x, Contains(s, x), x # s[i] PROVE Contains(r, x)
    <2>1. PICK j \in 1..Len(s) : s[j] = x BY <1>8 DEF Contains
    <2>2. CASE j < i
      <3>1. j \in 1..Len(r) /\ r[j] = x BY <1>4, <1>5, <2>1, <2>2
      <3> QED BY <3>1 DEF Contains
    <2>3. CASE j > i
      <3>1. j - 1 \in 1..Len(r) /\ r[j - 1] = x BY <1>4, <1>5, <2>1, <2>3
      <3> QED BY <3>1 DEF Contains
    <2> QED BY <1>8, <2>1, <2>2, <2>3
  <1> QED BY <1>4, <1>6, <1>7, <1>8 DEF r

\* The end of a session leaves its identity and its will as they were.
LEMMA EndedIs ==
    ASSUME WillTypes, NEW id, NEW how \in {"clean", "lost"}, sessions' = EndSession(id, how)
    PROVE  /\ sessions' \in Seq(BusSession) /\ Len(sessions') = Len(sessions)
           /\ \A n \in 1..Len(sessions) :
                 /\ sessions'[n].identity = sessions[n].identity
                 /\ sessions'[n].will = sessions[n].will
                 /\ sessions'[n].ended = IF OpenFor(n, id) THEN how ELSE sessions[n].ended
  <1>1. /\ Len(sessions) \in Nat /\ DOMAIN sessions = 1..Len(sessions)
        /\ \A n \in 1..Len(sessions) : sessions[n] \in BusSession
    BY SessionIs
  <1> DEFINE After(n) == IF OpenFor(n, id) THEN [sessions[n] EXCEPT !.ended = how] ELSE sessions[n]
  <1>2. sessions' = [n \in 1..Len(sessions) |-> After(n)]
    BY <1>1 DEF EndSession, OpenFor, IsOpen
  <1>3. \A n \in 1..Len(sessions) : /\ After(n) \in BusSession
                                    /\ After(n).identity = sessions[n].identity
                                    /\ After(n).will = sessions[n].will
                                    /\ After(n).ended = IF OpenFor(n, id) THEN how ELSE sessions[n].ended
    BY <1>1 DEF BusSession
  <1> HIDE DEF After
  <1>4. \A n \in 1..Len(sessions) : sessions'[n] = After(n) BY <1>2
  <1>5. sessions' \in Seq(BusSession) /\ Len(sessions') = Len(sessions) BY <1>1, <1>2, <1>3
  <1> QED BY <1>3, <1>4, <1>5

\* _leave: an identity that leaves has no open session any more and no will.
LEMMA LeaveKeeps ==
    ASSUME WillTypes, JoinedInv, HeldWillInv, NEW id \in Identities, NEW how \in {"clean", "lost"},
           Contains(joined, id), Leave(id, how)
    PROVE  /\ WillTypes' /\ JoinedInv' /\ HeldWillInv'
           /\ Len(sessions') = Len(sessions)
           /\ \A n \in 1..Len(sessions) :
                 /\ sessions'[n].will = sessions[n].will
                 /\ sessions'[n].ended = IF OpenFor(n, id) THEN how ELSE sessions[n].ended
  <1>1. /\ joined' = RemoveAt(joined, CHOOSE i \in DOMAIN joined : joined[i] = id)
        /\ sessions' = EndSession(id, how)
        /\ wills' = [i \in DOMAIN wills \ {id} |-> wills[i]]
    BY DEF Leave
  <1>2. joined \in Seq(Identities) /\ DOMAIN wills \subseteq Identities BY DEF WillTypes
  <1>3. PICK i \in 1..Len(joined) : joined[i] = id /\ joined' = RemoveAt(joined, i)
    <2>1. DOMAIN joined = 1..Len(joined) BY <1>2
    <2> QED BY <1>1, <2>1 DEF Contains
  <1>4. /\ joined' \in Seq(Identities) /\ Distinct(joined')
        /\ \A x : Contains(joined', x) <=> Contains(joined, x) /\ x # id
    BY <1>2, <1>3, Removed DEF JoinedInv
  <1>5. /\ sessions' \in Seq(BusSession) /\ Len(sessions') = Len(sessions)
        /\ \A n \in 1..Len(sessions) :
              /\ sessions'[n].identity = sessions[n].identity
              /\ sessions'[n].will = sessions[n].will
              /\ sessions'[n].ended = IF OpenFor(n, id) THEN how ELSE sessions[n].ended
    BY <1>1, EndedIs
  <1>6. DOMAIN wills' = DOMAIN wills \ {id} /\ \A x \in DOMAIN wills \ {id} : wills'[x] = wills[x]
    BY <1>1
  <1>7. WillTypes' BY <1>2, <1>4, <1>5, <1>6 DEF WillTypes
  <1>8. \A n \in 1..Len(sessions) : IsOpen(n)' <=> IsOpen(n) /\ sessions[n].identity # id
    BY <1>5 DEF IsOpen, OpenFor
  <1>9. \A n, x : OpenFor(n, x)' <=> OpenFor(n, x) /\ x # id
    BY <1>5, <1>8 DEF OpenFor
  <1>10. JoinedInv'
    <2>1. \A x \in Identities : Contains(joined', x) <=> \E n \in 1..Len(sessions') : OpenFor(n, x)'
      <3>1. \A x \in Identities : Contains(joined, x) <=> \E n \in 1..Len(sessions) : OpenFor(n, x)
        BY DEF JoinedInv
      <3> QED BY <1>4, <1>5, <1>9, <3>1
    <2>2. \A m, n \in 1..Len(sessions') :
             IsOpen(m)' /\ IsOpen(n)' /\ sessions'[m].identity = sessions'[n].identity => m = n
      BY <1>5, <1>8 DEF JoinedInv
    <2> QED BY <1>4, <2>1, <2>2 DEF JoinedInv
  <1>11. HeldWillInv'
    <2>1. \A x \in DOMAIN wills' : OpenFor(wills[x], x) /\ sessions[wills[x]].will
      BY <1>6 DEF HeldWillInv
    <2>2. \A x \in DOMAIN wills' : OpenFor(wills[x], x)' /\ sessions'[wills'[x]].will
      <3>1. ASSUME NEW x \in DOMAIN wills' PROVE OpenFor(wills[x], x)' /\ sessions'[wills'[x]].will
        <4>1. PICK w : w = wills[x] OBVIOUS
        <4>2. wills'[x] = w /\ x # id BY <1>6, <4>1
        <4>3. OpenFor(w, x) /\ sessions[w].will BY <2>1, <4>1
        <4>4. OpenFor(w, x)' BY <1>9, <4>2, <4>3
        <4>5. sessions'[w].will BY <1>5, <4>3 DEF OpenFor
        <4> QED BY <4>2, <4>4, <4>5
      <3> QED BY <3>1
    <2>3. \A n \in 1..Len(sessions') :
             IsOpen(n)' /\ sessions'[n].will =>
                sessions'[n].identity \in DOMAIN wills' /\ wills'[sessions'[n].identity] = n
      BY <1>5, <1>6, <1>8 DEF HeldWillInv
    <2> QED BY <2>2, <2>3 DEF HeldWillInv
  <1> QED BY <1>5, <1>7, <1>10, <1>11

\* Frames that keep the session of their will, and sessions that are as lost as before.
LEMMA ToldKept ==
    ASSUME ToldInv, Len(sessions') = Len(sessions), Len(frames') = Len(frames),
           \A n \in 1..Len(sessions) : IsMourned(n)' <=> IsMourned(n),
           \A f \in 1..Len(frames) : frames'[f].session = frames[f].session
    PROVE  ToldInv'
  <1>1. \A f \in 1..Len(frames') : frames'[f].session # Plain =>
           frames'[f].session \in 1..Len(sessions') /\ IsMourned(frames[f].session)'
    <2>1. ASSUME NEW f \in 1..Len(frames), frames[f].session # Plain
          PROVE  frames'[f].session \in 1..Len(sessions') /\ IsMourned(frames[f].session)'
      <3>1. PICK n : n = frames[f].session OBVIOUS
      <3>2. n \in 1..Len(sessions) /\ IsMourned(n) BY <2>1, <3>1 DEF ToldInv
      <3>3. frames'[f].session = n /\ IsMourned(n)' BY <3>1, <3>2
      <3> QED BY <3>2, <3>3
    <2> QED BY <2>1
  <1>2. \A f, g \in 1..Len(frames') :
           frames'[f].session # Plain /\ frames'[f].session = frames'[g].session => f = g
    BY DEF ToldInv
  <1>3. \A n \in 1..Len(sessions') : IsMourned(n)' => \E f \in 1..Len(frames') : frames'[f].session = n
    BY DEF ToldInv
  <1> QED BY <1>1, <1>2, <1>3 DEF ToldInv

\* Steps that leave the identities and the wills alone and change of a frame only how
\* far its delivery has come.
LEMMA WillKept ==
    ASSUME WillInv, UNCHANGED <<joined, wills, sessions>>, Len(frames') = Len(frames),
           \A f \in 1..Len(frames) : frames'[f].session = frames[f].session
    PROVE  WillInv'
  <1>1. WillTypes' /\ JoinedInv' /\ HeldWillInv'
    BY DEF WillInv, WillTypes, JoinedInv, HeldWillInv, OpenFor, IsOpen
  <1>2. ToldInv' BY ToldKept DEF WillInv, IsMourned
  <1> QED BY <1>1, <1>2 DEF WillInv

\* connect: a session begins for an identity that has none, with its will or without.
LEMMA ConnectKeepsWills ==
    ASSUME WillInv, NEW c \in Clients, NEW id \in Identities, NEW will \in BOOLEAN,
           BusConnect(c, id, will)
    PROVE  WillInv'
  <1>1. WillTypes /\ JoinedInv /\ HeldWillInv /\ ToldInv BY DEF WillInv
  <1> DEFINE se == [identity |-> id, will |-> will, ended |-> "open"]
  <1>2. /\ ~Contains(joined, id) /\ joined' = Append(joined, id) /\ sessions' = Append(sessions, se)
        /\ UNCHANGED frames
    BY DEF BusConnect
  <1>3. joined \in Seq(Identities) /\ sessions \in Seq(BusSession) /\ DOMAIN wills \subseteq Identities
    BY <1>1 DEF WillTypes
  <1>4. /\ Len(sessions) \in Nat
        /\ \A n \in 1..Len(sessions) : sessions[n].identity \in Identities
    BY <1>1, SessionIs
  <1>5. PICK k : k = Len(sessions) + 1 OBVIOUS
  <1>6. se \in BusSession /\ se.identity = id /\ se.will = will /\ se.ended = "open"
    BY DEF BusSession
  <1>7. /\ sessions' \in Seq(BusSession) /\ Len(sessions') = k /\ sessions'[k] = se
        /\ \A n \in 1..Len(sessions) : sessions'[n] = sessions[n]
    BY <1>2, <1>3, <1>5, <1>6, Appended
  <1> HIDE DEF se
  <1>8. /\ \A n \in 1..k : n = k \/ n \in 1..Len(sessions)
        /\ k \in 1..k /\ k \notin 1..Len(sessions) /\ 1..Len(sessions) \subseteq 1..k
    BY <1>4, <1>5
  <1>9. /\ joined' \in Seq(Identities) /\ Len(joined) \in Nat /\ Len(joined') = Len(joined) + 1
        /\ \A i \in 1..Len(joined) : joined'[i] = joined[i]
        /\ joined'[Len(joined) + 1] = id
    BY <1>2, <1>3, Appended
  <1>10. /\ \A i \in 1..Len(joined') : i = Len(joined) + 1 \/ i \in 1..Len(joined)
         /\ Len(joined) + 1 \in 1..Len(joined') /\ 1..Len(joined) \subseteq 1..Len(joined')
    BY <1>9
  <1>11. Distinct(joined') /\ \A x : Contains(joined', x) <=> Contains(joined, x) \/ x = id
    <2>1. \A i, j \in 1..Len(joined) : joined[i] = joined[j] => i = j BY <1>1 DEF JoinedInv, Distinct
    <2>2. \A i \in 1..Len(joined) : joined[i] # id BY <1>2 DEF Contains
    <2>3. Distinct(joined') BY <1>9, <1>10, <2>1, <2>2 DEF Distinct
    <2>4. \A x : Contains(joined', x) => Contains(joined, x) \/ x = id BY <1>9, <1>10 DEF Contains
    <2>5. \A x : Contains(joined, x) \/ x = id => Contains(joined', x) BY <1>9, <1>10 DEF Contains
    <2> QED BY <2>3, <2>4, <2>5
  <1>12. \A n \in 1..Len(sessions) : ~OpenFor(n, id) BY <1>1, <1>2 DEF JoinedInv
  <1>13. id \notin DOMAIN wills
    BY <1>1, <1>12 DEF HeldWillInv, OpenFor
  <1>14. /\ DOMAIN wills' = IF will THEN DOMAIN wills \cup {id} ELSE DOMAIN wills
         /\ \A x \in DOMAIN wills : wills'[x] = wills[x]
         /\ will => wills'[id] = k
    <2>1. wills' = IF will THEN [x \in DOMAIN wills \cup {id} |-> IF x = id THEN k ELSE wills[x]]
                           ELSE wills
      BY <1>7 DEF BusConnect
    <2>2. CASE will BY <1>13, <2>1, <2>2
    <2>3. CASE ~will BY <2>1, <2>3
    <2> QED BY <2>2, <2>3
  <1>15. WillTypes' BY <1>3, <1>7, <1>9, <1>14 DEF WillTypes
  <1>16. /\ \A n \in 1..Len(sessions) : (IsOpen(n)' <=> IsOpen(n)) /\ (IsMourned(n)' <=> IsMourned(n))
         /\ IsOpen(k)' /\ ~IsMourned(k)'
    BY <1>6, <1>7 DEF IsOpen, IsMourned
  <1>17. \A n, x : OpenFor(n, x)' <=> OpenFor(n, x) \/ (n = k /\ x = id)
    BY <1>6, <1>7, <1>8, <1>16 DEF OpenFor
  <1>18. JoinedInv'
    <2>1. \A x \in Identities : Contains(joined', x) <=> \E n \in 1..Len(sessions') : OpenFor(n, x)'
      <3>1. \A x \in Identities : Contains(joined, x) <=> \E n \in 1..Len(sessions) : OpenFor(n, x)
        BY <1>1 DEF JoinedInv
      <3> QED BY <1>7, <1>8, <1>11, <1>17, <3>1 DEF OpenFor
    <2>2. \A m, n \in 1..Len(sessions) :
             IsOpen(m)' /\ IsOpen(n)' /\ sessions'[m].identity = sessions'[n].identity => m = n
      BY <1>1, <1>7, <1>16 DEF JoinedInv
    <2>3. \A n \in 1..Len(sessions) : IsOpen(n)' => sessions'[n].identity # sessions'[k].identity
      BY <1>6, <1>7, <1>12, <1>16 DEF OpenFor
    <2>4. \A m, n \in 1..Len(sessions') :
             IsOpen(m)' /\ IsOpen(n)' /\ sessions'[m].identity = sessions'[n].identity => m = n
      BY <1>7, <1>8, <2>2, <2>3
    <2> QED BY <1>11, <2>1, <2>4 DEF JoinedInv
  <1>19. HeldWillInv'
    <2>1. ASSUME NEW x \in DOMAIN wills PROVE OpenFor(wills[x], x)' /\ sessions'[wills'[x]].will
      <3>1. PICK w : w = wills[x] OBVIOUS
      <3>2. OpenFor(w, x) /\ sessions[w].will /\ wills'[x] = w BY <1>1, <1>14, <3>1 DEF HeldWillInv
      <3>3. OpenFor(w, x)' /\ sessions'[w].will BY <1>7, <1>17, <3>2 DEF OpenFor
      <3> QED BY <3>2, <3>3
    <2>2. ASSUME will PROVE OpenFor(wills[id], id)' /\ sessions'[wills'[id]].will
      <3>1. wills'[id] = k BY <1>14, <2>2
      <3>2. OpenFor(k, id)' /\ sessions'[k].will BY <1>6, <1>7, <1>17, <2>2
      <3> QED BY <3>1, <3>2
    <2>3. \A x \in DOMAIN wills' : OpenFor(wills[x], x)' /\ sessions'[wills'[x]].will
      BY <1>14, <2>1, <2>2
    <2>4. \A n \in 1..Len(sessions) :
             IsOpen(n)' /\ sessions'[n].will =>
                sessions'[n].identity \in DOMAIN wills' /\ wills'[sessions'[n].identity] = n
      BY <1>1, <1>7, <1>14, <1>16 DEF HeldWillInv
    <2>5. sessions'[k].will =>
             sessions'[k].identity \in DOMAIN wills' /\ wills'[sessions'[k].identity] = k
      BY <1>6, <1>7, <1>14
    <2>6. \A n \in 1..Len(sessions') :
             IsOpen(n)' /\ sessions'[n].will =>
                sessions'[n].identity \in DOMAIN wills' /\ wills'[sessions'[n].identity] = n
      BY <1>7, <1>8, <2>4, <2>5
    <2> QED BY <2>3, <2>6 DEF HeldWillInv
  <1>20. ToldInv'
    <2>1. \A f \in 1..Len(frames) : frames[f].session # Plain =>
             frames[f].session \in 1..Len(sessions') /\ IsMourned(frames[f].session)'
      <3>1. ASSUME NEW f \in 1..Len(frames), frames[f].session # Plain
            PROVE  frames[f].session \in 1..Len(sessions') /\ IsMourned(frames[f].session)'
        <4>1. PICK n : n = frames[f].session OBVIOUS
        <4>2. n \in 1..Len(sessions) /\ IsMourned(n) BY <1>1, <3>1, <4>1 DEF ToldInv
        <4>3. frames'[f].session = n /\ IsMourned(n)' /\ n \in 1..Len(sessions')
          BY <1>2, <1>7, <1>8, <1>16, <4>1, <4>2
        <4> QED BY <1>2, <4>1, <4>3
      <3> QED BY <3>1
    <2>2. \A n \in 1..Len(sessions') : IsMourned(n)' => \E f \in 1..Len(frames) : frames[f].session = n
      BY <1>1, <1>7, <1>8, <1>16 DEF ToldInv
    <2> QED BY <1>1, <1>2, <2>1, <2>2 DEF ToldInv
  <1> QED BY <1>15, <1>18, <1>19, <1>20 DEF WillInv

\* disconnect: a session that closes is not mourned.
LEMMA DisconnectKeepsWills ==
    ASSUME WillInv, DeliveryTypes, NEW c \in Clients, BusDisconnect(c)
    PROVE  WillInv'
  <1>1. WillTypes /\ JoinedInv /\ HeldWillInv /\ ToldInv BY DEF WillInv
  <1>2. PICK id : id = identity[c] OBVIOUS
  <1>3. id \in Identities BY <1>2 DEF BusDisconnect, DeliveryTypes
  <1>4. UNCHANGED frames BY DEF BusDisconnect
  <1>5. CASE Contains(joined, id)
    <2>1. Leave(id, "clean") BY <1>2, <1>5 DEF BusDisconnect
    <2>2. /\ WillTypes' /\ JoinedInv' /\ HeldWillInv'
          /\ Len(sessions') = Len(sessions)
          /\ \A n \in 1..Len(sessions) :
                /\ sessions'[n].will = sessions[n].will
                /\ sessions'[n].ended = IF OpenFor(n, id) THEN "clean" ELSE sessions[n].ended
      BY <1>1, <1>3, <1>5, <2>1, LeaveKeeps
    <2>3. \A n \in 1..Len(sessions) : IsMourned(n)' <=> IsMourned(n)
      BY <2>2 DEF IsMourned, OpenFor, IsOpen
    <2>4. ToldInv' BY <1>1, <1>4, <2>2, <2>3, ToldKept
    <2> QED BY <2>2, <2>4 DEF WillInv
  <1>6. CASE ~Contains(joined, id)
    <2>1. UNCHANGED <<joined, wills, sessions>> BY <1>2, <1>6 DEF BusDisconnect
    <2> QED BY <1>4, <2>1, WillKept
  <1> QED BY <1>5, <1>6

\* A frame is pushed: the frames before it keep their sessions.
LEMMA PushedIs ==
    ASSUME DeliveryTypes, NEW topic \in Seq(STRING), NEW session \in Nat, NEW leaving,
           StartDelivery(topic, session, leaving)
    PROVE  /\ Len(frames) \in Nat /\ Len(frames') = Len(frames) + 1
           /\ \A f \in 1..Len(frames) : frames'[f].session = frames[f].session
           /\ frames'[Len(frames) + 1].session = session
           /\ \A f \in 1..Len(frames') : f \in 1..Len(frames) \/ f = Len(frames) + 1
           /\ Len(frames) + 1 \in 1..Len(frames') /\ 1..Len(frames) \subseteq 1..Len(frames')
  <1> DEFINE fr == [topic |-> topic, session |-> session, subs |-> Len(subs), done |-> FALSE]
  <1>1. frames \in Seq(BusFrame) /\ Len(subs) \in Nat BY FrameIs DEF DeliveryTypes
  <1>2. fr \in BusFrame /\ fr.session = session BY <1>1 DEF BusFrame
  <1>3. frames' = Append(frames, fr) BY DEF StartDelivery
  <1> HIDE DEF fr
  <1>4. /\ Len(frames) \in Nat /\ Len(frames') = Len(frames) + 1
        /\ \A f \in 1..Len(frames) : frames'[f] = frames[f]
        /\ frames'[Len(frames) + 1] = fr
    BY <1>1, <1>2, <1>3, Appended
  <1> QED BY <1>2, <1>4

\* publish: the frame is no will.
LEMMA PublishKeepsWills ==
    ASSUME WillInv, DeliveryTypes, NEW c \in Clients, NEW topic \in Seq(STRING), BusPublish(c, topic)
    PROVE  WillInv'
  <1>1. WillTypes /\ JoinedInv /\ HeldWillInv /\ ToldInv BY DEF WillInv
  <1>2. UNCHANGED <<joined, wills, sessions>> /\ StartDelivery(topic, Plain, NoOne) BY DEF BusPublish
  <1>3. Plain \in Nat BY DEF Plain
  <1>4. /\ Len(frames) \in Nat /\ Len(frames') = Len(frames) + 1
        /\ \A f \in 1..Len(frames) : frames'[f].session = frames[f].session
        /\ frames'[Len(frames) + 1].session = Plain
        /\ \A f \in 1..Len(frames') : f \in 1..Len(frames) \/ f = Len(frames) + 1
        /\ 1..Len(frames) \subseteq 1..Len(frames')
    BY <1>2, <1>3, PushedIs
  <1>5. WillTypes' /\ JoinedInv' /\ HeldWillInv'
    BY <1>1, <1>2 DEF WillTypes, JoinedInv, HeldWillInv, OpenFor, IsOpen
  <1>6. \A n : IsMourned(n)' <=> IsMourned(n) BY <1>2 DEF IsMourned
  <1>7. ToldInv'
    <2>1. \A f \in 1..Len(frames') : frames'[f].session # Plain =>
             f \in 1..Len(frames) /\ frames'[f].session = frames[f].session
      BY <1>4
    <2>2. \A f \in 1..Len(frames') : frames'[f].session # Plain =>
             frames'[f].session \in 1..Len(sessions') /\ IsMourned(frames[f].session)'
      <3>1. ASSUME NEW f \in 1..Len(frames'), frames'[f].session # Plain
            PROVE  frames'[f].session \in 1..Len(sessions') /\ IsMourned(frames[f].session)'
        <4>1. PICK n : n = frames[f].session OBVIOUS
        <4>2. f \in 1..Len(frames) /\ frames'[f].session = n BY <2>1, <3>1, <4>1
        <4>3. n \in 1..Len(sessions) /\ IsMourned(n) BY <1>1, <3>1, <4>1, <4>2 DEF ToldInv
        <4>4. IsMourned(n)' BY <1>6, <4>3
        <4> QED BY <1>2, <4>2, <4>3, <4>4
      <3> QED BY <3>1
    <2>3. \A f, g \in 1..Len(frames') :
             frames'[f].session # Plain /\ frames'[f].session = frames'[g].session => f = g
      BY <1>1, <2>1 DEF ToldInv
    <2>4. \A n \in 1..Len(sessions') : IsMourned(n)' => \E f \in 1..Len(frames') : frames'[f].session = n
      <3>1. ASSUME NEW n \in 1..Len(sessions), IsMourned(n)
            PROVE  \E f \in 1..Len(frames') : frames'[f].session = n
        <4>1. PICK f \in 1..Len(frames) : frames[f].session = n BY <1>1, <3>1 DEF ToldInv
        <4> QED BY <1>4, <4>1
      <3> QED BY <1>2, <1>6, <3>1
    <2> QED BY <2>2, <2>3, <2>4 DEF ToldInv
  <1> QED BY <1>5, <1>7 DEF WillInv

\* drop: the will of the session that is lost is delivered, if it has one.
LEMMA DropKeepsWills ==
    ASSUME WillInv, DeliveryTypes, NEW c \in Clients, BusDrop(c)
    PROVE  WillInv'
  <1>1. WillTypes /\ JoinedInv /\ HeldWillInv /\ ToldInv BY DEF WillInv
  <1>2. PICK id : id = identity[c] OBVIOUS
  <1>3. id \in Identities BY <1>2 DEF BusDrop, DeliveryTypes
  <1>4. CASE ~Contains(joined, id)
    <2>1. UNCHANGED <<joined, wills, sessions, frames>> BY <1>2, <1>4 DEF BusDrop
    <2> QED BY <2>1, WillKept
  <1>5. CASE Contains(joined, id)
    <2>1. Leave(id, "lost") BY <1>2, <1>5 DEF BusDrop
    <2>2. /\ WillTypes' /\ JoinedInv' /\ HeldWillInv'
          /\ Len(sessions') = Len(sessions)
          /\ \A n \in 1..Len(sessions) :
                /\ sessions'[n].will = sessions[n].will
                /\ sessions'[n].ended = IF OpenFor(n, id) THEN "lost" ELSE sessions[n].ended
      BY <1>1, <1>3, <1>5, <2>1, LeaveKeeps
    <2>3. \A n \in 1..Len(sessions) :
             IsMourned(n)' <=> IsMourned(n) \/ (OpenFor(n, id) /\ sessions[n].will)
      BY <2>2 DEF IsMourned, OpenFor, IsOpen
    <2>4. CASE id \notin DOMAIN wills
      <3>1. UNCHANGED frames BY <1>2, <1>5, <2>4 DEF BusDrop
      <3>2. \A n \in 1..Len(sessions) : ~(OpenFor(n, id) /\ sessions[n].will)
        BY <1>1, <2>4 DEF HeldWillInv, OpenFor
      <3>3. ToldInv' BY <1>1, <2>2, <2>3, <3>1, <3>2, ToldKept
      <3> QED BY <2>2, <3>3 DEF WillInv
    <2>5. CASE id \in DOMAIN wills
      <3>1. PICK w : w = wills[id] OBVIOUS
      <3>2. OpenFor(w, id) /\ sessions[w].will BY <1>1, <2>5, <3>1 DEF HeldWillInv
      <3>3. w \in 1..Len(sessions) /\ w \in Nat /\ w # Plain
        <4>1. Len(sessions) \in Nat BY <1>1, SessionIs
        <4> QED BY <3>2, <4>1 DEF OpenFor, Plain
      <3>4. \A n \in 1..Len(sessions) : OpenFor(n, id) => n = w
        BY <1>1, <3>2, <3>3 DEF JoinedInv, OpenFor
      <3>5. \A n \in 1..Len(sessions) : IsMourned(n)' <=> IsMourned(n) \/ n = w
        BY <2>3, <3>2, <3>4
      <3>6. ~IsMourned(w) BY <3>2 DEF IsMourned, OpenFor, IsOpen
      <3>7. \A f \in 1..Len(frames) : frames[f].session # w
        BY <1>1, <3>3, <3>6 DEF ToldInv
      <3>8. WillTopic \in Seq(STRING) BY BusAssumption
      <3>9. StartDelivery(WillTopic, w, c) BY <1>2, <1>5, <2>5, <3>1 DEF BusDrop
      <3>10. /\ Len(frames) \in Nat /\ Len(frames') = Len(frames) + 1
             /\ \A f \in 1..Len(frames) : frames'[f].session = frames[f].session
             /\ frames'[Len(frames) + 1].session = w
             /\ \A f \in 1..Len(frames') : f \in 1..Len(frames) \/ f = Len(frames) + 1
             /\ Len(frames) + 1 \in 1..Len(frames') /\ 1..Len(frames) \subseteq 1..Len(frames')
        BY <3>3, <3>8, <3>9, PushedIs
      <3>11. ToldInv'
        <4>1. \A f \in 1..Len(frames') : frames'[f].session # Plain =>
                 frames'[f].session \in 1..Len(sessions') /\ IsMourned(frames[f].session)'
          <5>1. ASSUME NEW f \in 1..Len(frames'), frames'[f].session # Plain
                PROVE  frames'[f].session \in 1..Len(sessions') /\ IsMourned(frames[f].session)'
            <6>1. PICK n : n = frames'[f].session OBVIOUS
            <6>2. n \in 1..Len(sessions) /\ (IsMourned(n) \/ n = w)
              BY <1>1, <3>3, <3>10, <5>1, <6>1 DEF ToldInv
            <6>3. IsMourned(n)' BY <3>5, <6>2
            <6> QED BY <2>2, <6>1, <6>2, <6>3
          <5> QED BY <5>1
        <4>2. \A f, g \in 1..Len(frames) :
                 frames[f].session # Plain /\ frames[f].session = frames[g].session => f = g
          BY <1>1 DEF ToldInv
        <4>3. \A f, g \in 1..Len(frames') :
                 frames'[f].session # Plain /\ frames'[f].session = frames'[g].session => f = g
          BY <3>7, <3>10, <4>2
        <4>4. ASSUME NEW n \in 1..Len(sessions), IsMourned(n) \/ n = w
              PROVE  \E f \in 1..Len(frames') : frames'[f].session = n
          <5>1. CASE n = w BY <3>10, <5>1
          <5>2. CASE IsMourned(n)
            <6>1. PICK f \in 1..Len(frames) : frames[f].session = n BY <1>1, <5>2 DEF ToldInv
            <6> QED BY <3>10, <6>1
          <5> QED BY <4>4, <5>1, <5>2
        <4>5. \A n \in 1..Len(sessions') : IsMourned(n)' => \E f \in 1..Len(frames') : frames'[f].session = n
          BY <2>2, <3>5, <4>4
        <4> QED BY <4>1, <4>3, <4>5 DEF ToldInv
      <3> QED BY <2>2, <3>11 DEF WillInv
    <2> QED BY <2>4, <2>5
  <1> QED BY <1>4, <1>5

BusInv == DeliveryInv /\ WillInv

\* Each call and each step of a delivery keeps what is known of the bus.
LEMMA BusStep ==
    ASSUME BusInv, [BusNext]_bus_vars
    PROVE  BusInv'
  <1>1. DeliveryInv /\ DeliveryTypes /\ WillInv BY DEF BusInv, DeliveryInv
  <1>2. identity \in [Clients -> Identities \cup {NoOne}] BY <1>1 DEF DeliveryTypes
  <1>3. ASSUME NEW c \in Clients, NEW id \in Identities, NEW will \in BOOLEAN, BusConnect(c, id, will)
        PROVE  BusInv'
    <2>1. UNCHANGED <<subs, deliveries, stack, frames>> /\ identity' = [identity EXCEPT ![c] = id]
      BY <1>3 DEF BusConnect
    <2>2. identity' \in [Clients -> Identities \cup {NoOne}] BY <1>2, <2>1
    <2>3. DeliveryInv' BY <1>1, <2>1, <2>2, DeliveryKept
    <2> QED BY <1>1, <1>3, <2>3, ConnectKeepsWills DEF BusInv
  <1>4. ASSUME NEW c \in Clients, NEW topic \in Topics, BusPublish(c, topic)
        PROVE  BusInv'
    <2>1. topic \in Seq(STRING) BY BusAssumption
    <2>2. /\ StartDelivery(topic, Plain, NoOne) /\ UNCHANGED <<subs, deliveries>> /\ identity' = identity
          /\ Plain \in Nat /\ NoOne \in Clients \cup {NoOne}
      BY <1>4 DEF BusPublish, Plain
    <2>3. DeliveryInv' BY <1>1, <1>2, <2>1, <2>2, StartKeeps
    <2> QED BY <1>1, <1>4, <2>1, <2>3, PublishKeepsWills DEF BusInv
  <1>5. ASSUME NEW c \in Clients, NEW filter \in Filters, BusSubscribe(c, filter)
        PROVE  BusInv'
    <2>1. UNCHANGED <<joined, wills, sessions, frames>> BY <1>5 DEF BusSubscribe
    <2>2. WillInv' BY <1>1, <2>1, WillKept
    <2> QED BY <1>1, <1>5, <2>2, BusSubscribeKeeps DEF BusInv
  <1>6. ASSUME NEW c \in Clients, BusDisconnect(c)
        PROVE  BusInv'
    <2>1. UNCHANGED <<subs, deliveries, stack, frames>> /\ identity' = [identity EXCEPT ![c] = NoOne]
      BY <1>6 DEF BusDisconnect
    <2>2. identity' \in [Clients -> Identities \cup {NoOne}] BY <1>2, <2>1
    <2>3. DeliveryInv' BY <1>1, <2>1, <2>2, DeliveryKept
    <2> QED BY <1>1, <1>6, <2>3, DisconnectKeepsWills DEF BusInv
  <1>7. ASSUME NEW c \in Clients, BusDrop(c)
        PROVE  BusInv'
    <2>1. PICK id : id = identity[c] OBVIOUS
    <2>2. id \in Identities /\ UNCHANGED <<subs, deliveries>> BY <1>2, <1>7, <2>1 DEF BusDrop
    <2>3. CASE Contains(joined, id) /\ id \in DOMAIN wills
      <3>1. StartDelivery(WillTopic, wills[id], c) /\ identity' = identity
        BY <1>7, <2>1, <2>3 DEF BusDrop
      <3>2. WillTopic \in Seq(STRING) BY BusAssumption
      <3>3. wills[id] \in Nat
        <4>1. wills[id] \in 1..Len(sessions) BY <1>1, <2>3 DEF WillInv, HeldWillInv, OpenFor
        <4> QED BY <4>1
      <3>4. DeliveryInv' BY <1>1, <1>2, <2>2, <3>1, <3>2, <3>3, StartKeeps
      <3> QED BY <1>1, <1>7, <3>4, DropKeepsWills DEF BusInv
    <2>4. CASE ~(Contains(joined, id) /\ id \in DOMAIN wills)
      <3>1. UNCHANGED <<stack, frames>> /\ identity' = [identity EXCEPT ![c] = NoOne]
        BY <1>7, <2>1, <2>4 DEF BusDrop
      <3>2. identity' \in [Clients -> Identities \cup {NoOne}] BY <1>2, <3>1
      <3>3. DeliveryInv' BY <1>1, <2>2, <3>1, <3>2, DeliveryKept
      <3> QED BY <1>1, <1>7, <3>3, DropKeepsWills DEF BusInv
    <2> QED BY <2>3, <2>4
  <1>8. CASE Deliver
    <2>1. UNCHANGED <<joined, wills, sessions, frames>> BY <1>8 DEF Deliver
    <2>2. WillInv' BY <1>1, <2>1, WillKept
    <2> QED BY <1>1, <1>8, <2>2, DeliverKeeps DEF BusInv
  <1>9. CASE Finish
    <2>1. PICK f : f = Top.frame OBVIOUS
    <2>2. /\ UNCHANGED <<joined, wills, sessions>>
          /\ frames' = [frames EXCEPT ![f].done = TRUE, ![f].subs = Len(subs)]
      BY <1>9, <2>1 DEF Finish
    <2>3. frames \in Seq(BusFrame) BY <1>1 DEF DeliveryTypes
    <2>4. Len(frames') = Len(frames) BY <2>2, <2>3
    <2>5. \A g \in 1..Len(frames) : frames'[g].session = frames[g].session
      <3> SUFFICES ASSUME NEW g \in 1..Len(frames) PROVE frames'[g].session = frames[g].session
        OBVIOUS
      <3>1. g \in DOMAIN frames /\ frames[g] \in BusFrame BY <2>3
      <3>2. CASE g = f
        <4>1. frames'[g] = [frames[g] EXCEPT !.done = TRUE, !.subs = Len(subs)]
          BY <2>2, <3>1, <3>2
        <4> QED BY <3>1, <4>1 DEF BusFrame
      <3>3. CASE g # f BY <2>2, <3>1, <3>3
      <3> QED BY <3>2, <3>3
    <2>6. WillInv' BY <1>1, <2>2, <2>4, <2>5, WillKept
    <2> QED BY <1>1, <1>9, <2>6, BusFinishKeeps DEF BusInv
  <1>10. CASE UNCHANGED bus_vars
    <2>1. UNCHANGED <<subs, joined, wills, identity, deliveries, stack, frames, sessions>>
      BY <1>10 DEF bus_vars
    <2>2. DeliveryInv' BY <1>1, <1>2, <2>1, DeliveryKept
    <2>3. WillInv' BY <1>1, <2>1, WillKept
    <2> QED BY <2>2, <2>3 DEF BusInv
  <1> QED BY <1>3, <1>4, <1>5, <1>6, <1>7, <1>8, <1>9, <1>10 DEF BusNext

\* A bus that nobody has joined owes nothing.
LEMMA BusBegins ==
    ASSUME BusInit
    PROVE  BusInv
  <1>1. /\ subs = <<>> /\ joined = <<>> /\ wills = <<>> /\ deliveries = <<>>
        /\ stack = <<>> /\ frames = <<>> /\ sessions = <<>>
        /\ identity = [c \in Clients |-> NoOne]
    BY DEF BusInit
  <1>2. \A n \in 1..Len(<<>>) : FALSE OBVIOUS
  <1>3. DeliveryTypes BY <1>1 DEF DeliveryTypes
  <1>4. StackInv /\ ServedInv BY <1>1, <1>2 DEF StackInv, ServedInv
  <1>5. DOMAIN wills = {} BY <1>1
  <1>6. WillTypes BY <1>1, <1>5 DEF WillTypes
  <1>7. JoinedInv BY <1>1, <1>2 DEF JoinedInv, Distinct, Contains
  <1>8. HeldWillInv BY <1>1, <1>2, <1>5 DEF HeldWillInv
  <1>9. ToldInv BY <1>1, <1>2 DEF ToldInv
  <1> QED BY <1>3, <1>4, <1>6, <1>7, <1>8, <1>9 DEF BusInv, DeliveryInv, WillInv

\* What is known of the bus is what it promises.
LEMMA BusMeans ==
    ASSUME BusInv, HashIsLast(Filters)
    PROVE  BusKeepsItsPromises
  <1>1. DeliveryTypes /\ StackInv /\ ServedInv /\ WillTypes /\ JoinedInv /\ HeldWillInv /\ ToldInv
    BY DEF BusInv, DeliveryInv, WillInv
  <1>2. /\ DOMAIN frames = 1..Len(frames) /\ DOMAIN deliveries = 1..Len(deliveries)
        /\ Len(subs) \in Nat /\ Len(frames) \in Nat /\ subs \in Seq(BusFilters)
        /\ \A f \in 1..Len(frames) : frames[f].topic \in Seq(STRING) /\ frames[f].subs \in Nat
        /\ \A k \in 1..Len(deliveries) : deliveries[k].sub \in Nat
    BY <1>1, FrameIs DEF DeliveryTypes
  <1>3. ASSUME NEW f \in 1..Len(frames), NEW i \in 1..Len(subs)
        PROVE  FrameFits(f, i) <=> Selects(subs[i], frames[f].topic)
    <2>1. subs[i] \in Filters /\ FilterLevels(subs[i]) BY <1>2, <1>3 DEF BusFilters
    <2>2. subs[i] \in Seq(STRING) BY <2>1, BusAssumption
    <2>3. \A j \in 1..Len(subs[i]) - 1 : subs[i][j] # MULTI_LEVEL BY <2>1 DEF HashIsLast
    <2> QED BY <1>2, <1>3, <2>1, <2>2, <2>3, MatchesIsSelects DEF FrameFits
  <1>4. EachMatchServedOnce
    <2> SUFFICES ASSUME NEW f \in 1..Len(frames)
                 PROVE  /\ \A k, l \in Handed(f) : k < l => deliveries[k].sub < deliveries[l].sub
                        /\ frames[f].done =>
                              {deliveries[k].sub : k \in Handed(f)}
                                = {i \in 1..frames[f].subs : Selects(subs[i], frames[f].topic)}
      BY <1>2 DEF EachMatchServedOnce
    <2>1. \A k : k \in Handed(f) <=> k \in 1..Len(deliveries) /\ deliveries[k].frame = f
      BY <1>2 DEF Handed
    <2>2. \A k, l \in Handed(f) : k < l => deliveries[k].sub < deliveries[l].sub
      BY <1>1, <2>1 DEF ServedInv
    <2>3. ASSUME frames[f].done
          PROVE  {deliveries[k].sub : k \in Handed(f)}
                   = {i \in 1..frames[f].subs : Selects(subs[i], frames[f].topic)}
      <3>1. LoopIsAt(f, frames[f].subs + 1) /\ frames[f].subs \in 0..Len(subs)
        BY <1>1, <2>3 DEF ServedInv
      <3>2. /\ \A i \in 1..frames[f].subs : i \in 1..Len(subs) /\ i \in 1..(frames[f].subs + 1) - 1
            /\ \A i \in 1..Len(subs) : i < frames[f].subs + 1 => i \in 1..frames[f].subs
        BY <1>2, <3>1
      <3>3. ASSUME NEW k \in Handed(f)
            PROVE  /\ deliveries[k].sub \in 1..frames[f].subs
                   /\ Selects(subs[deliveries[k].sub], frames[f].topic)
        <4>1. k \in 1..Len(deliveries) /\ deliveries[k].frame = f BY <2>1, <3>3
        <4>2. deliveries[k].sub \in 1..Len(subs) /\ FrameFits(f, deliveries[k].sub)
          BY <1>1, <4>1 DEF ServedInv
        <4>3. deliveries[k].sub < frames[f].subs + 1 BY <3>1, <4>1 DEF LoopIsAt
        <4> QED BY <1>3, <3>2, <4>2, <4>3
      <3>4. ASSUME NEW i \in 1..frames[f].subs, Selects(subs[i], frames[f].topic)
            PROVE  \E k \in Handed(f) : deliveries[k].sub = i
        <4>1. FrameFits(f, i) BY <1>3, <3>2, <3>4
        <4>2. Served(f, i) BY <3>1, <3>2, <4>1 DEF LoopIsAt
        <4> QED BY <2>1, <4>2 DEF Served
      <3> QED BY <3>3, <3>4
    <2> QED BY <2>2, <2>3
  <1>5. DOMAIN sessions = 1..Len(sessions) /\ DOMAIN joined = 1..Len(joined)
    BY <1>1, SessionIs DEF WillTypes
  <1>6. ASSUME NEW n \in 1..Len(sessions)
        PROVE  Cardinality({f \in DOMAIN frames : frames[f].session = n})
                 = IF sessions[n].ended = "lost" /\ sessions[n].will THEN 1 ELSE 0
    <2> DEFINE T == {f \in 1..Len(frames) : frames[f].session = n}
    <2>1. n # Plain
      <3>1. Len(sessions) \in Nat BY <1>1, SessionIs
      <3> QED BY <3>1 DEF Plain
    <2>2. CASE IsMourned(n)
      <3>1. PICK f \in 1..Len(frames) : frames[f].session = n BY <1>1, <2>2 DEF ToldInv
      <3>2. \A g \in 1..Len(frames) : frames[g].session = n => g = f BY <1>1, <2>1, <3>1 DEF ToldInv
      <3>3. T = {f} BY <3>1, <3>2
      <3> HIDE DEF T
      <3>4. Cardinality(T) = 1 BY <3>3, FS_Singleton
      <3> QED BY <1>2, <2>2, <3>4 DEF T, IsMourned
    <2>3. CASE ~IsMourned(n)
      <3>1. T = {} BY <1>1, <2>1, <2>3 DEF ToldInv
      <3> HIDE DEF T
      <3>2. Cardinality(T) = 0 BY <3>1, FS_EmptySet
      <3> QED BY <1>2, <2>3, <3>2 DEF T, IsMourned
    <2> QED BY <2>2, <2>3
  <1>7. \A id \in DOMAIN wills : sessions[wills[id]].ended = "open"
    BY <1>1 DEF HeldWillInv, OpenFor, IsOpen
  <1>8. ToSet(joined) = {sessions[n].identity : n \in {m \in DOMAIN sessions :
                                                           sessions[m].ended = "open"}}
    <2> DEFINE O == {m \in DOMAIN sessions : sessions[m].ended = "open"}
    <2>1. \A x : x \in ToSet(joined) <=> Contains(joined, x) BY <1>5 DEF ToSet, Contains
    <2>2. ASSUME NEW x \in ToSet(joined) PROVE \E n \in O : x = sessions[n].identity
      <3>1. x \in Identities
        <4>1. joined \in Seq(Identities) BY <1>1 DEF WillTypes
        <4> QED BY <2>1, <2>2, <4>1 DEF Contains
      <3> QED BY <1>1, <1>5, <2>1, <2>2, <3>1 DEF JoinedInv, OpenFor, IsOpen
    <2>3. ASSUME NEW n \in O PROVE sessions[n].identity \in ToSet(joined)
      <3>1. n \in 1..Len(sessions) /\ IsOpen(n) BY <1>5, <2>3 DEF IsOpen
      <3>2. sessions[n].identity \in Identities BY <1>1, <3>1, SessionIs
      <3>3. OpenFor(n, sessions[n].identity) BY <3>1 DEF OpenFor
      <3> QED BY <1>1, <2>1, <3>1, <3>2, <3>3 DEF JoinedInv
    <2> QED BY <2>2, <2>3
  <1>9. WillsTellLosses BY <1>5, <1>6, <1>7, <1>8 DEF WillsTellLosses
  <1> QED BY <1>4, <1>9 DEF BusKeepsItsPromises

\* InMemoryBus: a publish that has returned was handed to exactly the subscriptions that
\* select it, once and in order, however the handlers nest; a will is delivered once for
\* a session that was lost and for no other.  For any parties, topics, filters and bounds.
THEOREM BusCorrect ==
    ASSUME HashIsLast(Filters)
    PROVE  BusInit /\ [][BusNext]_bus_vars => []BusKeepsItsPromises
  <1>1. BusInv /\ [BusNext]_bus_vars => BusInv' BY BusStep
  <1>2. BusInv => BusKeepsItsPromises BY BusMeans
  <1> QED BY <1>1, <1>2, BusBegins, PTL

\* The networks: the bus hands a frame to the subscriptions that select it, once and in
\* order, and a will to those who survive; the adapter's subscriptions are at the broker
\* when its threads are done and hear each message once.  The filters end where # is.
THEOREM NetworksCorrect ==
    ASSUME HashIsLast(Filters), HashIsLast(CallerFilters)
    PROVE  PartsSpec => []NetworksDeliver
  <1> DEFINE Inv == (part = "bus" => BusInv) /\ (part = "mqtt" => MqttInv)
  <1>1. PartsInit => Inv BY BusBegins, MqttBegins DEF PartsInit
  <1>2. ASSUME Inv, [PartsNext]_<<part, vars, tool_vars, portal_vars, temperature_vars,
                        bus_vars, mqtt_vars, registry_vars, time_vars, scenario_vars, facility,
                        config_vars, versions, archive_vars, sync_vars, rules_vars, thread_vars>>
        PROVE  Inv'
    <2>1. /\ UNCHANGED part
          /\ part = "bus" => [BusNext]_bus_vars
          /\ part = "mqtt" => [MqttNext]_mqtt_vars
      BY <1>2, PartRuns
    <2> QED BY <1>2, <2>1, BusStep, MqttStep
  <1>3. Inv => NetworksDeliver BY BusMeans, MqttMeans DEF NetworksDeliver
  <1> QED BY <1>1, <1>2, <1>3, PTL DEF PartsSpec
-----------------------------------------------------------------------------
(* ToolRegistry: what a registry lets a session do.                        *)

SpecKinds == ToolSpecs \cup {QUERY_METRIC_SPEC}
ToolNames == {spec.name : spec \in SpecKinds}
Effects == {"none", "simulate", "write_config"}
Measured == [status |-> "measured", required_by |-> "none", value |-> <<1>>]

BoundCall == [tool : ToolNames, args : Selections, emissions : Nat]

ToolLoop ==
    [tool : ToolNames, adapter : Adapters, retries : Nat, attempt : Nat, feedback : BOOLEAN]

CallEnds == {"bound", "not_prompt", "invalid"} \cup {Ask(exchange) : exchange \in Exchanges}

ModelCall == [ended : CallEnds, emissions : Nat, retries : Nat, repaired : BOOLEAN]

ToolResult ==
    [tool : ToolNames, tier : 1..3, side_effects : Effects, args : Selections,
     answer : {Measured} \cup {ResolveMetric(s, file) : s \in Selections, file \in MetricFiles \cup {Unloaded}}]

\* What was registered is a valid declaration, and before the default registry is
\* built only its own tool can be there.
DeclaredInv ==
    /\ specs \in Seq(SpecKinds)
    /\ \A i \in 1..Len(specs) : ToolSpec(specs[i])
    /\ document = Unloaded => \A i \in 1..Len(specs) : specs[i] = QUERY_METRIC_SPEC
    /\ metrics_file \in MetricFiles /\ document \in MetricFiles \cup {Unloaded}

\* What a call under way has used up.
LoopGood(l) == l.tool \in Names /\ l.attempt <= l.retries /\ l.feedback = (l.attempt > 0)

\* How a loop of structured() may end.
EndGood(m) ==
    /\ m.emissions <= m.retries + 1
    /\ m.repaired = (m.emissions > 1)
    /\ m.ended \in Repairable => m.emissions = m.retries + 1

CallsInv ==
    /\ loop = Quiet \/ (loop \in ToolLoop /\ LoopGood(loop))
    /\ bound \in Seq(BoundCall)
    /\ \A i \in 1..Len(bound) : bound[i].tool \in Names /\ ValidSelection(bound[i].args)
    /\ model_calls \in Seq(ModelCall)
    /\ \A i \in 1..Len(model_calls) : EndGood(model_calls[i])

\* What a tool answers, by the document the registry closed over.
AnswerOf(tool, args) == IF tool = "query_metric" THEN Answer(args) ELSE Measured

ResultGood(r) ==
    /\ r.side_effects = "write_config" => r.tier = 3
    /\ r.answer = AnswerOf(r.tool, r.args)

ResultsInv ==
    /\ results \in Seq(ToolResult)
    /\ \A i \in 1..Len(results) : ResultGood(results[i])
    /\ document = Unloaded => results = <<>>

ToolInv == DeclaredInv /\ CallsInv /\ ResultsInv

\* The declaration found for a name is one of that name.
LEMMA SpecOfIs ==
    ASSUME DeclaredInv, NEW name \in Names
    PROVE  /\ SpecOf(name) \in SpecKinds /\ SpecOf(name).name = name
           /\ ToolSpec(SpecOf(name)) /\ SpecOf(name).side_effects \in Effects
           /\ name \in ToolNames
           /\ document = Unloaded => SpecOf(name) = QUERY_METRIC_SPEC
  <1> DEFINE k == CHOOSE i \in DOMAIN specs : specs[i].name = name
  <1>1. specs \in Seq(SpecKinds) /\ DOMAIN specs = 1..Len(specs) BY DEF DeclaredInv
  <1>2. k \in 1..Len(specs) /\ specs[k].name = name BY <1>1 DEF Names
  <1> HIDE DEF k
  <1>3. SpecOf(name) = specs[k] BY DEF SpecOf, k
  <1>4. specs[k] \in SpecKinds BY <1>1, <1>2
  <1>5. specs[k].side_effects \in Effects
    BY <1>4, ToolAssumption DEF SpecKinds, QUERY_METRIC_SPEC, Effects
  <1>6. ToolSpec(specs[k]) BY <1>2 DEF DeclaredInv
  <1>7. document = Unloaded => specs[k] = QUERY_METRIC_SPEC BY <1>2 DEF DeclaredInv
  <1> QED BY <1>2, <1>3, <1>4, <1>5, <1>6, <1>7 DEF ToolNames

\* What register() adds takes no name away.
LEMMA RegisterKeeps ==
    ASSUME ToolInv, NEW spec \in ToolSpecs, RegisterTool(spec)
    PROVE  ToolInv'
  <1>1. /\ document # Unloaded /\ ToolSpec(spec) /\ specs' = Append(specs, spec)
        /\ UNCHANGED <<metrics_file, document, loop, bound, results, model_calls>>
    BY DEF RegisterTool
  <1>2. specs \in Seq(SpecKinds) /\ spec \in SpecKinds BY DEF ToolInv, DeclaredInv, SpecKinds
  <1>3. /\ specs' \in Seq(SpecKinds) /\ Len(specs) \in Nat /\ Len(specs') = Len(specs) + 1
        /\ \A i \in 1..Len(specs) : specs'[i] = specs[i]
        /\ specs'[Len(specs) + 1] = spec
    BY <1>1, <1>2, Appended
  <1>4. \A i \in 1..Len(specs') : i \in 1..Len(specs) \/ i = Len(specs) + 1 BY <1>3
  <1>5. \A i \in 1..Len(specs') : ToolSpec(specs'[i])
    BY <1>1, <1>3, <1>4 DEF ToolInv, DeclaredInv
  <1>6. DeclaredInv' BY <1>1, <1>3, <1>5 DEF ToolInv, DeclaredInv
  <1>7. Names \subseteq Names'
    <2>1. DOMAIN specs = 1..Len(specs) /\ DOMAIN specs' = 1..Len(specs') BY <1>2, <1>3
    <2>2. \A i \in 1..Len(specs) : i \in 1..Len(specs') BY <1>3
    <2> QED BY <1>3, <2>1, <2>2 DEF Names
  <1>8. CallsInv' BY <1>1, <1>7 DEF ToolInv, CallsInv, LoopGood, EndGood
  <1>9. ResultsInv' BY <1>1 DEF ToolInv, ResultsInv, ResultGood, AnswerOf, Answer
  <1> QED BY <1>6, <1>8, <1>9 DEF ToolInv

\* The file is loaded once; before that nothing has been answered.
LEMMA BuildKeeps ==
    ASSUME ToolInv, BuildDefaultRegistry
    PROVE  ToolInv'
  <1>1. /\ document = Unloaded /\ document' = metrics_file /\ specs' = <<QUERY_METRIC_SPEC>>
        /\ UNCHANGED <<metrics_file, loop, bound, results, model_calls>>
    BY DEF BuildDefaultRegistry
  <1>2. /\ specs' \in Seq(SpecKinds) /\ Len(specs') = 1 /\ specs'[1] = QUERY_METRIC_SPEC
        /\ DOMAIN specs' = 1..1
    BY <1>1 DEF SpecKinds
  <1>3. ToolSpec(QUERY_METRIC_SPEC) BY DEF ToolSpec, EffectsAgree, QUERY_METRIC_SPEC
  <1>4. DeclaredInv' BY <1>1, <1>2, <1>3 DEF ToolInv, DeclaredInv
  <1>5. Names \subseteq Names'
    <2>1. specs \in Seq(SpecKinds) /\ DOMAIN specs = 1..Len(specs) BY DEF ToolInv, DeclaredInv
    <2>2. \A i \in 1..Len(specs) : specs[i] = QUERY_METRIC_SPEC
      BY <1>1 DEF ToolInv, DeclaredInv
    <2> QED BY <1>2, <2>1, <2>2 DEF Names
  <1>6. CallsInv' BY <1>1, <1>5 DEF ToolInv, CallsInv, LoopGood, EndGood
  <1>7. results = <<>> BY <1>1 DEF ToolInv, ResultsInv
  <1>8. ResultsInv' BY <1>1, <1>7 DEF ToolInv, ResultsInv
  <1> QED BY <1>4, <1>6, <1>8 DEF ToolInv

\* What the registry declares is not touched by a call.
LEMMA DeclaredKept ==
    ASSUME ToolInv, UNCHANGED <<specs, metrics_file, document>>
    PROVE  DeclaredInv' /\ Names' = Names
  BY DEF ToolInv, DeclaredInv, Names

\* What was answered stays as it was.
LEMMA ResultsKept ==
    ASSUME ToolInv, UNCHANGED <<document, results>>
    PROVE  ResultsInv'
  BY DEF ToolInv, ResultsInv, ResultGood, AnswerOf, Answer

\* A call is bound by what the constructor of ToolCall has accepted.
LEMMA BoundGrows ==
    ASSUME CallsInv, NEW tool \in Names, tool \in ToolNames, NEW args \in Selections,
           ValidSelection(args), NEW emissions \in Nat
    PROVE  /\ Bound(tool, args, emissions) \in Seq(BoundCall)
           /\ \A i \in 1..Len(Bound(tool, args, emissions)) :
                 /\ Bound(tool, args, emissions)[i].tool \in Names
                 /\ ValidSelection(Bound(tool, args, emissions)[i].args)
  <1> DEFINE e == [tool |-> tool, args |-> args, emissions |-> emissions]
  <1>1. bound \in Seq(BoundCall) /\ e \in BoundCall BY DEF CallsInv, BoundCall
  <1>2. e.tool \in Names /\ ValidSelection(e.args) OBVIOUS
  <1> HIDE DEF e
  <1>3. /\ Append(bound, e) \in Seq(BoundCall) /\ Len(bound) \in Nat
        /\ Len(Append(bound, e)) = Len(bound) + 1
        /\ \A i \in 1..Len(bound) : Append(bound, e)[i] = bound[i]
        /\ Append(bound, e)[Len(bound) + 1] = e
    BY <1>1, Appended
  <1>4. \A i \in 1..Len(Append(bound, e)) : i \in 1..Len(bound) \/ i = Len(bound) + 1 BY <1>3
  <1>5. Bound(tool, args, emissions) = Append(bound, e) BY DEF Bound, e
  <1> QED BY <1>2, <1>3, <1>4, <1>5 DEF CallsInv

\* A loop that ends is put on record.
LEMMA CallsGrow ==
    ASSUME CallsInv, NEW m \in ModelCall, EndGood(m)
    PROVE  /\ Append(model_calls, m) \in Seq(ModelCall)
           /\ \A i \in 1..Len(Append(model_calls, m)) : EndGood(Append(model_calls, m)[i])
  <1>1. model_calls \in Seq(ModelCall) BY DEF CallsInv
  <1>2. /\ Append(model_calls, m) \in Seq(ModelCall) /\ Len(model_calls) \in Nat
        /\ Len(Append(model_calls, m)) = Len(model_calls) + 1
        /\ \A i \in 1..Len(model_calls) : Append(model_calls, m)[i] = model_calls[i]
        /\ Append(model_calls, m)[Len(model_calls) + 1] = m
    BY <1>1, Appended
  <1>3. \A i \in 1..Len(Append(model_calls, m)) :
           i \in 1..Len(model_calls) \/ i = Len(model_calls) + 1
    BY <1>2
  <1> QED BY <1>2, <1>3 DEF CallsInv

\* bind() validates once.
LEMMA BindKeeps ==
    ASSUME ToolInv, NEW tool \in Names, NEW args \in Selections, Bind(tool, args)
    PROVE  ToolInv'
  <1>1. /\ ValidSelection(args) /\ bound' = Bound(tool, args, 0)
        /\ UNCHANGED <<specs, metrics_file, document, loop, results, model_calls>>
    BY DEF Bind
  <1>2. tool \in ToolNames BY SpecOfIs DEF ToolInv
  <1>3. /\ bound' \in Seq(BoundCall)
        /\ \A i \in 1..Len(bound') : bound'[i].tool \in Names /\ ValidSelection(bound'[i].args)
    BY <1>1, <1>2, BoundGrows DEF ToolInv
  <1>4. DeclaredInv' /\ Names' = Names BY <1>1, DeclaredKept
  <1>5. ResultsInv' BY <1>1, ResultsKept
  <1>6. CallsInv' BY <1>1, <1>3, <1>4 DEF ToolInv, CallsInv, LoopGood, EndGood
  <1> QED BY <1>4, <1>5, <1>6 DEF ToolInv

\* A loop begins with its whole budget.
LEMMA StructuredKeeps ==
    ASSUME ToolInv, NEW tool \in Names, NEW adapter \in Adapters, NEW retries \in MaxRetries,
           BindStructured(tool, adapter, retries)
    PROVE  ToolInv'
  <1>1. /\ retries >= 0
        /\ loop' = [tool |-> tool, adapter |-> adapter, retries |-> retries, attempt |-> 0,
                    feedback |-> FALSE]
        /\ UNCHANGED <<specs, metrics_file, document, bound, results, model_calls>>
    BY DEF BindStructured
  <1>2. tool \in ToolNames /\ retries \in Nat BY <1>1, SpecOfIs, ToolAssumption DEF ToolInv
  <1>3. loop' \in ToolLoop BY <1>1, <1>2 DEF ToolLoop
  <1>4. DeclaredInv' /\ Names' = Names BY <1>1, DeclaredKept
  <1>5. ResultsInv' BY <1>1, ResultsKept
  <1>6. LoopGood(loop)'
    <2>1. loop'.tool = tool /\ loop'.attempt = 0 /\ loop'.retries = retries BY <1>1
    <2>2. loop'.feedback = FALSE BY <1>1, Zenon
    <2>3. loop'.tool \in Names' /\ loop'.attempt <= loop'.retries BY <1>2, <1>4, <2>1
    <2>4. (loop'.attempt > 0) = FALSE BY <2>1
    <2> QED BY <2>2, <2>3, <2>4 DEF LoopGood
  <1>7. CallsInv' BY <1>1, <1>3, <1>4, <1>6 DEF ToolInv, CallsInv, EndGood
  <1> QED BY <1>4, <1>5, <1>7 DEF ToolInv

\* What a loop under way is.
LEMMA LoopIs ==
    ASSUME ToolInv, loop # Quiet
    PROVE  /\ loop \in ToolLoop /\ LoopGood(loop) /\ loop.tool \in ToolNames /\ loop.tool \in Names
           /\ loop.attempt \in Nat /\ loop.retries \in Nat /\ loop.attempt <= loop.retries
           /\ loop.feedback \in BOOLEAN
           /\ Emissions \in Nat /\ Emissions = loop.attempt + 1
  <1>1. loop \in ToolLoop /\ LoopGood(loop) BY DEF ToolInv, CallsInv
  <1>2. /\ loop.tool \in ToolNames /\ loop.attempt \in Nat /\ loop.retries \in Nat
        /\ loop.feedback \in BOOLEAN
    BY <1>1 DEF ToolLoop
  <1>3. loop.tool \in Names /\ loop.attempt <= loop.retries BY <1>1 DEF LoopGood
  <1> QED BY <1>1, <1>2, <1>3 DEF Emissions

\* The record of a loop that ends now.
EndNow(kind) ==
    [ended |-> kind, emissions |-> Emissions, retries |-> loop.retries, repaired |-> loop.feedback]

\* A loop ends within its budget; after a failure it repairs, with all of it.
LEMMA EndsGood ==
    ASSUME ToolInv, loop # Quiet, NEW kind \in CallEnds,
           kind \in Repairable => loop.attempt = loop.retries
    PROVE  EndNow(kind) \in ModelCall /\ EndGood(EndNow(kind))
  <1>1. EndNow(kind) \in ModelCall BY LoopIs DEF EndNow, ModelCall
  <1> DEFINE m == EndNow(kind)
  <1>2. m.ended = kind /\ m.emissions = Emissions /\ m.retries = loop.retries BY DEF EndNow
  <1>3. m.repaired = loop.feedback BY Zenon DEF EndNow
  <1>4. (loop.attempt > 0) = (Emissions > 1) BY LoopIs
  <1>5. loop.feedback = (loop.attempt > 0) BY LoopIs DEF LoopGood
  <1> HIDE DEF m
  <1>6. m.repaired = (m.emissions > 1)
    <2>1. m.repaired = (Emissions > 1) BY <1>3, <1>4, <1>5, Zenon
    <2> QED BY <1>2, <2>1, Zenon
  <1>7. m.emissions <= m.retries + 1 BY <1>2, LoopIs
  <1>8. m.ended \in Repairable => m.emissions = m.retries + 1 BY <1>2, LoopIs
  <1>9. EndGood(m) BY <1>6, <1>7, <1>8 DEF EndGood
  <1> QED BY <1>1, <1>9 DEF m

\* Giving up puts the loop on record.
LEMMA GiveUpKeeps ==
    ASSUME ToolInv, loop # Quiet, NEW kind \in CallEnds,
           kind \in Repairable => loop.attempt = loop.retries,
           GiveUp(kind), UNCHANGED <<specs, metrics_file, document, bound, results>>
    PROVE  ToolInv'
  <1>1. loop' = Quiet /\ model_calls' = Append(model_calls, EndNow(kind)) BY DEF GiveUp, EndNow
  <1>2. EndNow(kind) \in ModelCall /\ EndGood(EndNow(kind)) BY EndsGood
  <1>3. /\ model_calls' \in Seq(ModelCall)
        /\ \A i \in 1..Len(model_calls') : EndGood(model_calls'[i])
    BY <1>1, <1>2, CallsGrow DEF ToolInv
  <1>4. DeclaredInv' /\ Names' = Names BY DeclaredKept
  <1>5. ResultsInv' BY ResultsKept
  <1>6. \A i \in 1..Len(model_calls') : EndGood(model_calls[i])'
    BY <1>3 DEF EndGood
  <1>7. CallsInv' BY <1>1, <1>3, <1>4, <1>6 DEF ToolInv, CallsInv
  <1> QED BY <1>4, <1>5, <1>7 DEF ToolInv

\* The kinds of failure are ends a loop may have.
LEMMA FailureIsEnd ==
    ASSUME NEW adapter, NEW kind \in Failures(adapter)
    PROVE  kind \in CallEnds
  BY DEF Failures, CallEnds

\* A repairable failure uses up one attempt, or ends the loop with the last one.
LEMMA FailedKeeps ==
    ASSUME ToolInv, EmitFailed
    PROVE  ToolInv'
  <1>1. loop # Quiet /\ UNCHANGED <<specs, metrics_file, document, bound, results>>
    BY DEF EmitFailed
  <1>2. PICK kind \in Failures(loop.adapter) \cap Repairable : Retry(kind) BY DEF EmitFailed
  <1>3. kind \in CallEnds BY FailureIsEnd
  <1>4. CASE loop.attempt = loop.retries
    <2>1. GiveUp(kind) BY <1>2, <1>4 DEF Retry
    <2> QED BY <1>1, <1>3, <1>4, <2>1, GiveUpKeeps
  <1>5. CASE loop.attempt # loop.retries
    <2>1. /\ loop' = [loop EXCEPT !.attempt = loop.attempt + 1, !.feedback = TRUE]
          /\ model_calls' = model_calls
      BY <1>2, <1>5 DEF Retry
    <2>2. loop' \in ToolLoop BY <1>1, <2>1, LoopIs DEF ToolLoop
    <2>3. /\ loop'.tool = loop.tool /\ loop'.attempt = loop.attempt + 1
          /\ loop'.retries = loop.retries
      BY <1>1, <2>1, LoopIs DEF ToolLoop
    <2>4. loop'.feedback = TRUE
      <3>1. loop \in [tool : ToolNames, adapter : Adapters, retries : Nat, attempt : Nat,
                      feedback : BOOLEAN]
        BY <1>1, LoopIs DEF ToolLoop
      <3> QED BY <2>1, <3>1
    <2>5. (loop'.attempt > 0) = TRUE BY <1>1, <2>3, LoopIs
    <2>6. loop'.attempt <= loop'.retries BY <1>1, <1>5, <2>3, LoopIs
    <2>7. DeclaredInv' /\ Names' = Names BY <1>1, DeclaredKept
    <2>8. loop'.tool \in Names' BY <1>1, <2>3, <2>7, LoopIs
    <2>9. LoopGood(loop)' BY <2>4, <2>5, <2>6, <2>8 DEF LoopGood
    <2>10. ResultsInv' BY <1>1, ResultsKept
    <2>11. CallsInv' BY <1>1, <2>1, <2>2, <2>7, <2>9 DEF ToolInv, CallsInv, EndGood
    <2> QED BY <2>7, <2>10, <2>11 DEF ToolInv
  <1> QED BY <1>4, <1>5

\* Nothing else is caught.
LEMMA FatalKeeps ==
    ASSUME ToolInv, EmitFatal
    PROVE  ToolInv'
  <1>1. loop # Quiet /\ UNCHANGED <<specs, metrics_file, document, bound, results>>
    BY DEF EmitFatal
  <1>2. PICK kind \in Failures(loop.adapter) \ Repairable : GiveUp(kind) BY DEF EmitFatal
  <1>3. kind \in CallEnds /\ kind \notin Repairable BY FailureIsEnd
  <1> QED BY <1>1, <1>2, <1>3, GiveUpKeeps

\* A valid emission ends the loop and is what the call is bound with.
LEMMA ValidKeeps ==
    ASSUME ToolInv, NEW args \in Selections, EmitValid(args)
    PROVE  ToolInv'
  <1>1. /\ loop # Quiet /\ ValidSelection(args) /\ loop' = Quiet
        /\ bound' = Bound(loop.tool, args, Emissions)
        /\ model_calls' = Append(model_calls, EndNow("bound"))
        /\ UNCHANGED <<specs, metrics_file, document, results>>
    BY DEF EmitValid, EndNow
  <1>2. loop.tool \in Names /\ loop.tool \in ToolNames /\ Emissions \in Nat BY <1>1, LoopIs
  <1>3. /\ bound' \in Seq(BoundCall)
        /\ \A i \in 1..Len(bound') : bound'[i].tool \in Names /\ ValidSelection(bound'[i].args)
    BY <1>1, <1>2, BoundGrows DEF ToolInv
  <1>4. "bound" \in CallEnds /\ "bound" \notin Repairable BY DEF CallEnds, Repairable
  <1>5. EndNow("bound") \in ModelCall /\ EndGood(EndNow("bound")) BY <1>1, <1>4, EndsGood
  <1>6. /\ model_calls' \in Seq(ModelCall)
        /\ \A i \in 1..Len(model_calls') : EndGood(model_calls'[i])
    BY <1>1, <1>5, CallsGrow DEF ToolInv
  <1>7. \A i \in 1..Len(model_calls') : EndGood(model_calls[i])' BY <1>6 DEF EndGood
  <1>8. DeclaredInv' /\ Names' = Names BY <1>1, DeclaredKept
  <1>9. ResultsInv' BY <1>1, ResultsKept
  <1>10. CallsInv' BY <1>1, <1>3, <1>6, <1>7, <1>8 DEF ToolInv, CallsInv
  <1> QED BY <1>8, <1>9, <1>10 DEF ToolInv

\* Before the document is loaded nothing answers.
LEMMA NothingDeclared ==
    ASSUME NEW s
    PROVE  ResolveMetric(s, Unloaded).status = "refused"
  <1>1. DOMAIN Unloaded = {} BY DEF Unloaded
  <1> QED BY <1>1 DEF ResolveMetric

\* invoke() asks for the tier the tool needs, and answers from what was loaded.
LEMMA InvokeKeeps ==
    ASSUME ToolInv, NEW n \in DOMAIN bound, NEW tier \in 1..3, Invoke(n, tier)
    PROVE  ToolInv'
  <1> DEFINE tool == bound[n].tool
             args == bound[n].args
             answer == AnswerOf(tool, args)
             r == [tool |-> tool, tier |-> tier, side_effects |-> SpecOf(tool).side_effects,
                   args |-> args, answer |-> answer]
  <1>1. QUERY_METRIC_SPEC.name = "query_metric" BY DEF QUERY_METRIC_SPEC
  <1>2. /\ Permits(tier, SpecOf(tool).tier) /\ answer.status # "refused"
        /\ results' = Append(results, r)
        /\ UNCHANGED <<specs, metrics_file, document, loop, bound, model_calls>>
    BY <1>1 DEF Invoke, AnswerOf, Measured
  <1>3. tool \in Names /\ tool \in ToolNames /\ args \in Selections
    <2>1. bound \in Seq(BoundCall) /\ n \in 1..Len(bound) BY DEF ToolInv, CallsInv
    <2>2. bound[n] \in BoundCall BY <2>1
    <2> QED BY <2>1, <2>2 DEF ToolInv, CallsInv, BoundCall
  <1>4. /\ SpecOf(tool) \in SpecKinds /\ ToolSpec(SpecOf(tool))
        /\ SpecOf(tool).side_effects \in Effects /\ SpecOf(tool).name = tool
        /\ document = Unloaded => SpecOf(tool) = QUERY_METRIC_SPEC
    BY <1>3, SpecOfIs DEF ToolInv
  <1>5. answer \in {Measured} \cup {ResolveMetric(s, file) : s \in Selections,
                                                     file \in MetricFiles \cup {Unloaded}}
    <2>1. document \in MetricFiles \cup {Unloaded} BY DEF ToolInv, DeclaredInv
    <2> QED BY <1>3, <2>1 DEF AnswerOf, Answer
  <1>6. document # Unloaded
    <2>1. SUFFICES ASSUME document = Unloaded PROVE FALSE OBVIOUS
    <2>2. answer = ResolveMetric(args, Unloaded) BY <1>1, <1>4, <2>1 DEF AnswerOf, Answer
    <2> QED BY <1>2, <2>2, NothingDeclared
  <1>7. SpecOf(tool).side_effects = "write_config" => tier = 3
    <2>1. ASSUME SpecOf(tool).side_effects = "write_config" PROVE SpecOf(tool).tier = 3
      BY <1>4, <2>1 DEF ToolSpec, EffectsAgree
    <2> QED BY <1>2, <2>1 DEF Permits
  <1> HIDE DEF tool, args, answer
  <1>8. r \in ToolResult BY <1>3, <1>4, <1>5 DEF ToolResult
  <1>9. /\ r.side_effects = SpecOf(tool).side_effects /\ r.tier = tier
        /\ r.tool = tool /\ r.args = args /\ r.answer = answer
    OBVIOUS
  <1> HIDE DEF r
  <1>10. ResultGood(r) BY <1>7, <1>9 DEF ResultGood, answer
  <1>11. results \in Seq(ToolResult) BY DEF ToolInv, ResultsInv
  <1>12. /\ results' \in Seq(ToolResult) /\ Len(results) \in Nat
         /\ Len(results') = Len(results) + 1
         /\ \A i \in 1..Len(results) : results'[i] = results[i]
         /\ results'[Len(results) + 1] = r
    BY <1>2, <1>8, <1>11, Appended
  <1>13. \A i \in 1..Len(results') : i \in 1..Len(results) \/ i = Len(results) + 1 BY <1>12
  <1>14. \A i \in 1..Len(results') : ResultGood(results'[i])
    <2>1. \A i \in 1..Len(results) : ResultGood(results[i]) BY DEF ToolInv, ResultsInv
    <2> QED BY <1>10, <1>12, <1>13, <2>1
  <1>15. \A i \in 1..Len(results') : ResultGood(results[i])'
    BY <1>2, <1>14 DEF ResultGood, AnswerOf, Answer
  <1>16. ResultsInv' BY <1>2, <1>6, <1>12, <1>15 DEF ResultsInv
  <1>17. DeclaredInv' /\ Names' = Names BY <1>2, DeclaredKept
  <1>18. CallsInv' BY <1>2, <1>17 DEF ToolInv, CallsInv, LoopGood, EndGood
  <1> QED BY <1>16, <1>17, <1>18 DEF ToolInv

\* Whatever a session does, what is known of its registry remains.
LEMMA ToolStep ==
    ASSUME ToolInv, [ToolNext]_tool_vars
    PROVE  ToolInv'
  <1>1. CASE BuildDefaultRegistry BY <1>1, BuildKeeps
  <1>2. ASSUME NEW file \in MetricFiles, EditMetrics(file) PROVE ToolInv'
    <2>1. /\ metrics_file' = file
          /\ UNCHANGED <<specs, document, loop, bound, results, model_calls>>
      BY <1>2 DEF EditMetrics
    <2>2. DeclaredInv' /\ Names' = Names BY <1>2, <2>1 DEF ToolInv, DeclaredInv, Names
    <2>3. ResultsInv' BY <2>1, ResultsKept
    <2>4. CallsInv' BY <2>1, <2>2 DEF ToolInv, CallsInv, LoopGood, EndGood
    <2> QED BY <2>2, <2>3, <2>4 DEF ToolInv
  <1>3. ASSUME NEW spec \in ToolSpecs, RegisterTool(spec) PROVE ToolInv' BY <1>3, RegisterKeeps
  <1>4. ASSUME NEW tool \in Names, NEW args \in Selections, Bind(tool, args) PROVE ToolInv'
    BY <1>4, BindKeeps
  <1>5. ASSUME NEW tool \in Names, NEW adapter \in Adapters, NEW retries \in MaxRetries,
               BindStructured(tool, adapter, retries)
        PROVE  ToolInv'
    BY <1>5, StructuredKeeps
  <1>6. ASSUME NEW args \in Selections, EmitValid(args) PROVE ToolInv' BY <1>6, ValidKeeps
  <1>7. CASE EmitFailed BY <1>7, FailedKeeps
  <1>8. CASE EmitFatal BY <1>8, FatalKeeps
  <1>9. ASSUME NEW n \in DOMAIN bound, NEW tier \in 1..3, Invoke(n, tier) PROVE ToolInv'
    BY <1>9, InvokeKeeps
  <1>10. CASE UNCHANGED tool_vars
    <2>1. UNCHANGED <<specs, metrics_file, document, loop, bound, results, model_calls>>
      BY <1>10 DEF tool_vars
    <2>2. DeclaredInv' /\ Names' = Names BY <2>1, DeclaredKept
    <2>3. ResultsInv' BY <2>1, ResultsKept
    <2>4. CallsInv' BY <2>1, <2>2 DEF ToolInv, CallsInv, LoopGood, EndGood
    <2> QED BY <2>2, <2>3, <2>4 DEF ToolInv
  <1> QED BY <1>1, <1>2, <1>3, <1>4, <1>5, <1>6, <1>7, <1>8, <1>9, <1>10 DEF ToolNext

\* A process that has loaded nothing.
LEMMA ToolBegins ==
    ASSUME ToolInit
    PROVE  ToolInv
  <1>1. /\ specs = <<>> /\ metrics_file \in MetricFiles /\ document = Unloaded
        /\ loop = Quiet /\ bound = <<>> /\ results = <<>> /\ model_calls = <<>>
    BY DEF ToolInit
  <1>2. \A i \in 1..Len(<<>>) : FALSE OBVIOUS
  <1>3. DeclaredInv BY <1>1, <1>2 DEF DeclaredInv
  <1>4. CallsInv BY <1>1, <1>2 DEF CallsInv
  <1>5. ResultsInv BY <1>1, <1>2 DEF ResultsInv
  <1> QED BY <1>3, <1>4, <1>5 DEF ToolInv

\* What is known of the registry is its contract.
LEMMA ToolMeans ==
    ASSUME ToolInv
    PROVE  ToolsKeepTheirContract
  <1>1. /\ results \in Seq(ToolResult) /\ DOMAIN results = 1..Len(results)
        /\ \A i \in 1..Len(results) : ResultGood(results[i])
    BY DEF ToolInv, ResultsInv
  <1>2. EffectsNeedTheirTier
    <2>1. \A i \in DOMAIN results :
             results[i].side_effects = "write_config" => results[i].tier = 3
      BY <1>1 DEF ResultGood
    <2>2. ASSUME NEW name \in Names, SpecOf(name).side_effects # "write_config"
          PROVE  name \in Allowed(1)
      <3>1. SpecOf(name).tier = 1
        BY <2>2, SpecOfIs DEF ToolInv, ToolSpec, EffectsAgree, Effects
      <3> QED BY <3>1 DEF Allowed, Permits
    <2> QED BY <2>1, <2>2 DEF EffectsNeedTheirTier
  <1>3. RetriesAreBounded
    <2>1. /\ DOMAIN model_calls = 1..Len(model_calls)
          /\ \A i \in 1..Len(model_calls) : EndGood(model_calls[i])
      BY DEF ToolInv, CallsInv
    <2>2. loop # Quiet => loop.attempt <= loop.retries BY LoopIs
    <2>3. \A i \in DOMAIN bound : ValidSelection(bound[i].args) BY DEF ToolInv, CallsInv
    <2>4. \A i \in DOMAIN model_calls :
             /\ model_calls[i].emissions <= model_calls[i].retries + 1
             /\ model_calls[i].repaired <=> model_calls[i].emissions > 1
             /\ model_calls[i].ended \in Repairable =>
                   model_calls[i].emissions = model_calls[i].retries + 1
      BY <2>1 DEF EndGood
    <2> QED BY <2>2, <2>3, <2>4 DEF RetriesAreBounded
  <1>4. OneVersionPerSession BY <1>1 DEF OneVersionPerSession, ResultGood, AnswerOf, Answer
  <1> QED BY <1>2, <1>3, <1>4 DEF ToolsKeepTheirContract

\* ToolRegistry: nothing ran that wrote configuration below L3, no model was asked more
\* often than its budget allows, and every answer of a session is of one version of the
\* metrics.  For any declarations, metrics files, adapters, budgets and order of calls.
THEOREM ToolsCorrect == PartsSpec => []ToolsAreGoverned
  <1> DEFINE Inv == part = "tools" => ToolInv
  <1>1. PartsInit => Inv BY ToolBegins DEF PartsInit
  <1>2. ASSUME Inv, [PartsNext]_<<part, vars, tool_vars, portal_vars, temperature_vars,
                        bus_vars, mqtt_vars, registry_vars, time_vars, scenario_vars, facility,
                        config_vars, versions, archive_vars, sync_vars, rules_vars, thread_vars>>
        PROVE  Inv'
    <2>0. ASSUME part = "tools" PROVE [ToolNext]_tool_vars
      BY <1>2, <2>0 DEF PartsNext, OthersStill
    <2>1. UNCHANGED part /\ (part = "tools" => [ToolNext]_tool_vars) BY <1>2, <2>0, PartRuns
    <2> QED BY <1>2, <2>1, ToolStep
  <1>3. Inv => ToolsAreGoverned BY ToolMeans DEF ToolsAreGoverned
  <1> QED BY <1>1, <1>2, <1>3, PTL DEF PartsSpec
===============================================================================
