-------------------------- MODULE SkillConfigProofs --------------------------
(* Theorems about SkillConfig, for any number of orgs, skills and updates.   *)
EXTENDS SkillConfig, TLAPS

\* A row that an update has found stays: no route deletes switches.
FoundStays ==
  \A q \in Requests : requests[q] # Idle /\ requests[q].read # NoRow
    => settings[requests[q].org][requests[q].skill] # NoRow

TInv == TypeOK /\ FoundStays

\* The updates of an orderly switch come one at a time, so what an update has
\* read is what the table still holds when it writes.
Concerns(q, o, s) == requests[q] # Idle /\ requests[q].org = o /\ requests[q].skill = s

OneAtATime ==
  \A o \in Orgs, s \in Skills : <<o, s>> \in Orderly =>
    \A q, p \in Requests : Concerns(q, o, s) /\ Concerns(p, o, s) => q = p

ReadIsCurrent ==
  \A o \in Orgs, s \in Skills : <<o, s>> \in Orderly =>
    \A q \in Requests : Concerns(q, o, s) => requests[q].read = settings[o][s]

IInv == TInv /\ OneAtATime /\ ReadIsCurrent

------------------------------------------------------------------------------
(* Rows.                                                                    *)

\* What a commit leaves in the row is a row ...
LEMMA StoredIsRow ==
  ASSUME NEW row \in Row \union {NoRow}, NEW read \in Row \union {NoRow},
         NEW asked \in Row, read # NoRow => row # NoRow
  PROVE  Stored(row, read, asked) \in Row
<1>1. row \in Row => Written(row, read, asked) \in Row
  BY DEF Written, Row
<1> QED
  BY <1>1 DEF Stored

\* ... and the one that was asked for, if nothing was written since the read.
LEMMA StoredIsAsked ==
  ASSUME NEW row \in Row \union {NoRow}, NEW asked \in Row
  PROVE  Stored(row, row, asked) = asked
<1>1. row \in Row => Written(row, row, asked) = asked
  BY DEF Written, Row
<1> QED
  BY <1>1 DEF Stored

LEMMA NoRowIsNoRow == NoRow \notin Row
<1>1. \A r \in Row : DOMAIN r = {"enabled", "params"}
  BY DEF Row
<1>2. DOMAIN NoRow = {"enabled"}
  BY DEF NoRow
<1> QED
  BY <1>1, <1>2

LEMMA IdleIsNoUpdate == \A u \in Update : u # Idle
<1>1. \A u \in Update : u.step = "write"
  BY DEF Update
<1> QED
  BY <1>1 DEF Idle

------------------------------------------------------------------------------
(* Types.                                                                   *)

LEMMA TypeInit == Init => TInv
  BY DEF Init, TInv, TypeOK, FoundStays

LEMMA UpdateReadTypes ==
  ASSUME TInv, NEW q \in Requests, NEW o \in Orgs, NEW s \in Skills, NEW asked \in Row,
         UpdateRead(q, o, s, asked)
  PROVE  TInv'
<1> DEFINE u == [step |-> "write", org |-> o, skill |-> s, read |-> settings[o][s],
                 asked |-> asked]
<1>1. u \in Update
  BY DEF TInv, TypeOK, Update
<1>2. /\ requests' = [requests EXCEPT ![q] = u]
      /\ UNCHANGED <<settings, rules, mailboxes, rendering>>
  BY DEF UpdateRead
<1> HIDE DEF u
<1>3. TypeOK'
  BY <1>1, <1>2 DEF TInv, TypeOK
<1>4. requests'[q] = u /\ \A p \in Requests \ {q} : requests'[p] = requests[p]
  BY <1>2 DEF TInv, TypeOK
<1>5. u.read = settings[u.org][u.skill]
  BY DEF u
<1>6. FoundStays'
  BY <1>2, <1>4, <1>5 DEF TInv, FoundStays
<1> QED
  BY <1>3, <1>6 DEF TInv

LEMMA UpdateCommitTypes ==
  ASSUME TInv, NEW q \in Requests, UpdateCommit(q)
  PROVE  TInv'
<1> PICK o \in Orgs, s \in Skills :
      /\ requests[q].org = o /\ requests[q].skill = s
      /\ requests[q].read \in Row \union {NoRow} /\ requests[q].asked \in Row
  BY DEF UpdateCommit, TInv, TypeOK, Update, Idle
<1> DEFINE row == Stored(settings[o][s], requests[q].read, requests[q].asked)
<1>1. row \in Row
  <2>1. settings[o][s] \in Row \union {NoRow}
    BY DEF TInv, TypeOK
  <2>2. requests[q].read # NoRow => settings[o][s] # NoRow
    BY DEF TInv, FoundStays, UpdateCommit
  <2> QED
    BY <2>1, <2>2, StoredIsRow
<1>2. /\ settings' = [settings EXCEPT ![o][s] = row]
      /\ requests' = [requests EXCEPT ![q] = Idle]
      /\ UNCHANGED <<rules, mailboxes, rendering>>
  BY DEF UpdateCommit
<1> HIDE DEF row
<1>3. TypeOK'
  BY <1>1, <1>2 DEF TInv, TypeOK
<1>4. /\ requests'[q] = Idle /\ \A p \in Requests \ {q} : requests'[p] = requests[p]
      /\ \A a \in Orgs, b \in Skills :
           settings'[a][b] = IF a = o /\ b = s THEN row ELSE settings[a][b]
  BY <1>2 DEF TInv, TypeOK
<1>5. FoundStays'
  <2> SUFFICES ASSUME NEW p \in Requests, requests'[p] # Idle, requests'[p].read # NoRow
               PROVE  settings'[requests'[p].org][requests'[p].skill] # NoRow
    BY DEF FoundStays
  <2>1. p # q /\ requests'[p] = requests[p]
    BY <1>4
  <2>2. requests[p].org \in Orgs /\ requests[p].skill \in Skills
    BY <2>1 DEF TInv, TypeOK, Update, Idle
  <2>3. settings[requests[p].org][requests[p].skill] # NoRow
    BY <2>1 DEF TInv, FoundStays
  <2> QED
    BY <1>1, <1>4, <2>1, <2>2, <2>3, NoRowIsNoRow
<1> QED
  BY <1>3, <1>5 DEF TInv

LEMMA TypeNext == TInv /\ [Next]_vars => TInv'
<1> SUFFICES ASSUME TInv, [Next]_vars PROVE TInv'
  OBVIOUS
<1>1. ASSUME NEW q \in Requests, NEW o \in Orgs, NEW s \in Skills, NEW asked \in Row,
             UpdateRead(q, o, s, asked)
      PROVE  TInv'
  BY <1>1, UpdateReadTypes
<1>2. ASSUME NEW q \in Requests, UpdateCommit(q) PROVE TInv'
  BY <1>2, UpdateCommitTypes
<1>3. ASSUME NEW r \in Rules, CreateRule(r) \/ DeleteRule(r) PROVE TInv'
  BY <1>3 DEF CreateRule, DeleteRule, TInv, TypeOK, FoundStays
<1>4. ASSUME NEW o \in Orgs, NEW p \in Providers, ConnectMailbox(o, p) PROVE TInv'
  BY <1>4 DEF ConnectMailbox, TInv, TypeOK, FoundStays
<1>5. ASSUME NEW o \in Orgs, RenderProviders(o) \/ RenderSkills(o) \/ RenderVips(o)
      PROVE  TInv'
  <2>1. UNCHANGED <<settings, rules, mailboxes, requests>>
    BY <1>5 DEF RenderProviders, RenderSkills, RenderVips
  <2>2. EnabledSkills(o) \in SUBSET Skills /\ VipRules(o) \in SUBSET Rules
    BY SkillsAssumption DEF EnabledSkills, EnabledRows, VipRules
  <2>3. rendering' \in [Orgs -> {Nothing} \union Reading \union Config]
    <3>1. CASE RenderProviders(o)
      BY <3>1 DEF RenderProviders, TInv, TypeOK, Reading
    <3>2. CASE RenderSkills(o)
      <4>1. rendering[o].providers \in SUBSET Providers
        BY <3>2 DEF RenderSkills, TInv, TypeOK, Reading, Config, Nothing
      <4> QED
        BY <2>2, <3>2, <4>1 DEF RenderSkills, TInv, TypeOK, Reading
    <3>3. CASE RenderVips(o)
      <4>1. rendering[o].providers \in SUBSET Providers
            /\ rendering[o].skills \in SUBSET Skills
        BY <3>3 DEF RenderVips, TInv, TypeOK, Reading, Config, Nothing
      <4> QED
        BY <2>2, <3>3, <4>1 DEF RenderVips, TInv, TypeOK, Config
    <3> QED
      BY <1>5, <3>1, <3>2, <3>3
  <2> QED
    BY <2>1, <2>3 DEF TInv, TypeOK, FoundStays
<1>6. CASE UNCHANGED vars
  BY <1>6 DEF vars, TInv, TypeOK, FoundStays
<1> QED
  BY <1>1, <1>2, <1>3, <1>4, <1>5, <1>6 DEF Next

\* Every reachable state has the types of the columns, and an update that has
\* found a row still finds it when it writes (upsert_skill_setting).
THEOREM TypeCorrect == Spec => [](TypeOK /\ FoundStays)
<1> QED
  BY TypeInit, TypeNext, PTL DEF Spec, TInv
------------------------------------------------------------------------------
(* Orderly switches.                                                        *)

LEMMA InvInit == Init => IInv
<1> SUFFICES ASSUME Init PROVE IInv
  OBVIOUS
<1>1. \A q \in Requests : requests[q] = Idle
  BY DEF Init
<1> QED
  BY <1>1, TypeInit DEF IInv, OneAtATime, ReadIsCurrent, Concerns

LEMMA UpdateReadInTurn ==
  ASSUME IInv, NEW q \in Requests, NEW o \in Orgs, NEW s \in Skills, NEW asked \in Row,
         UpdateRead(q, o, s, asked)
  PROVE  OneAtATime' /\ ReadIsCurrent'
<1>1. /\ requests'[q].org = o /\ requests'[q].skill = s
      /\ requests'[q].read = settings[o][s]
      /\ \A p \in Requests \ {q} : requests'[p] = requests[p]
      /\ settings' = settings
  BY DEF UpdateRead, IInv, TInv, TypeOK
<1>2. <<o, s>> \in Orderly => \A p \in Requests : ~Concerns(p, o, s)
  BY DEF UpdateRead, MayCall, Concerns
<1>3. OneAtATime'
  <2> SUFFICES ASSUME NEW a \in Orgs, NEW b \in Skills, <<a, b>> \in Orderly,
                      NEW p \in Requests, NEW r \in Requests,
                      Concerns(p, a, b)', Concerns(r, a, b)'
               PROVE  p = r
    BY DEF OneAtATime
  <2>1. \A x \in Requests \ {q} : Concerns(x, a, b)' => Concerns(x, a, b)
    BY <1>1 DEF Concerns
  <2>2. Concerns(q, a, b)' => a = o /\ b = s
    BY <1>1 DEF Concerns
  <2> QED
    BY <1>2, <2>1, <2>2 DEF IInv, OneAtATime
<1>4. ReadIsCurrent'
  <2> SUFFICES ASSUME NEW a \in Orgs, NEW b \in Skills, <<a, b>> \in Orderly,
                      NEW p \in Requests, Concerns(p, a, b)'
               PROVE  requests'[p].read = settings'[a][b]
    BY DEF ReadIsCurrent
  <2>1. CASE p = q
    BY <1>1, <2>1 DEF Concerns
  <2>2. CASE p # q
    <3>1. Concerns(p, a, b)
      BY <1>1, <2>2 DEF Concerns
    <3> QED
      BY <1>1, <2>2, <3>1 DEF IInv, ReadIsCurrent
  <2> QED
    BY <2>1, <2>2
<1> QED
  BY <1>3, <1>4

\* The only update under way for the switch it writes to.
LEMMA UpdateCommitInTurn ==
  ASSUME IInv, NEW q \in Requests, UpdateCommit(q)
  PROVE  OneAtATime' /\ ReadIsCurrent'
<1> PICK o \in Orgs, s \in Skills : requests[q].org = o /\ requests[q].skill = s
  BY DEF UpdateCommit, IInv, TInv, TypeOK, Update, Idle
<1>1. /\ requests'[q] = Idle
      /\ \A p \in Requests \ {q} : requests'[p] = requests[p]
      /\ \A a \in Orgs, b \in Skills :
           <<a, b>> # <<o, s>> => settings'[a][b] = settings[a][b]
  BY DEF UpdateCommit, IInv, TInv, TypeOK
<1>2. \A p \in Requests, a \in Orgs, b \in Skills :
        Concerns(p, a, b)' => p # q /\ Concerns(p, a, b)
  BY <1>1 DEF Concerns
<1>3. OneAtATime'
  BY <1>2 DEF IInv, OneAtATime
<1>4. ReadIsCurrent'
  <2> SUFFICES ASSUME NEW a \in Orgs, NEW b \in Skills, <<a, b>> \in Orderly,
                      NEW p \in Requests, Concerns(p, a, b)'
               PROVE  requests'[p].read = settings'[a][b]
    BY DEF ReadIsCurrent
  <2>1. p # q /\ Concerns(p, a, b)
    BY <1>2
  <2>2. Concerns(q, o, s)
    BY DEF Concerns, UpdateCommit
  <2>3. <<a, b>> # <<o, s>>
    BY <2>1, <2>2 DEF IInv, OneAtATime
  <2> QED
    BY <1>1, <2>1, <2>3 DEF IInv, ReadIsCurrent
<1> QED
  BY <1>3, <1>4

LEMMA Other ==
  ASSUME IInv, UNCHANGED <<settings, requests>>
  PROVE  OneAtATime' /\ ReadIsCurrent'
  BY DEF IInv, OneAtATime, ReadIsCurrent, Concerns

LEMMA InvNext == IInv /\ [Next]_vars => IInv'
<1> SUFFICES ASSUME IInv, [Next]_vars PROVE OneAtATime' /\ ReadIsCurrent'
  BY TypeNext DEF IInv
<1>1. ASSUME NEW q \in Requests, NEW o \in Orgs, NEW s \in Skills, NEW asked \in Row,
             UpdateRead(q, o, s, asked)
      PROVE  OneAtATime' /\ ReadIsCurrent'
  BY <1>1, UpdateReadInTurn
<1>2. ASSUME NEW q \in Requests, UpdateCommit(q) PROVE OneAtATime' /\ ReadIsCurrent'
  BY <1>2, UpdateCommitInTurn
<1>3. ASSUME NEW r \in Rules, CreateRule(r) \/ DeleteRule(r)
      PROVE  OneAtATime' /\ ReadIsCurrent'
  BY <1>3, Other DEF CreateRule, DeleteRule
<1>4. ASSUME NEW o \in Orgs, NEW p \in Providers, ConnectMailbox(o, p)
      PROVE  OneAtATime' /\ ReadIsCurrent'
  BY <1>4, Other DEF ConnectMailbox
<1>5. ASSUME NEW o \in Orgs, RenderProviders(o) \/ RenderSkills(o) \/ RenderVips(o)
      PROVE  OneAtATime' /\ ReadIsCurrent'
  BY <1>5, Other DEF RenderProviders, RenderSkills, RenderVips
<1>6. CASE UNCHANGED vars
  BY <1>6, Other DEF vars
<1> QED
  BY <1>1, <1>2, <1>3, <1>4, <1>5, <1>6 DEF Next

\* A request becomes idle only by its commit, which stores what it asked for.
LEMMA StepStores ==
  ASSUME IInv, [Next]_vars, NEW q \in Requests,
         requests[q] # Idle, requests'[q] = Idle,
         <<requests[q].org, requests[q].skill>> \in Orderly
  PROVE  settings'[requests[q].org][requests[q].skill] = requests[q].asked
<1>1. ASSUME NEW p \in Requests, NEW o \in Orgs, NEW s \in Skills, NEW asked \in Row,
             UpdateRead(p, o, s, asked)
      PROVE  FALSE
  <2> DEFINE u == [step |-> "write", org |-> o, skill |-> s, read |-> settings[o][s],
                   asked |-> asked]
  <2>1. u \in Update
    BY DEF IInv, TInv, TypeOK, Update
  <2>2. requests[p] = Idle /\ requests' = [requests EXCEPT ![p] = u]
    BY <1>1 DEF UpdateRead
  <2>3. u # Idle
    BY <2>1, IdleIsNoUpdate
  <2> HIDE DEF u
  <2> QED
    BY <2>2, <2>3 DEF IInv, TInv, TypeOK
<1>2. ASSUME NEW p \in Requests, UpdateCommit(p)
      PROVE  settings'[requests[q].org][requests[q].skill] = requests[q].asked
  <2>1. p = q
    BY <1>2 DEF UpdateCommit, IInv, TInv, TypeOK
  <2> PICK o \in Orgs, s \in Skills :
        /\ requests[q].org = o /\ requests[q].skill = s /\ requests[q].asked \in Row
    BY DEF IInv, TInv, TypeOK, Update
  <2>2. requests[q].read = settings[o][s] /\ settings[o][s] \in Row \union {NoRow}
    BY DEF IInv, TInv, TypeOK, ReadIsCurrent, Concerns
  <2>3. Stored(settings[o][s], requests[q].read, requests[q].asked) = requests[q].asked
    BY <2>2, StoredIsAsked
  <2>4. settings' = [settings EXCEPT ![o][s] = requests[q].asked]
    BY <1>2, <2>1, <2>3 DEF UpdateCommit
  <2> QED
    BY <2>4 DEF IInv, TInv, TypeOK
<1>3. requests' # requests
  OBVIOUS
<1> QED
  BY <1>1, <1>2, <1>3 DEF Next, vars, CreateRule, DeleteRule, ConnectMailbox,
     RenderProviders, RenderSkills, RenderVips

\* Where the updates of a switch do not overlap, an update that is answered has
\* stored the whole pair it asked for, however many other updates run.
THEOREM AnswersStored == Spec => AnswerIsStored
<1> DEFINE Whole(q) ==
      requests[q] # Idle /\ requests'[q] = Idle
         /\ <<requests[q].org, requests[q].skill>> \in Orderly
         => settings'[requests[q].org][requests[q].skill] = requests[q].asked
<1>1. IInv /\ [Next]_vars => \A q \in Requests : Whole(q)
  BY StepStores
<1>2. Spec => []IInv
  BY InvInit, InvNext, PTL DEF Spec
<1>3. IInv /\ [Next]_vars => [\A q \in Requests : Whole(q)]_vars
  BY <1>1
<1> QED
  BY <1>2, <1>3, PTL DEF Spec, AnswerIsStored
==============================================================================
