------------------------- MODULE ApprovalInboxProofs -------------------------
(* Theorems about ApprovalInbox, for any number of drafts, versions and tabs. *)
EXTENDS ApprovalInbox, TLAPS

------------------------------------------------------------------------------
(* Types. *)

LEMMA CallFields ==
  ASSUME TypeOK, NEW t \in Tabs, NEW d \in Drafts, calls[t][d] # NoCall
  PROVE  calls[t][d] \in Call
  BY DEF TypeOK

LEMMA NoCallIsNoCall == NoCall \notin Call
  BY DEF NoCall, Call, Posted

\* A posted review is a call, and stays one when it is answered.
LEMMA RepliesEffect ==
  ASSUME TypeOK, NEW t \in Tabs, NEW d \in Drafts, calls[t][d].phase \in Posted,
         NEW phases, phases \subseteq {"ok", "error"}, Replies(t, d, phases)
  PROVE  \E phase \in {"ok", "error"} :
           /\ calls' = [calls EXCEPT ![t][d] = [calls[t][d] EXCEPT !.phase = phase]]
           /\ calls[t][d] \in Call
           /\ [calls[t][d] EXCEPT !.phase = phase] \in Call
<1>1. calls[t][d] \in Call
  BY DEF TypeOK, NoCall, Posted
<1>2. PICK phase \in phases : calls' = [calls EXCEPT ![t][d].phase = phase]
  BY DEF Replies
<1>3. [calls[t][d] EXCEPT !.phase = phase] \in Call
  BY <1>1 DEF Call
<1> QED
  BY <1>1, <1>2, <1>3

LEMMA CallsType ==
  ASSUME TypeOK, NEW t \in Tabs, NEW d \in Drafts, NEW call \in Call \union {NoCall},
         calls' = [calls EXCEPT ![t][d] = call]
  PROVE  calls' \in [Tabs -> [Drafts -> Call \union {NoCall}]]
<1>1. calls[t] \in [Drafts -> Call \union {NoCall}]
  BY DEF TypeOK
<1>2. [calls[t] EXCEPT ![d] = call] \in [Drafts -> Call \union {NoCall}]
  BY <1>1
<1> QED
  BY <1>2 DEF TypeOK

LEMMA MailLeavesTypes ==
  ASSUME TypeOK, NEW d \in Drafts, MailLeaves(d) \/ UNCHANGED <<content, mail>>
  PROVE  content' \in [Drafts -> 0..MaxVersion] /\ mail' \subseteq Drafts \X (1..MaxVersion)
<1>1. content[d] \in 0..MaxVersion
  BY DEF TypeOK
<1>2. 0 \in 0..MaxVersion
  BY VersionAssumption
<1>3. MailLeaves(d) => content[d] \in 1..MaxVersion
  BY <1>1, VersionAssumption DEF MailLeaves
<1> QED
  BY <1>2, <1>3 DEF TypeOK, MailLeaves

LEMMA VerdictTypes ==
  ASSUME TypeOK, NEW d \in Drafts, Reviewable(d),
         NEW status \in {"sent", "failed", "rejected"}, Verdict(d, status)
  PROVE  rows' \in [Drafts -> Row \union {NoRow}]
<1>1. rows[d] \in Row
  BY DEF TypeOK, Reviewable, NoRow
<1>2. [rows[d] EXCEPT !.status = status] \in Row
  BY <1>1 DEF Row
<1>3. rows' = [rows EXCEPT ![d] = [rows[d] EXCEPT !.status = status]]
  BY DEF Verdict
<1> QED
  BY <1>2, <1>3 DEF TypeOK

LEMMA TypeInit == Init => TypeOK
  BY VersionAssumption DEF Init, TypeOK

LEMMA TypeNext == TypeOK /\ [Next]_vars => TypeOK'
<1> SUFFICES ASSUME TypeOK, [Next]_vars PROVE TypeOK'
  OBVIOUS
<1>1. ASSUME NEW d \in Drafts, CreateDraft(d) PROVE TypeOK'
  BY <1>1, VersionAssumption DEF CreateDraft, TypeOK, tabVars
<1>2. ASSUME NEW d \in Drafts, IngestDraft(d) PROVE TypeOK'
  <2>1. [status |-> "pending_review", version |-> 1] \in Row
    BY VersionAssumption DEF Row
  <2> QED
    BY <1>2, <2>1 DEF IngestDraft, TypeOK, tabVars
<1>3. ASSUME NEW d \in Drafts, UpdateDraft(d) PROVE TypeOK'
  <2>1. content[d] + 1 \in 0..MaxVersion
    BY <1>3, VersionAssumption DEF UpdateDraft
  <2> QED
    BY <1>3, <2>1 DEF UpdateDraft, TypeOK, tabVars
<1>4. ASSUME NEW t \in Tabs, Load(t) \/ Show(t) PROVE TypeOK'
  <2>1. UNCHANGED <<content, filing, rows, mail, calls>>
    BY <1>4 DEF Load, Show, provider
  <2>2. Pending \subseteq Drafts
    BY DEF Pending
  <2>3. view' \in [Tabs -> {"away", "loading", "inbox"}]
    BY <1>4 DEF Load, Show, TypeOK
  <2>4. arriving' \in [Tabs -> SUBSET Drafts]
    <3>1. PICK list \in SUBSET Drafts : arriving' = [arriving EXCEPT ![t] = list]
      BY <1>4, <2>2 DEF Load, Show
    <3> QED
      BY <3>1 DEF TypeOK
  <2>5. screen' \in [Tabs -> SUBSET Drafts] /\ expected' \in [Tabs -> SUBSET Drafts]
    <3>1. CASE UNCHANGED <<screen, expected>>
      BY <3>1 DEF TypeOK
    <3>2. CASE Show(t)
      <4>1. arriving[t] \in SUBSET Drafts
        BY DEF TypeOK
      <4>2. /\ screen' = [screen EXCEPT ![t] = arriving[t]]
            /\ expected' = [expected EXCEPT ![t] = arriving[t]]
        BY <3>2 DEF Show
      <4> QED
        BY <4>1, <4>2 DEF TypeOK
    <3> QED
      BY <1>4, <3>1, <3>2 DEF Load
  <2> QED
    BY <2>1, <2>3, <2>4, <2>5 DEF TypeOK
<1>5. ASSUME NEW t \in Tabs, Leave(t) PROVE TypeOK'
  <2> DEFINE left == [d \in Drafts |->
               IF calls[t][d] = NoCall THEN NoCall
               ELSE [calls[t][d] EXCEPT !.mounted = FALSE, !.previous = {}]]
  <2>1. \A d \in Drafts : calls[t][d] # NoCall
                          => [calls[t][d] EXCEPT !.mounted = FALSE, !.previous = {}] \in Call
    BY CallFields DEF Call
  <2>2. left \in [Drafts -> Call \union {NoCall}]
    BY <2>1
  <2>3. calls' = [calls EXCEPT ![t] = left]
    BY <1>5 DEF Leave
  <2> HIDE DEF left
  <2> QED
    BY <1>5, <2>2, <2>3 DEF Leave, TypeOK, provider
<1>6. ASSUME NEW t \in Tabs, NEW d \in Drafts, NEW asked \in Posted, Click(t, d, asked)
      PROVE  TypeOK'
  <2>1. [phase |-> asked, mounted |-> TRUE, previous |-> screen[t]] \in Call
    BY DEF TypeOK, Call
  <2>2. calls' \in [Tabs -> [Drafts -> Call \union {NoCall}]]
    BY <1>6, <2>1, CallsType DEF Click
  <2> QED
    BY <1>6, <2>2 DEF Click, TypeOK, provider
<1>7. ASSUME NEW t \in Tabs, NEW d \in Drafts, Answer(t, d) PROVE TypeOK'
  <2>1. calls[t][d] \in Call
    BY <1>7 DEF Answer, TypeOK, NoCall
  <2>2. Rollback(t, d) \subseteq Drafts
    BY <2>1 DEF Rollback, Call, TypeOK
  <2>3. calls' \in [Tabs -> [Drafts -> Call \union {NoCall}]]
    BY <1>7, CallsType DEF Answer
  <2> QED
    BY <1>7, <2>2, <2>3 DEF Answer, TypeOK, provider
<1>8. ASSUME NEW t \in Tabs, NEW d \in Drafts, calls[t][d].phase \in Posted,
             NEW phases, phases \subseteq {"ok", "error"}, Replies(t, d, phases)
      PROVE  calls' \in [Tabs -> [Drafts -> Call \union {NoCall}]]
  <2>1. PICK phase \in {"ok", "error"} :
          /\ calls' = [calls EXCEPT ![t][d] = [calls[t][d] EXCEPT !.phase = phase]]
          /\ [calls[t][d] EXCEPT !.phase = phase] \in Call
    BY <1>8, RepliesEffect
  <2> DEFINE answered == [calls[t][d] EXCEPT !.phase = phase]
  <2>2. answered \in Call \union {NoCall} /\ calls' = [calls EXCEPT ![t][d] = answered]
    BY <2>1
  <2> HIDE DEF answered
  <2> QED
    BY <2>2, CallsType
<1>9. ASSUME NEW t \in Tabs, NEW d \in Drafts, ReviewFails(t, d) PROVE TypeOK'
  <2>1. calls' \in [Tabs -> [Drafts -> Call \union {NoCall}]]
    BY <1>8, <1>9 DEF ReviewFails
  <2> QED
    BY <1>9, <2>1 DEF ReviewFails, TypeOK, provider
<1>10. ASSUME NEW t \in Tabs, NEW d \in Drafts,
              ApproveSends(t, d) \/ ApproveFails(t, d) \/ ApproveRolledBack(t, d) \/ Reject(t, d)
       PROVE  TypeOK'
  <2>1. calls' \in [Tabs -> [Drafts -> Call \union {NoCall}]]
    BY <1>8, <1>10 DEF ApproveSends, ApproveFails, ApproveRolledBack, Reject, Posted
  <2>2. content' \in [Drafts -> 0..MaxVersion] /\ mail' \subseteq Drafts \X (1..MaxVersion)
    BY <1>10, MailLeavesTypes
       DEF ApproveSends, ApproveFails, ApproveRolledBack, Reject, provider
  <2>3. rows' \in [Drafts -> Row \union {NoRow}]
    <3>1. CASE UNCHANGED rows
      BY <3>1 DEF TypeOK
    <3>2. CASE \E status \in {"sent", "failed", "rejected"} : Reviewable(d) /\ Verdict(d, status)
      BY <3>2, VerdictTypes
    <3> QED
      BY <1>10, <3>1, <3>2 DEF ApproveSends, ApproveFails, ApproveRolledBack, Reject
  <2>4. UNCHANGED <<filing, view, arriving, screen, expected>>
    BY <1>10 DEF ApproveSends, ApproveFails, ApproveRolledBack, Reject, provider
  <2> QED
    BY <2>1, <2>2, <2>3, <2>4 DEF TypeOK
<1>11. CASE UNCHANGED vars
  BY <1>11 DEF vars, provider, tabVars, TypeOK
<1> QED
  BY <1>1, <1>2, <1>3, <1>4, <1>5, <1>6, <1>7, <1>9, <1>10, <1>11 DEF Next

\* The tables, the page's state and its calls hold what they are declared to hold.
THEOREM TypeCorrect == Spec => []TypeOK
<1> QED
  BY TypeInit, TypeNext, PTL DEF Spec

------------------------------------------------------------------------------
(* The screen of a patient user. *)

OpenCall(t, d) == calls[t][d] # NoCall /\ calls[t][d].mounted

\* The page's open review is one, and only of a page that is shown.
OneOpenCall ==
  \A t \in Patient :
    /\ \A d \in Drafts : OpenCall(t, d) => view[t] = "inbox"
    /\ \A d, e \in Drafts : OpenCall(t, d) /\ OpenCall(t, e) => d = e

\* The list it has kept is the one expected, and its card is the one that is missing.
KeptIsExpected ==
  \A t \in Patient, d \in Drafts :
    OpenCall(t, d) => /\ calls[t][d].previous = expected[t]
                      /\ screen[t] = expected[t] \ {d}

SInv == TypeOK /\ OneOpenCall /\ KeptIsExpected /\ ScreenSettles

LEMMA InFlightOpen ==
  ASSUME NEW t
  PROVE  InFlight(t) = {d \in Drafts : OpenCall(t, d)}
  BY DEF InFlight, OpenCall

LEMMA ScreenInit == Init => SInv
<1> SUFFICES ASSUME Init PROVE SInv
  OBVIOUS
<1>1. \A t \in Patient, d \in Drafts : ~OpenCall(t, d)
  BY TabsAssumption DEF Init, OpenCall
<1>2. \A t \in Patient : view[t] = "away"
  BY TabsAssumption DEF Init
<1> QED
  BY <1>1, <1>2, TypeInit DEF SInv, OneOpenCall, KeptIsExpected, ScreenSettles

\* A tab that a step leaves as it was, but for the answers on their way.
SameTab(t) ==
  /\ view'[t] = view[t] /\ screen'[t] = screen[t] /\ expected'[t] = expected[t]
  /\ \A d \in Drafts :
       /\ OpenCall(t, d)' <=> OpenCall(t, d)
       /\ OpenCall(t, d) => calls'[t][d].previous = calls[t][d].previous

\* What the invariant says of one tab.
Settled(t) ==
  /\ \A d \in Drafts : OpenCall(t, d) => view[t] = "inbox"
  /\ \A d, e \in Drafts : OpenCall(t, d) /\ OpenCall(t, e) => d = e
  /\ \A d \in Drafts :
       OpenCall(t, d) => /\ calls[t][d].previous = expected[t]
                         /\ screen[t] = expected[t] \ {d}
  /\ view[t] = "inbox" /\ (\A d \in Drafts : ~OpenCall(t, d)) => screen[t] = expected[t]

LEMMA SInvByTab == SInv <=> TypeOK /\ \A t \in Patient : Settled(t)
<1>1. \A t \in Patient : InFlight(t) = {} <=> \A d \in Drafts : ~OpenCall(t, d)
  BY InFlightOpen
<1> QED
  BY <1>1 DEF SInv, OneOpenCall, KeptIsExpected, ScreenSettles, Settled

\* The same of the next state.
LEMMA SettledNext ==
  ASSUME TypeOK', \A t \in Patient : Settled(t)'
  PROVE  SInv'
<1>1. \A t \in Patient : InFlight(t)' = {d \in Drafts : OpenCall(t, d)'}
  BY DEF InFlight, OpenCall
<1>2. \A t \in Patient : InFlight(t)' = {} <=> \A d \in Drafts : ~OpenCall(t, d)'
  BY <1>1
<1> QED
  BY <1>2 DEF SInv, OneOpenCall, KeptIsExpected, ScreenSettles, Settled

LEMMA SameTabSettled ==
  ASSUME NEW t \in Tabs, Settled(t), SameTab(t)
  PROVE  Settled(t)'
  BY DEF Settled, SameTab

\* A step of one tab.
LEMMA OneTab ==
  ASSUME SInv, TypeOK', NEW t \in Tabs,
         \A u \in Tabs \ {t} : SameTab(u),
         t \in Patient => Settled(t)'
  PROVE  SInv'
<1>1. \A u \in Patient : Settled(u)
  BY SInvByTab
<1>2. \A u \in Patient : Settled(u)'
  <2> SUFFICES ASSUME NEW u \in Patient PROVE Settled(u)'
    OBVIOUS
  <2>1. u \in Tabs /\ Settled(u)
    BY <1>1, TabsAssumption
  <2>2. CASE u = t
    BY <2>2
  <2>3. CASE u # t
    <3>1. SameTab(u)
      BY <2>1, <2>3
    <3> QED
      BY <2>1, <3>1, SameTabSettled
  <2> QED
    BY <2>2, <2>3
<1> QED
  BY <1>2, SettledNext

LEMMA NoTab ==
  ASSUME SInv, TypeOK', \A u \in Tabs : SameTab(u)
  PROVE  SInv'
<1>1. \A u \in Patient : Settled(u)
  BY SInvByTab
<1>2. \A u \in Patient : Settled(u)'
  <2> SUFFICES ASSUME NEW u \in Patient PROVE Settled(u)'
    OBVIOUS
  <2>1. u \in Tabs /\ Settled(u) /\ SameTab(u)
    BY <1>1, TabsAssumption
  <2> QED
    BY <2>1, SameTabSettled
<1> QED
  BY <1>2, SettledNext

LEMMA ScreenNext == SInv /\ [Next]_vars => SInv'
<1> SUFFICES ASSUME SInv, [Next]_vars PROVE SInv'
  OBVIOUS
<1>1. TypeOK /\ TypeOK'
  BY TypeNext DEF SInv
<1>2. \A t \in Patient : Settled(t)
  BY SInvByTab
<1>3. ASSUME UNCHANGED <<view, screen, expected, calls>> PROVE SInv'
  BY <1>1, <1>3, NoTab DEF SameTab, OpenCall
<1>4. ASSUME NEW d \in Drafts, CreateDraft(d) \/ IngestDraft(d) \/ UpdateDraft(d) PROVE SInv'
  BY <1>3, <1>4 DEF CreateDraft, IngestDraft, UpdateDraft, tabVars
<1>5. ASSUME NEW t \in Tabs, Load(t) PROVE SInv'
  <2>1. /\ view[t] = "away" /\ view'[t] = "loading"
        /\ \A u \in Tabs \ {t} : view'[u] = view[u]
        /\ UNCHANGED <<screen, expected, calls>>
    BY <1>1, <1>5 DEF Load, TypeOK
  <2>2. \A u \in Tabs \ {t} : SameTab(u)
    BY <2>1 DEF SameTab, OpenCall
  <2>3. t \in Patient => \A d \in Drafts : ~OpenCall(t, d)
    BY <1>2, <2>1 DEF Settled
  <2>4. t \in Patient => Settled(t)'
    BY <2>1, <2>3 DEF Settled, OpenCall
  <2> QED
    BY <1>1, <2>2, <2>4, OneTab
<1>6. ASSUME NEW t \in Tabs, Show(t) PROVE SInv'
  <2>1. /\ view[t] = "loading" /\ screen'[t] = expected'[t]
        /\ \A u \in Tabs \ {t} :
             view'[u] = view[u] /\ screen'[u] = screen[u] /\ expected'[u] = expected[u]
        /\ UNCHANGED calls
    BY <1>1, <1>6 DEF Show, TypeOK
  <2>2. \A u \in Tabs \ {t} : SameTab(u)
    BY <2>1 DEF SameTab, OpenCall
  <2>3. t \in Patient => \A d \in Drafts : ~OpenCall(t, d)
    BY <1>2, <2>1 DEF Settled
  <2>4. t \in Patient => Settled(t)'
    BY <2>1, <2>3 DEF Settled, OpenCall
  <2> QED
    BY <1>1, <2>2, <2>4, OneTab
<1>7. ASSUME NEW t \in Tabs, Leave(t) PROVE SInv'
  <2>1. /\ view'[t] = "away"
        /\ \A u \in Tabs \ {t} :
             /\ view'[u] = view[u] /\ screen'[u] = screen[u] /\ expected'[u] = expected[u]
             /\ calls'[u] = calls[u]
    BY <1>1, <1>7 DEF Leave, TypeOK
  <2>2. \A u \in Tabs \ {t} : SameTab(u)
    BY <2>1 DEF SameTab, OpenCall
  <2>3. \A d \in Drafts : ~(OpenCall(t, d))'
    <3>1. calls'[t] = [d \in Drafts |->
            IF calls[t][d] = NoCall THEN NoCall
            ELSE [calls[t][d] EXCEPT !.mounted = FALSE, !.previous = {}]]
      BY <1>1, <1>7 DEF Leave, TypeOK
    <3>2. \A d \in Drafts : calls[t][d] # NoCall
            => [calls[t][d] EXCEPT !.mounted = FALSE, !.previous = {}].mounted = FALSE
      BY <1>1, CallFields DEF Call
    <3> QED
      BY <3>1, <3>2 DEF OpenCall
  <2>4. t \in Patient => Settled(t)'
    BY <2>1, <2>3 DEF Settled
  <2> QED
    BY <1>1, <2>2, <2>4, OneTab
<1>8. ASSUME NEW t \in Tabs, NEW d \in Drafts, NEW asked \in Posted, Click(t, d, asked)
      PROVE  SInv'
  <2> DEFINE call == [phase |-> asked, mounted |-> TRUE, previous |-> screen[t]]
  <2>1. /\ view[t] = "inbox" /\ calls[t][d] = NoCall
        /\ t \in Patient => InFlight(t) = {}
        /\ calls' = [calls EXCEPT ![t][d] = call]
        /\ screen' = [screen EXCEPT ![t] = @ \ {d}]
        /\ UNCHANGED <<view, expected>>
    BY <1>8 DEF Click
  <2>2. call \in Call /\ call.mounted /\ call.previous = screen[t]
    BY <1>1 DEF Call, TypeOK
  <2> HIDE DEF call
  <2>3. /\ calls'[t][d] = call
        /\ \A e \in Drafts \ {d} : calls'[t][e] = calls[t][e]
        /\ \A u \in Tabs \ {t} : calls'[u] = calls[u] /\ screen'[u] = screen[u]
        /\ screen'[t] = screen[t] \ {d}
    BY <1>1, <2>1 DEF TypeOK
  <2>4. \A u \in Tabs \ {t} : SameTab(u)
    BY <2>1, <2>3 DEF SameTab, OpenCall
  <2>5. t \in Patient => Settled(t)'
    <3> SUFFICES ASSUME t \in Patient PROVE Settled(t)'
      OBVIOUS
    <3>1. \A e \in Drafts : ~OpenCall(t, e)
      BY <2>1, InFlightOpen
    <3>2. screen[t] = expected[t]
      BY <1>2, <2>1, <3>1 DEF Settled
    <3>3. \A e \in Drafts : (OpenCall(t, e))' <=> e = d
      BY <2>2, <2>3, <3>1, NoCallIsNoCall DEF OpenCall
    <3> QED
      BY <2>1, <2>2, <2>3, <3>2, <3>3 DEF Settled
  <2> QED
    BY <1>1, <2>4, <2>5, OneTab
<1>9. ASSUME NEW t \in Tabs, NEW d \in Drafts, Answer(t, d) PROVE SInv'
  <2>1. calls[t][d] \in Call /\ calls[t][d] # NoCall
    BY <1>1, <1>9, NoCallIsNoCall DEF Answer, TypeOK, NoCall
  <2>2. /\ calls'[t][d] = NoCall
        /\ \A e \in Drafts \ {d} : calls'[t][e] = calls[t][e]
        /\ \A u \in Tabs \ {t} :
             calls'[u] = calls[u] /\ screen'[u] = screen[u] /\ expected'[u] = expected[u]
        /\ screen'[t] = IF calls[t][d].phase = "ok" THEN screen[t] ELSE Rollback(t, d)
        /\ expected'[t] = IF calls[t][d].phase = "ok" /\ calls[t][d].mounted
                          THEN expected[t] \ {d} ELSE expected[t]
        /\ UNCHANGED view
    BY <1>1, <1>9 DEF Answer, TypeOK
  <2>3. \A u \in Tabs \ {t} : SameTab(u)
    BY <2>2 DEF SameTab, OpenCall
  <2>4. \A e \in Drafts : (OpenCall(t, e))' <=> e # d /\ OpenCall(t, e)
    BY <2>2 DEF OpenCall
  <2>5. t \in Patient => Settled(t)'
    <3> SUFFICES ASSUME t \in Patient PROVE Settled(t)'
      OBVIOUS
    <3>1. Settled(t)
      BY <1>2
    <3>2. CASE calls[t][d].mounted
      <4>1. OpenCall(t, d)
        BY <2>1, <3>2 DEF OpenCall
      <4>2. \A e \in Drafts : ~(OpenCall(t, e))'
        BY <2>4, <3>1, <4>1 DEF Settled
      <4>3. calls[t][d].previous = expected[t] /\ screen[t] = expected[t] \ {d}
        BY <3>1, <4>1 DEF Settled
      <4>4. screen'[t] = expected'[t]
        BY <2>2, <3>2, <4>3 DEF Rollback
      <4> QED
        BY <4>2, <4>4 DEF Settled
    <3>3. CASE ~calls[t][d].mounted
      <4>1. \A e \in Drafts : (OpenCall(t, e))' <=> OpenCall(t, e)
        BY <2>4, <3>3 DEF OpenCall
      <4>2. screen'[t] = screen[t] /\ expected'[t] = expected[t]
        BY <2>2, <3>3 DEF Rollback
      <4>3. \A e \in Drafts : OpenCall(t, e) => calls'[t][e] = calls[t][e]
        BY <2>2, <3>3 DEF OpenCall
      <4> QED
        BY <2>2, <3>1, <4>1, <4>2, <4>3 DEF Settled
    <3> QED
      BY <3>2, <3>3
  <2> QED
    BY <1>1, <2>3, <2>5, OneTab
\* The queue answers; the page has not yet heard of it.
<1>10. ASSUME NEW t \in Tabs, NEW d \in Drafts,
              \/ ReviewFails(t, d) \/ ApproveSends(t, d) \/ ApproveFails(t, d)
              \/ ApproveRolledBack(t, d) \/ Reject(t, d)
       PROVE  SInv'
  <2>1. calls[t][d].phase \in Posted /\ UNCHANGED <<view, screen, expected>>
    BY <1>10 DEF ReviewFails, ApproveSends, ApproveFails, ApproveRolledBack, Reject, Posted
  <2>2. Replies(t, d, {"ok", "error"})
    BY <1>10 DEF ReviewFails, ApproveSends, ApproveFails, ApproveRolledBack, Reject, Replies
  <2>3. PICK phase \in {"ok", "error"} :
          /\ calls' = [calls EXCEPT ![t][d] = [calls[t][d] EXCEPT !.phase = phase]]
          /\ calls[t][d] \in Call
          /\ [calls[t][d] EXCEPT !.phase = phase] \in Call
    BY <1>1, <2>1, <2>2, RepliesEffect
  <2> PICK call \in Call : call = [calls[t][d] EXCEPT !.phase = phase]
    BY <2>3
  <2>4. call.mounted = calls[t][d].mounted /\ call.previous = calls[t][d].previous
    BY <2>3 DEF Call
  <2>5. /\ calls'[t][d] = call
        /\ \A e \in Drafts \ {d} : calls'[t][e] = calls[t][e]
        /\ \A u \in Tabs \ {t} : calls'[u] = calls[u]
    BY <1>1, <2>3 DEF TypeOK
  <2>6. call # NoCall /\ calls[t][d] # NoCall
    BY <2>3, NoCallIsNoCall
  <2>7. \A u \in Tabs : SameTab(u)
    BY <2>1, <2>4, <2>5, <2>6 DEF SameTab, OpenCall
  <2> QED
    BY <1>1, <2>7, NoTab
<1>11. CASE UNCHANGED vars
  BY <1>3, <1>11 DEF vars, tabVars
<1> QED
  BY <1>4, <1>5, <1>6, <1>7, <1>8, <1>9, <1>10, <1>11 DEF Next

\* Once a patient user's review is answered, the page shows what was loaded without
\* what is reviewed (approve and reject in ApprovalInbox.tsx), whatever other tabs do
\* and however answers are lost.
THEOREM ScreensSettle == Spec => []ScreenSettles
<1>1. SInv => ScreenSettles
  BY DEF SInv
<1> QED
  BY <1>1, ScreenInit, ScreenNext, PTL DEF Spec
=============================================================================
