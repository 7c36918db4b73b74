----------------------------- MODULE SkillConfig -----------------------------
(***************************************************************************)
(* Skill switches and VIP rules of an org (api/v1/skill_settings.py), and   *)
(* what is made of them: the agent's configuration, rendered when its cell  *)
(* is provisioned (services/config_renderer.py).                            *)
(*                                                                         *)
(* An update reads the row, if there is one, and writes at its commit the   *)
(* columns it has changed against what it read.  Rendering reads mailboxes, *)
(* switches and rules in three statements; each sees what is committed then.*)
(***************************************************************************)
CONSTANTS
  Orgs, Skills, Providers, Requests,
  Params,          \* values of a switch's params column
  Baseline,        \* DEFAULT_ENABLED_SKILLS
  Rules, RuleOrg,  \* VIP rules and the org each is created in
  Orderly          \* switches, <<org, skill>>, whose updates do not overlap

ASSUME SkillsAssumption == Baseline \subseteq Skills /\ Orderly \subseteq Orgs \X Skills
ASSUME RulesAssumption == RuleOrg \in [Rules -> Orgs]

VARIABLES
  settings,        \* the org_skill_settings table, as committed
  rules,           \* VIP rules: not yet created, stored, or deleted
  mailboxes,       \* the providers an org has a connected mailbox of
  requests,        \* updates being served
  rendering        \* per org, the last rendering and what it has read

vars == <<settings, rules, mailboxes, requests, rendering>>

NoRow == [enabled |-> "absent"]
Row == [enabled : BOOLEAN, params : Params]
Idle == [step |-> "idle"]
Update == [step : {"write"}, org : Orgs, skill : Skills, read : Row \union {NoRow},
           asked : Row]
Nothing == [step |-> "nothing"]
Reading ==
  [step : {"providers"}, providers : SUBSET Providers]
    \union [step : {"skills"}, providers : SUBSET Providers, skills : SUBSET Skills]
Config == [step : {"rendered"}, providers : SUBSET Providers, skills : SUBSET Skills,
           vips : SUBSET Rules]

TypeOK ==
  /\ settings \in [Orgs -> [Skills -> Row \union {NoRow}]]
  /\ rules \in [Rules -> {"new", "stored", "deleted"}]
  /\ mailboxes \in [Orgs -> SUBSET Providers]
  /\ requests \in [Requests -> {Idle} \union Update]
  /\ rendering \in [Orgs -> {Nothing} \union Reading \union Config]

Init ==
  /\ settings = [o \in Orgs |-> [s \in Skills |-> NoRow]]
  /\ rules = [r \in Rules |-> "new"]
  /\ mailboxes = [o \in Orgs |-> {}]
  /\ requests = [q \in Requests |-> Idle]
  /\ rendering = [o \in Orgs |-> Nothing]

------------------------------------------------------------------------------
(* Switches. *)

MayCall(o, s) ==
  <<o, s>> \in Orderly =>
    \A q \in Requests :
      requests[q] # Idle => <<requests[q].org, requests[q].skill>> # <<o, s>>

\* upsert_skill_setting, up to the look-up of the row.
UpdateRead(q, o, s, asked) ==
  /\ requests[q] = Idle
  /\ MayCall(o, s)
  /\ requests' = [requests EXCEPT ![q] =
       [step |-> "write", org |-> o, skill |-> s, read |-> settings[o][s],
        asked |-> asked]]
  /\ UNCHANGED <<settings, rules, mailboxes, rendering>>

\* A mistake to catch: an existing row keeps its params.
SwitchOnly(row, read, asked) == [row EXCEPT !.enabled = asked.enabled]

\* The columns in which the assigned value differs from the one read.
Written(row, read, asked) ==
  [enabled |-> IF asked.enabled # read.enabled THEN asked.enabled ELSE row.enabled,
   params |-> IF asked.params # read.params THEN asked.params ELSE row.params]

\* An insert that finds the row of another first update violates uq_org_skill and
\* is rolled back.
Stored(row, read, asked) ==
  IF read = NoRow /\ row # NoRow THEN row
  ELSE IF read = NoRow THEN asked ELSE Written(row, read, asked)

UpdateCommit(q) ==
  /\ requests[q] # Idle
  /\ LET o == requests[q].org
         s == requests[q].skill
     IN settings' = [settings EXCEPT ![o][s] =
          Stored(settings[o][s], requests[q].read, requests[q].asked)]
  /\ requests' = [requests EXCEPT ![q] = Idle]
  /\ UNCHANGED <<rules, mailboxes, rendering>>

------------------------------------------------------------------------------
(* VIP rules and mailboxes: one row each, inserted or deleted by one request. *)

CreateRule(r) ==
  /\ rules[r] = "new"
  /\ rules' = [rules EXCEPT ![r] = "stored"]
  /\ UNCHANGED <<settings, mailboxes, requests, rendering>>

\* Of two that delete the same rule the later one deletes nothing.
DeleteRule(r) ==
  /\ rules[r] = "stored"
  /\ rules' = [rules EXCEPT ![r] = "deleted"]
  /\ UNCHANGED <<settings, mailboxes, requests, rendering>>

ConnectMailbox(o, p) ==
  /\ p \notin mailboxes[o]
  /\ mailboxes' = [mailboxes EXCEPT ![o] = @ \union {p}]
  /\ UNCHANGED <<settings, rules, requests, rendering>>

------------------------------------------------------------------------------
(* Rendering. *)

\* get_enabled_skill_ids
EnabledRows(o) == {s \in Skills : settings[o][s] # NoRow /\ settings[o][s].enabled}

\* A mistake to catch: the skill that every agent has counts as one of the org's.
SharedToo(o) == EnabledRows(o) \union {"_shared"}

EnabledSkills(o) == IF EnabledRows(o) = {} THEN Baseline ELSE EnabledRows(o)

VipRules(o) == {r \in Rules : rules[r] = "stored" /\ RuleOrg[r] = o}

\* get_connected_providers; without one, render_openclaw_config raises.
RenderProviders(o) ==
  /\ rendering[o] \in {Nothing} \union Config
  /\ mailboxes[o] # {}
  /\ rendering' = [rendering EXCEPT ![o] =
       [step |-> "providers", providers |-> mailboxes[o]]]
  /\ UNCHANGED <<settings, rules, mailboxes, requests>>

RenderSkills(o) ==
  /\ rendering[o].step = "providers"
  /\ rendering' = [rendering EXCEPT ![o] =
       [step |-> "skills", providers |-> rendering[o].providers,
        skills |-> EnabledSkills(o)]]
  /\ UNCHANGED <<settings, rules, mailboxes, requests>>

RenderVips(o) ==
  /\ rendering[o].step = "skills"
  /\ rendering' = [rendering EXCEPT ![o] =
       [step |-> "rendered", providers |-> rendering[o].providers,
        skills |-> rendering[o].skills, vips |-> VipRules(o)]]
  /\ UNCHANGED <<settings, rules, mailboxes, requests>>

Next ==
  \/ \E q \in Requests, o \in Orgs, s \in Skills, asked \in Row :
       UpdateRead(q, o, s, asked)
  \/ \E q \in Requests : UpdateCommit(q)
  \/ \E r \in Rules : CreateRule(r) \/ DeleteRule(r)
  \/ \E o \in Orgs, p \in Providers : ConnectMailbox(o, p)
  \/ \E o \in Orgs : RenderProviders(o) \/ RenderSkills(o) \/ RenderVips(o)

Spec == Init /\ [][Next]_vars

------------------------------------------------------------------------------
(* Properties. *)

\* An update that is answered is stored whole: where the updates of a switch
\* come one after the other, the row then holds the switch and the params that were asked
\* for, whichever of the two the request changed (upsert_skill_setting).  Of two
\* that overlap each writes the column it changed, and the row may end up as a
\* pair nobody asked for.
AnswerIsStored ==
  [][\A q \in Requests :
       requests[q] # Idle /\ requests'[q] = Idle
         /\ <<requests[q].org, requests[q].skill>> \in Orderly
         => settings'[requests[q].org][requests[q].skill] = requests[q].asked]_vars

\* The default skills are for an org that has not set any switch: the comment on
\* DEFAULT_ENABLED_SKILLS, "Baseline skills for an org with no explicit
\* OrgSkillSetting rows yet" (get_enabled_skill_ids).
BaselineOnlyUnconfigured ==
  \A o \in Orgs : (\E s \in Skills : settings[o][s] # NoRow)
    => EnabledSkills(o) = EnabledRows(o)
=============================================================================
