---------------------------- MODULE AgentProofs ----------------------------
(***************************************************************************)
(* Proofs about the guard and the two that ask it.  The guard: what its    *)
(* decisions are worth, for any request and any tools registered.  The     *)
(* executor: whatever the plan, the caller, the tools and what they return,*)
(* a tool runs only after the guard cleared exactly the call that is made, *)
(* and the log heard of it first.  The conversation: whatever the queries, *)
(* the answers of the model and the requests under way together, a target  *)
(* is the one named, a reference the step meant, a confirmation the        *)
(* operation asked about.                                                  *)
(***************************************************************************)
EXTENDS ToolExecutor, GuardSession, Conversation, SequenceLemmas, TLAPS

-----------------------------------------------------------------------------
(* The levels of risk are ordered, and a joint risk is the worse of the two. *)
LEMMA RankOfMax ==
  ASSUME NEW a \in Risk, NEW b \in Risk
  PROVE  /\ MaxRisk(a, b) \in Risk
         /\ a # "low" => MaxRisk(a, b) # "low"
         /\ Rank[MaxRisk(a, b)] >= Rank[a] /\ Rank[MaxRisk(a, b)] >= Rank[b]
BY DEF Risk, MaxRisk, Rank

LEMMA RankOfMaxGrows ==
  ASSUME NEW a \in Risk, NEW b \in Risk, NEW x \in Risk, NEW y \in Risk,
         Rank[a] >= Rank[x], Rank[b] >= Rank[y]
  PROVE  Rank[MaxRisk(a, b)] >= Rank[MaxRisk(x, y)]
BY DEF Risk, MaxRisk, Rank

LEMMA RiskIsRisk ==
  ASSUME NEW t, NEW f
  PROVE  /\ ToolRisk(t) \in Risk /\ TextRisk(f) \in Risk /\ ScanRisk(t, f) \in Risk
         /\ CalculateRisk(t, f) \in Risk
<1>1. ToolRisk(t) \in Risk
  BY DeclaredAssumption DEF ToolRisk, Risk, Registered
<1>2. TextRisk(f) \in Risk /\ ScanRisk(t, f) \in Risk
  BY DEF TextRisk, ScanRisk, Risk
<1>3. QED
  BY <1>1, <1>2, RankOfMax DEF CalculateRisk

LEMMA RiskIsWorst ==
  ASSUME NEW t, NEW f
  PROVE  /\ Rank[CalculateRisk(t, f)] >= Rank[ToolRisk(t)]
         /\ Rank[CalculateRisk(t, f)] >= Rank[TextRisk(f)]
         /\ Rank[CalculateRisk(t, f)] >= Rank[ScanRisk(t, f)]
<1> DEFINE m == MaxRisk(ToolRisk(t), TextRisk(f))
<1>1. m \in Risk /\ Rank[m] >= Rank[ToolRisk(t)] /\ Rank[m] >= Rank[TextRisk(f)]
  BY RiskIsRisk, RankOfMax
<1>2. /\ Rank[CalculateRisk(t, f)] >= Rank[m]
      /\ Rank[CalculateRisk(t, f)] >= Rank[ScanRisk(t, f)]
  BY <1>1, RiskIsRisk, RankOfMax DEF CalculateRisk
<1>3. \A r \in Risk : Rank[r] \in Nat
  BY DEF Rank, Risk
<1> HIDE DEF m
<1>4. QED
  BY <1>1, <1>2, <1>3, RiskIsRisk

\* g says what f says and perhaps more, about the same call.
SaysMore(f, g) ==
  /\ f.words \subseteq g.words /\ f.mentioned \subseteq g.mentioned
  /\ f.command \in {"none", g.command}
  /\ \A n \in {"types", "safeChars", "pid", "namesProtected", "target", "service", "dryRun"} : g[n] = f[n]

LEMMA MoreSaidMoreRisk ==
  ASSUME NEW t, NEW f \in Facts, NEW g \in Facts, SaysMore(f, g)
  PROVE  Rank[CalculateRisk(t, g)] >= Rank[CalculateRisk(t, f)]
<1>1. f.words \subseteq g.words /\ g.service = f.service /\ g.target = f.target
  BY DEF SaysMore
<1>2. Rank[TextRisk(g)] >= Rank[TextRisk(f)]
  BY <1>1 DEF TextRisk, Rank
<1>3. Rank[ScanRisk(t, g)] >= Rank[ScanRisk(t, f)]
  BY <1>1 DEF ScanRisk, Rank
<1>4. Rank[ToolRisk(t)] >= Rank[ToolRisk(t)]
  BY RiskIsRisk DEF Rank, Risk
<1> DEFINE m(h) == MaxRisk(ToolRisk(t), TextRisk(h))
<1>5. Rank[m(g)] >= Rank[m(f)] /\ m(g) \in Risk /\ m(f) \in Risk
  BY <1>2, <1>4, RiskIsRisk, RankOfMaxGrows, RankOfMax
<1> HIDE DEF m
<1>6. Rank[MaxRisk(m(g), ScanRisk(t, g))] >= Rank[MaxRisk(m(f), ScanRisk(t, f))]
  BY <1>3, <1>5, RiskIsRisk, RankOfMaxGrows
<1>7. QED
  BY <1>6 DEF CalculateRisk, m

\* The risk of a request, and whether it must be confirmed
RiskOf(t, f) == IF f.command = "prohibited" THEN "prohibited" ELSE CalculateRisk(t, f)
ConfirmOf(t, f) == RiskOf(t, f) \in Confirmed /\ ~WaivedByPreview(t, f)
FailedOf(t, f, c) == FailedChecks(t, f, c, RiskOf(t, f), ConfirmOf(t, f))

LEMMA CheckIs ==
  ASSUME NEW t, NEW f, NEW c
  PROVE  /\ Check(t, f, c).risk = RiskOf(t, f)
         /\ Check(t, f, c).blocked <=> \/ FailedOf(t, f, c) # {}
                                       \/ RiskOf(t, f) \in BlockedByDefault
         /\ Check(t, f, c).failed = FailedOf(t, f, c)
         /\ RiskOf(t, f) \in Risk
<1>1. RiskOf(t, f) \in Risk
  BY RiskIsRisk DEF RiskOf, Risk
<1>2. QED
  BY <1>1 DEF Check, RiskOf, ConfirmOf, FailedOf

\* What the failed checks are
LEMMA FailedAre ==
  ASSUME NEW t, NEW f, NEW c
  PROVE  /\ FailedOf(t, f, c) # {} <=>
              \/ t \notin Registered
              \/ ~SchemaOk(t, f)
              \/ ~f.safeChars
              \/ ~ProcessOk(t, f)
              \/ ~PathOk(t, f)
              \/ f.command # "none"
              \/ ResolveRole(c) \notin AllowedRoles[RiskOf(t, f)]
              \/ ConfirmOf(t, f) /\ ~c.approved
BY DEF FailedOf, FailedChecks

LEMMA MoreSaidBlocksMore ==
  ASSUME NEW t, NEW f \in Facts, NEW g \in Facts, NEW c, SaysMore(f, g)
  PROVE  /\ Rank[Check(t, g, c).risk] >= Rank[Check(t, f, c).risk]
         /\ Check(t, f, c).blocked => Check(t, g, c).blocked
<1>1. /\ f.words \subseteq g.words /\ f.mentioned \subseteq g.mentioned
      /\ f.command \in {"none", g.command} /\ g.types = f.types
      /\ g.safeChars = f.safeChars /\ g.pid = f.pid /\ g.namesProtected = f.namesProtected
      /\ g.target = f.target /\ g.dryRun = f.dryRun
  BY DEF SaysMore
<1>2. Rank[RiskOf(t, g)] >= Rank[RiskOf(t, f)]
  <2>1. CASE g.command = "prohibited"
    <3>1. RiskOf(t, f) \in Risk /\ RiskOf(t, g) = "prohibited"
      BY <2>1, CheckIs DEF RiskOf
    <3>2. QED
      BY <3>1 DEF Rank, Risk
  <2>2. CASE g.command # "prohibited"
    <3>1. f.command # "prohibited"
      BY <1>1, <2>2
    <3>2. QED
      BY <2>2, <3>1, MoreSaidMoreRisk DEF RiskOf
  <2>3. QED
    BY <2>1, <2>2
<1>3. RiskOf(t, f) \in Risk /\ RiskOf(t, g) \in Risk
  BY CheckIs
<1>4. ~SchemaOk(t, f) => ~SchemaOk(t, g)
  BY <1>1 DEF SchemaOk
<1>5. ~ProcessOk(t, f) => ~ProcessOk(t, g)
  BY <1>1 DEF ProcessOk
<1>6. ~PathOk(t, f) => ~PathOk(t, g)
  <2>1. Candidates(t, f) \subseteq Candidates(t, g)
    BY <1>1 DEF Candidates
  <2>2. QED
    BY <1>1, <2>1 DEF PathOk
<1>7. \A r : r \notin AllowedRoles[RiskOf(t, f)] => r \notin AllowedRoles[RiskOf(t, g)]
  BY <1>2, <1>3 DEF Risk, Rank, AllowedRoles, Role
<1>8. ConfirmOf(t, f) => ConfirmOf(t, g) \/ RiskOf(t, g) \in BlockedByDefault
  BY <1>1, <1>2, <1>3 DEF ConfirmOf, WaivedByPreview, Risk, Rank, Confirmed, BlockedByDefault
<1>9. RiskOf(t, f) \in BlockedByDefault => RiskOf(t, g) \in BlockedByDefault
  BY <1>2, <1>3 DEF Risk, Rank, BlockedByDefault
<1>10. FailedOf(t, f, c) # {} => FailedOf(t, g, c) # {} \/ RiskOf(t, g) \in BlockedByDefault
  BY <1>1, <1>4, <1>5, <1>6, <1>7, <1>8, FailedAre
<1>11. QED
  BY <1>2, <1>9, <1>10, CheckIs

(* The risk of a tool that operates is at least medium, whatever the rest  *)
(* of the request says (guard.py, _calculate_risk).                        *)
LEMMA OperatingRisk ==
  ASSUME NEW t \in MediumRiskTools \cup HighRiskTools, NEW f
  PROVE  CalculateRisk(t, f) \in Risk \ {"low"}
<1>1. ToolRisk(t) \in {"medium", "high"}
  BY DEF ToolRisk, MediumRiskTools, HighRiskTools
<1>2. TextRisk(f) \in Risk /\ ScanRisk(t, f) \in Risk
  BY DEF TextRisk, ScanRisk, Risk
<1>3. MaxRisk(ToolRisk(t), TextRisk(f)) \in Risk \ {"low"}
  BY <1>1, <1>2, RankOfMax DEF Risk
<1>4. QED
  BY <1>2, <1>3, RankOfMax DEF CalculateRisk

(* The guard's answer is about the request as the endpoint made it.        *)
Answered ==
  /\ channel \in {"chat", "tool", "mcp"} /\ role \in Role /\ approved \in BOOLEAN
  /\ facts \in Facts
  /\ decision = Check(tool, Text, presented)

LEMMA NamedIsFacts ==
  ASSUME NEW f \in Facts, NEW t
  PROVE  LET spoken == [f EXCEPT !.words = @ \cup NameWords(t)]
         IN  spoken \in Facts /\ SaysMore(f, spoken) /\ SaysMore(f, f)
<1>1. NameWords(t) \subseteq Word
  BY DEF NameWords
<1> DEFINE spoken == [f EXCEPT !.words = @ \cup NameWords(t)]
<1>2. spoken \in Facts /\ SaysMore(f, spoken)
  BY <1>1 DEF Facts, SaysMore
<1>3. SaysMore(f, f)
  BY DEF SaysMore, Facts
<1>4. QED
  BY <1>2, <1>3

LEMMA TextIsFacts ==
  ASSUME facts \in Facts
  PROVE  Text \in Facts /\ SaysMore(facts, Text)
BY NamedIsFacts DEF Text

LEMMA AnsweredInit == GuardInit => Answered
<1> SUFFICES ASSUME GuardInit PROVE Answered
  OBVIOUS
<1>1. facts \in Facts
  <2> DEFINE pids == IF tool = "process.kill" THEN {"ordinary", "self"} ELSE {"none"}
             targets == IF TakesPath(tool) THEN Targets ELSE {"none"}
             dry == IF tool = "temp.clean" THEN BOOLEAN ELSE {FALSE}
  <2>1. /\ pids \subseteq {"none", "protected", "self", "ordinary"}
        /\ targets \subseteq Path \cup {"none"}
        /\ dry \subseteq BOOLEAN /\ Services \subseteq Service /\ "none" \in Command
    BY AskedAssumption DEF Command
  <2>2. facts \in [types : {"ok"}, safeChars : {TRUE}, namesProtected : {FALSE},
                   pid : pids, target : targets, mentioned : {{}}, service : Services,
                   words : {{}}, command : {"none"}, dryRun : dry]
    BY DEF GuardInit
  <2> HIDE DEF pids, targets, dry
  <2>3. QED
    BY <2>1, <2>2 DEF Facts
<1>2. QED
  BY <1>1 DEF GuardInit, Answered

LEMMA SayIsMore ==
  ASSUME facts \in Facts, Say
  PROVE  facts' \in Facts /\ SaysMore(facts, facts')
<1>1. CASE \E w \in Words : facts' = [facts EXCEPT !.words = @ \cup {w}]
  BY <1>1, AskedAssumption DEF Facts, SaysMore
<1>2. CASE \E p \in Targets \ {"none"} : facts' = [facts EXCEPT !.mentioned = @ \cup {p}]
  BY <1>2, AskedAssumption DEF Facts, SaysMore
<1>3. CASE \E c \in Commands : facts.command = "none" /\ facts' = [facts EXCEPT !.command = c]
  BY <1>3, AskedAssumption DEF Facts, SaysMore
<1>4. QED
  BY <1>1, <1>2, <1>3 DEF Say

LEMMA AnsweredStep == Answered /\ [GuardNext]_guardVars => Answered'
<1> SUFFICES ASSUME Answered, [GuardNext]_guardVars PROVE Answered'
  OBVIOUS
<1>1. CASE Approve
  BY <1>1 DEF Approve, Asks, Answered
<1>2. CASE Relogin
  BY <1>2 DEF Relogin, Asks, Answered
<1>3. CASE Say
  <2>1. facts' \in Facts
    BY <1>3, SayIsMore DEF Answered
  <2>2. QED
    BY <1>3, <2>1 DEF Say, Asks, Answered
<1>4. CASE UNCHANGED guardVars
  BY <1>4 DEF guardVars, Answered, Text, presented
<1>5. QED
  BY <1>1, <1>2, <1>3, <1>4 DEF GuardNext

LEMMA AnsweredAlways == GuardSpec => []Answered
BY AnsweredInit, AnsweredStep, PTL DEF GuardSpec
-----------------------------------------------------------------------------
LEMMA RoleOfPresented ==
  ASSUME Answered
  PROVE  ResolveRole(presented) = role
BY DEF Answered, presented, CallerOf, ResolveRole, Role

(* What passes for a viewer reads, what passes unapproved changes nothing, *)
(* and no high risk passes: for any tools registered with any risk, any    *)
(* words and any of the three ways to the guard.                           *)
THEOREM GuardedCorrect == GuardSpec => []OperationsGuarded
<1>1. Answered => OperationsGuarded
  <2> SUFFICES ASSUME Answered, ~decision.blocked PROVE OperationsGuarded
    BY DEF OperationsGuarded
  <2> DEFINE risk == RiskOf(tool, Text)
  <2>1. decision = Check(tool, Text, presented)
    BY DEF Answered
  <2>2. FailedOf(tool, Text, presented) = {} /\ risk \notin BlockedByDefault /\ risk \in Risk
    BY <2>1, CheckIs
  <2>3. risk \in {"low", "medium"} /\ Text.command = "none"
    BY <2>2, FailedAre DEF Risk, BlockedByDefault
  <2>4. /\ role \in AllowedRoles[risk]
        /\ presented.approved \/ ~ConfirmOf(tool, Text)
    BY <2>2, FailedAre, RoleOfPresented
  <2>5. risk = CalculateRisk(tool, Text)
    BY <2>3 DEF RiskOf
  <2>6. SaysMore(facts, Text)
    BY TextIsFacts DEF Answered
  <2>7. facts.target = Text.target /\ facts.dryRun = Text.dryRun /\ facts.words \subseteq Text.words
    BY <2>6 DEF SaysMore
  <2>8. tool \in MediumRiskTools \cup HighRiskTools => risk # "low"
    BY <2>5, OperatingRisk
  <2>9. ASSUME role = "viewer"
        PROVE  /\ tool \notin MediumRiskTools \cup HighRiskTools
               /\ tool \in {"disk.large_files", "disk.top_dirs"} => facts.target \in ScanSafe
    <3>1. risk = "low"
      BY <2>3, <2>4, <2>9 DEF AllowedRoles
    <3>2. Rank[ScanRisk(tool, Text)] <= 1
      BY <3>1, <2>5, RiskIsWorst DEF Rank
    <3>3. ScanRisk(tool, Text) = "low"
      BY <3>2 DEF ScanRisk, Rank
    <3>4. tool \in {"disk.large_files", "disk.top_dirs"} => Text.target \in ScanSafe
      BY <3>3 DEF ScanRisk, ReadScanTools
    <3>5. QED
      BY <3>1, <3>4, <2>7, <2>8
  <2>10. ASSUME ~presented.approved, tool \in MediumRiskTools
         PROVE  tool = "temp.clean" /\ facts.dryRun /\ facts.target = "tmp"
    <3>1. risk = "medium"
      BY <2>3, <2>8, <2>10
    <3>2. WaivedByPreview(tool, Text)
      BY <2>4, <2>10, <3>1 DEF ConfirmOf, Confirmed
    <3>3. QED
      BY <3>2, <2>7 DEF WaivedByPreview, TempSafe
  <2>11. tool \notin HighRiskTools
    <3>1. tool \in HighRiskTools => ToolRisk(tool) = "high"
      BY DEF ToolRisk, HighRiskTools, MediumRiskTools
    <3>2. QED
      BY <3>1, <2>3, <2>5, RiskIsWorst DEF Rank
  <2>12. "stop" \notin facts.words
    <3>1. "stop" \in Text.words => TextRisk(Text) = "high"
      BY DEF TextRisk, HighWords
    <3>2. QED
      BY <3>1, <2>3, <2>5, <2>7, RiskIsWorst DEF Rank
  <2>13. QED
    BY <2>9, <2>10, <2>11, <2>12 DEF OperationsGuarded
<1>2. QED
  BY <1>1, AnsweredAlways, PTL

(* An approval changes who may pass and nothing else of the answer.        *)
LEMMA ApprovedCheck ==
  ASSUME NEW t, NEW f, NEW c, NEW d, ResolveRole(d) = ResolveRole(c), d.approved
  PROVE  /\ Check(t, f, d).risk = Check(t, f, c).risk
         /\ Check(t, f, d).failed = Check(t, f, c).failed \ {"secondary_confirmation"}
         /\ Check(t, f, c).blocked /\ ~Check(t, f, d).blocked =>
              /\ Check(t, f, c).risk = "medium"
              /\ Check(t, f, c).failed = {"secondary_confirmation"}
<1>1. FailedOf(t, f, d) = FailedOf(t, f, c) \ {"secondary_confirmation"}
  BY DEF FailedOf, FailedChecks
<1>2. "secondary_confirmation" \in FailedOf(t, f, c) => ConfirmOf(t, f)
  BY DEF FailedOf, FailedChecks
<1>3. ASSUME Check(t, f, c).blocked, ~Check(t, f, d).blocked
      PROVE  RiskOf(t, f) = "medium" /\ FailedOf(t, f, c) = {"secondary_confirmation"}
  <2>1. /\ FailedOf(t, f, d) = {} /\ RiskOf(t, f) \notin BlockedByDefault
        /\ FailedOf(t, f, c) # {} /\ RiskOf(t, f) \in Risk
    BY <1>3, CheckIs
  <2>2. FailedOf(t, f, c) = {"secondary_confirmation"}
    BY <1>1, <2>1
  <2>3. RiskOf(t, f) \in Confirmed
    BY <1>2, <2>2 DEF ConfirmOf
  <2>4. QED
    BY <2>1, <2>2, <2>3 DEF Confirmed, BlockedByDefault
<1>4. QED
  BY <1>1, <1>3, CheckIs

(* An approval answers the request for confirmation and nothing else, for  *)
(* any request.                                                            *)
THEOREM ApprovalCorrect == GuardSpec => ApprovalOnlyConfirms
<1>1. Answered /\ [GuardNext]_guardVars =>
        [Approve /\ presented' # presented =>
           /\ decision'.risk = decision.risk
           /\ decision'.failed = decision.failed \ {"secondary_confirmation"}
           /\ decision.blocked /\ ~decision'.blocked =>
                decision.risk = "medium" /\ decision.failed = {"secondary_confirmation"}]_guardVars
  <2> SUFFICES ASSUME Answered, Approve, presented' # presented
               PROVE  /\ decision'.risk = decision.risk
                      /\ decision'.failed = decision.failed \ {"secondary_confirmation"}
                      /\ decision.blocked /\ ~decision'.blocked =>
                           /\ decision.risk = "medium"
                           /\ decision.failed = {"secondary_confirmation"}
    OBVIOUS
  <2>1. /\ decision = Check(tool, Text, presented)
        /\ decision' = Check(tool, Text, presented')
    BY DEF Answered, Approve, Asks, Text
  <2>2. /\ UNCHANGED <<channel, role>> /\ approved = FALSE /\ approved' = TRUE
    BY DEF Approve, Asks, Answered
  <2>3. presented' = CallerOf(channel, role, TRUE) /\ presented = CallerOf(channel, role, FALSE)
    BY <2>2 DEF presented
  <2>4. presented'.approved
    BY <2>3 DEF CallerOf
  <2>5. ResolveRole(presented') = ResolveRole(presented)
    BY <2>3 DEF ResolveRole, CallerOf
  <2>6. QED
    BY <2>1, <2>4, <2>5, ApprovedCheck
<1>2. QED
  BY <1>1, AnsweredAlways, PTL DEF GuardSpec, ApprovalOnlyConfirms

(* However much more a query says, in whatever order, the risk found never *)
(* falls and what was blocked stays blocked.                               *)
THEOREM TalkCorrect == GuardSpec => TalkNeverUnblocks
<1>1. Answered /\ [GuardNext]_guardVars =>
        [Say => /\ Rank[decision'.risk] >= Rank[decision.risk]
                /\ decision.blocked => decision'.blocked]_guardVars
  <2> SUFFICES ASSUME Answered, Say
               PROVE  /\ Rank[decision'.risk] >= Rank[decision.risk]
                      /\ decision.blocked => decision'.blocked
    OBVIOUS
  <2>1. /\ decision = Check(tool, Text, presented)
        /\ decision' = Check(tool, Text', presented)
    BY DEF Answered, Say, Asks, presented
  <2>2. facts \in Facts /\ facts' \in Facts /\ SaysMore(facts, facts')
    BY SayIsMore DEF Answered
  <2>3. UNCHANGED <<channel, tool>>
    BY DEF Say, Asks
  <2>4. Text \in Facts /\ Text' \in Facts
    BY <2>2, <2>3, NamedIsFacts DEF Text
  <2>5. SaysMore(Text, Text')
    BY <2>2, <2>3 DEF SaysMore, Text, Facts
  <2>6. QED
    BY <2>1, <2>4, <2>5, MoreSaidBlocksMore
<1>2. QED
  BY <1>1, AnsweredAlways, PTL DEF GuardSpec, TalkNeverUnblocks
-----------------------------------------------------------------------------
(* Nothing the guard lets pass without an approval changes the system:     *)
(* only the preview of temp.clean is waived (guard.py,                     *)
(* _confirmation_waived_by_preview).                                       *)
LEMMA ClearedIsHarmless ==
  ASSUME NEW c, ~c.approved, NEW r, ~Check(r.tool, r.facts, c).blocked
  PROVE  ~Changes(r)
<1> SUFFICES ASSUME Changes(r) PROVE FALSE
  OBVIOUS
<1> DEFINE risk == IF r.facts.command = "prohibited" THEN "prohibited"
                   ELSE CalculateRisk(r.tool, r.facts)
           confirm == risk \in Confirmed /\ ~WaivedByPreview(r.tool, r.facts)
           failed == FailedChecks(r.tool, r.facts, c, risk, confirm)
<1>1. failed = {} /\ risk \notin BlockedByDefault
  BY DEF Check
<1>2. risk \in Risk \ {"low"}
  BY OperatingRisk DEF Changes, Risk
<1>3. ~WaivedByPreview(r.tool, r.facts)
  BY DEF Changes, WaivedByPreview
<1>4. confirm
  BY <1>1, <1>2, <1>3 DEF Risk, Confirmed, BlockedByDefault
<1> HIDE DEF risk, confirm
<1>5. "secondary_confirmation" \in failed
  BY <1>4 DEF FailedChecks
<1>6. QED
  BY <1>1, <1>5
-----------------------------------------------------------------------------
\* A log holds event e
Holds(log, e) == \E n \in DOMAIN log : log[n] = e
Passed(id) == Event("security_validation", "passed", id)
Started(id) == Event("tool_call", "started", id)

AreSeqs == IsSeq(decisions) /\ IsSeq(ran) /\ IsSeq(audit)

\* The step that is judged, and the steps until its tool is called
Allowed == ~Check(plan[i].tool, args, caller).blocked
Judged == pc = "judged" => /\ decisions # <<>>
                           /\ ~LastBlocked => /\ decisions[Len(decisions)].step = plan[i].id
                                              /\ Allowed
Ready == pc \in {"cleared", "calling"} => Allowed
Told == FailClosed /\ Traced => /\ pc \in {"cleared", "calling"} => Holds(audit, Passed(plan[i].id))
                                /\ pc = "calling" => Holds(audit, Started(plan[i].id))

(* The inductive invariant: from the judgement of a step until its call,   *)
(* the guard's answer is about the very arguments the tool is called with, *)
(* and the log holds what it must hold before the call.                    *)
IInv == AreSeqs /\ Judged /\ Ready /\ Told /\ OnlyCleared /\ AuditedBeforeRun

LEMMA InitIInv == Init => IInv
<1> SUFFICES ASSUME Init PROVE IInv
  OBVIOUS
<1>1. AreSeqs
  BY DEF Init, AreSeqs, IsSeq
<1>2. OnlyCleared /\ AuditedBeforeRun
  BY DEF Init, OnlyCleared, AuditedBeforeRun
<1>3. QED
  BY <1>1, <1>2 DEF Init, IInv, Judged, Ready, Told

\* What is stored stays, and what is stored now is there.
LEMMA StoreKeeps ==
  ASSUME AreSeqs, NEW e, NEW then, Store(e, then)
  PROVE  /\ IsSeq(audit)'
         /\ \A x : Holds(audit, x) => Holds(audit', x)
         /\ FailClosed /\ pc' # "raised" => Holds(audit', e)
         /\ pc' \in {"raised", then}
<1>1. CASE audit' = Append(audit, e) /\ pc' = then
  BY <1>1, AppendSeq DEF AreSeqs, Holds
<1>2. CASE UNCHANGED audit /\ pc' = IF FailClosed THEN "raised" ELSE then
  BY <1>2 DEF AreSeqs, Holds
<1>3. QED
  BY <1>1, <1>2 DEF Store

LEMMA StoreIfTracedKeeps ==
  ASSUME AreSeqs, NEW e, NEW then, StoreIfTraced(e, then)
  PROVE  /\ IsSeq(audit)'
         /\ \A x : Holds(audit, x) => Holds(audit', x)
         /\ FailClosed /\ Traced /\ pc' # "raised" => Holds(audit', e)
         /\ pc' \in {"raised", then}
<1>1. CASE Traced
  BY <1>1, StoreKeeps DEF StoreIfTraced
<1>2. CASE ~Traced
  BY <1>2 DEF StoreIfTraced, AreSeqs, Holds
<1>3. QED
  BY <1>1, <1>2

\* Steps that call no tool keep what is known of the calls made.
LEMMA RanKept ==
  ASSUME OnlyCleared, AuditedBeforeRun, UNCHANGED <<ran, caller>>,
         \A x : Holds(audit, x) => Holds(audit', x)
  PROVE  OnlyCleared' /\ AuditedBeforeRun'
<1>1. OnlyCleared'
  BY DEF OnlyCleared
<1>2. AuditedBeforeRun <=>
        (FailClosed /\ Traced => \A k \in DOMAIN ran : Holds(audit, Passed(ran[k].id))
                                                      /\ Holds(audit, Started(ran[k].id)))
  BY DEF AuditedBeforeRun, Holds, Passed, Started
<1>3. AuditedBeforeRun' <=>
        (FailClosed /\ Traced => \A k \in DOMAIN ran : Holds(audit', Passed(ran[k].id))
                                                      /\ Holds(audit', Started(ran[k].id)))
  BY DEF AuditedBeforeRun, Holds, Passed, Started
<1>4. QED
  BY <1>1, <1>2, <1>3

LEMMA StartStep ==
  ASSUME IInv, Start
  PROVE  IInv'
<1>1. UNCHANGED <<plan, caller, i, args, ran, audit>> /\ pc' \in {"judged", "closing", "step"}
  BY DEF Start
<1>2. pc' = "judged" => decisions' = <<Duplicated(plan)>>
  BY DEF Start
<1>3. pc' # "judged" => decisions' = decisions
  BY DEF Start
<1>4. IsSeq(decisions)'
  <2>1. <<Duplicated(plan)>> \in Seq({Duplicated(plan)})
    OBVIOUS
  <2>2. IsSeq(<<Duplicated(plan)>>)
    BY <2>1, SeqIsSeq
  <2>3. QED
    BY <1>2, <1>3, <2>2 DEF IInv, AreSeqs
<1>5. AreSeqs'
  BY <1>1, <1>4 DEF IInv, AreSeqs
<1>6. Judged'
  <2>1. Duplicated(plan).blocked = TRUE
    BY DEF Duplicated, Refused
  <2>2. pc' = "judged" => decisions' # <<>> /\ LastBlocked'
    BY <1>2, <2>1 DEF LastBlocked
  <2>3. QED
    BY <2>2 DEF Judged
<1>7. OnlyCleared' /\ AuditedBeforeRun'
  BY <1>1, RanKept DEF IInv, Holds
<1>8. QED
  BY <1>1, <1>5, <1>6, <1>7 DEF IInv, Ready, Told

LEMMA JudgeStep ==
  ASSUME IInv, Judge
  PROVE  IInv'
<1>1. UNCHANGED <<plan, caller, i, ran, audit>> /\ pc' = "judged"
  BY DEF Judge
<1>2. PICK d : /\ decisions' = Append(decisions, d)
               /\ \/ d = Decided(plan[i], args')
                  \/ d = Refused(plan[i])
  BY DEF Judge
<1>3. /\ IsSeq(decisions)' /\ Len(decisions') = Len(decisions) + 1 /\ Len(decisions) \in Nat
      /\ decisions'[Len(decisions')] = d
  <2>1. /\ IsSeq(decisions)' /\ DOMAIN decisions' = 1..(Len(decisions) + 1)
        /\ Len(decisions) \in Nat /\ decisions'[Len(decisions) + 1] = d
    BY <1>2, AppendSeq DEF IInv, AreSeqs
  <2>2. Len(decisions') \in Nat /\ DOMAIN decisions' = 1..Len(decisions')
    BY <2>1 DEF IsSeq
  <2>3. Len(decisions') = Len(decisions) + 1
    BY <2>1, <2>2
  <2>4. QED
    BY <2>1, <2>3
<1>4. AreSeqs'
  BY <1>1, <1>3 DEF IInv, AreSeqs
<1>5. Judged'
  <2>1. decisions' # <<>>
    BY <1>3
  <2>2. ~d.blocked => d.step = plan[i].id /\ ~Check(plan[i].tool, args', caller).blocked
    BY <1>2 DEF Decided, Refused
  <2>3. QED
    BY <1>1, <1>3, <2>1, <2>2 DEF Judged, LastBlocked, Allowed
<1>6. OnlyCleared' /\ AuditedBeforeRun'
  BY <1>1, RanKept DEF IInv, Holds
<1>7. QED
  BY <1>1, <1>4, <1>5, <1>6 DEF IInv, Ready, Told

LEMMA AuditDecisionStep ==
  ASSUME IInv, AuditDecision
  PROVE  IInv'
<1> DEFINE d == decisions[Len(decisions)]
           e == Event("security_validation", IF d.blocked THEN "blocked" ELSE "passed", d.step)
           then == IF d.blocked THEN "closing" ELSE "cleared"
<1>1. /\ UNCHANGED <<plan, caller, i, args, decisions, ran>> /\ pc = "judged"
      /\ StoreIfTraced(e, then)
  BY DEF AuditDecision
<1>2. /\ IsSeq(audit)' /\ \A x : Holds(audit, x) => Holds(audit', x)
      /\ FailClosed /\ Traced /\ pc' # "raised" => Holds(audit', e)
      /\ pc' \in {"raised", then}
  BY <1>1, StoreIfTracedKeeps DEF IInv
<1>3. pc' = "cleared" => ~d.blocked /\ e = Passed(plan[i].id) /\ Allowed
  BY <1>1, <1>2 DEF IInv, Judged, LastBlocked, Passed
<1> HIDE DEF e
<1>4. pc' \in {"raised", "closing", "cleared"}
  BY <1>2
<1>5. AreSeqs'
  BY <1>1, <1>2 DEF IInv, AreSeqs
<1>6. Ready' /\ Judged'
  BY <1>1, <1>3, <1>4 DEF Ready, Judged, Allowed
<1>7. Told'
  <2>1. FailClosed /\ Traced /\ pc' = "cleared" => Holds(audit', Passed(plan[i].id))
    BY <1>2, <1>3
  <2>2. QED
    BY <1>1, <1>4, <2>1 DEF Told, Holds, Passed, Started, Event
<1>8. OnlyCleared' /\ AuditedBeforeRun'
  BY <1>1, <1>2, RanKept DEF IInv
<1>9. QED
  BY <1>5, <1>6, <1>7, <1>8 DEF IInv

LEMMA AuditStartStep ==
  ASSUME IInv, AuditStart
  PROVE  IInv'
<1>1. /\ UNCHANGED <<plan, caller, i, args, decisions, ran>> /\ pc = "cleared"
      /\ StoreIfTraced(Started(plan[i].id), "calling")
  BY DEF AuditStart, Started
<1>2. /\ IsSeq(audit)' /\ \A x : Holds(audit, x) => Holds(audit', x)
      /\ FailClosed /\ Traced /\ pc' # "raised" => Holds(audit', Started(plan[i].id))
      /\ pc' \in {"raised", "calling"}
  BY <1>1, StoreIfTracedKeeps DEF IInv
<1>3. AreSeqs'
  BY <1>1, <1>2 DEF IInv, AreSeqs
<1>4. Ready' /\ Judged'
  BY <1>1, <1>2 DEF IInv, Ready, Judged, Allowed
<1>5. Told'
  <2>1. FailClosed /\ Traced /\ pc' = "calling" =>
          Holds(audit', Passed(plan[i].id)) /\ Holds(audit', Started(plan[i].id))
    BY <1>1, <1>2 DEF IInv, Told
  <2>2. QED
    BY <1>1, <1>2, <2>1 DEF Told, Holds, Passed, Started, Event
<1>6. OnlyCleared' /\ AuditedBeforeRun'
  BY <1>1, <1>2, RanKept DEF IInv
<1>7. QED
  BY <1>3, <1>4, <1>5, <1>6 DEF IInv

\* The registry is called for what was judged, and the log knows.
LEMMA InvokedKeeps ==
  ASSUME IInv, Invoked, UNCHANGED <<caller, audit>>
  PROVE  IsSeq(ran)' /\ OnlyCleared' /\ AuditedBeforeRun'
<1> DEFINE c == [tool |-> plan[i].tool, id |-> plan[i].id, facts |-> args]
<1>1. ran' = Append(ran, c) /\ pc = "calling"
  BY DEF Invoked
<1>2. /\ IsSeq(ran') /\ DOMAIN ran' = 1..(Len(ran) + 1) /\ DOMAIN ran = 1..Len(ran)
      /\ Len(ran) \in Nat /\ ran'[Len(ran) + 1] = c
      /\ \A k \in DOMAIN ran : ran'[k] = ran[k]
  BY <1>1, AppendSeq DEF IInv, AreSeqs
<1>3. \A k \in DOMAIN ran' : (k \in DOMAIN ran /\ ran'[k] = ran[k]) \/ ran'[k] = c
  BY <1>2
<1>4. ~Check(c.tool, c.facts, caller).blocked
  BY <1>1 DEF IInv, Ready, Allowed
<1>5. FailClosed /\ Traced => Holds(audit, Passed(c.id)) /\ Holds(audit, Started(c.id))
  BY <1>1 DEF IInv, Told
<1> HIDE DEF c
<1>6. OnlyCleared'
  BY <1>3, <1>4 DEF IInv, OnlyCleared
<1>7. AuditedBeforeRun'
  <2>1. AuditedBeforeRun <=>
          (FailClosed /\ Traced => \A k \in DOMAIN ran : Holds(audit, Passed(ran[k].id))
                                                        /\ Holds(audit, Started(ran[k].id)))
    BY DEF AuditedBeforeRun, Holds, Passed, Started
  <2>2. AuditedBeforeRun' <=>
          (FailClosed /\ Traced => \A k \in DOMAIN ran' : Holds(audit, Passed(ran'[k].id))
                                                         /\ Holds(audit, Started(ran'[k].id)))
    BY DEF AuditedBeforeRun, Holds, Passed, Started
  <2>3. QED
    BY <1>3, <1>5, <2>1, <2>2 DEF IInv
<1>8. QED
  BY <1>2, <1>6, <1>7

LEMMA CallStep ==
  ASSUME IInv, Call \/ CallRaises
  PROVE  IInv'
<1>1. /\ UNCHANGED <<plan, caller, i, args, decisions, audit>> /\ Invoked
      /\ pc' \in {"called", "raised"}
  BY DEF Call, CallRaises
<1>2. IsSeq(ran)' /\ OnlyCleared' /\ AuditedBeforeRun'
  BY <1>1, InvokedKeeps
<1>3. QED
  BY <1>1, <1>2 DEF IInv, AreSeqs, Judged, Ready, Told

LEMMA AuditDoneStep ==
  ASSUME IInv, AuditDone
  PROVE  IInv'
<1>1. PICK e, then :
        /\ UNCHANGED <<plan, caller, args, decisions, ran>>
        /\ StoreIfTraced(e, then) /\ then \in {"closing", "step"}
  BY DEF AuditDone
<1>2. /\ IsSeq(audit)' /\ \A x : Holds(audit, x) => Holds(audit', x)
      /\ pc' \in {"raised", then}
  BY <1>1, StoreIfTracedKeeps DEF IInv
<1>3. OnlyCleared' /\ AuditedBeforeRun'
  BY <1>1, <1>2, RanKept DEF IInv
<1>4. QED
  BY <1>1, <1>2, <1>3 DEF IInv, AreSeqs, Judged, Ready, Told

LEMMA CloseStep ==
  ASSUME IInv, Close
  PROVE  IInv'
<1>1. PICK e : UNCHANGED <<plan, caller, i, args, decisions, ran>> /\ Store(e, "returned")
  BY DEF Close
<1>2. /\ IsSeq(audit)' /\ \A x : Holds(audit, x) => Holds(audit', x)
      /\ pc' \in {"raised", "returned"}
  BY <1>1, StoreKeeps DEF IInv
<1>3. OnlyCleared' /\ AuditedBeforeRun'
  BY <1>1, <1>2, RanKept DEF IInv
<1>4. QED
  BY <1>1, <1>2, <1>3 DEF IInv, AreSeqs, Judged, Ready, Told

LEMMA IInvStep == IInv /\ [Next]_vars => IInv'
<1> SUFFICES ASSUME IInv, [Next]_vars PROVE IInv'
  OBVIOUS
<1>1. CASE UNCHANGED vars
  <2>1. OnlyCleared' /\ AuditedBeforeRun'
    BY <1>1, RanKept DEF vars, IInv
  <2>2. AreSeqs'
    BY <1>1 DEF vars, IInv, AreSeqs
  <2>3. QED
    BY <1>1, <2>1, <2>2 DEF vars, IInv, Judged, LastBlocked, Ready, Told, Allowed,
                            Holds, Passed, Started, Event
<1>2. QED
  BY <1>1, StartStep, JudgeStep, AuditDecisionStep, AuditStartStep, CallStep,
     AuditDoneStep, CloseStep DEF Next

\* The inductive invariant holds in every reachable state.
THEOREM Invariance == Spec => []IInv
<1>1. Init => IInv
  BY InitIInv
<1>2. IInv /\ [Next]_vars => IInv'
  BY IInvStep
<1>3. QED
  BY <1>1, <1>2, PTL DEF Spec

(* What a tool is called with is what the guard cleared, for any plan, any *)
(* references and whatever earlier tools returned.                         *)
THEOREM ClearedCorrect == Spec => []OnlyCleared
<1>1. IInv => OnlyCleared
  BY DEF IInv
<1>2. QED
  BY <1>1, Invariance, PTL

(* Fail-closed, the log holds the decision and the start of a call before  *)
(* its tool runs, whichever appends to the log fail.                       *)
THEOREM AuditedCorrect == Spec => []AuditedBeforeRun
<1>1. IInv => AuditedBeforeRun
  BY DEF IInv
<1>2. QED
  BY <1>1, Invariance, PTL

(* Without an approval a request changes nothing, whatever tools are       *)
(* registered with whatever risk, whatever the plan and the texts say.     *)
THEOREM UnapprovedCorrect == Spec => []UnapprovedChangesNothing
<1>1. IInv => UnapprovedChangesNothing
  <2> SUFFICES ASSUME IInv, ~caller.approved, NEW k \in DOMAIN ran PROVE ~Changes(ran[k])
    BY DEF UnapprovedChangesNothing
  <2>1. ~Check(ran[k].tool, ran[k].facts, caller).blocked
    BY DEF IInv, OnlyCleared
  <2>2. QED
    BY <2>1, ClearedIsHarmless
<1>2. QED
  BY <1>1, Invariance, PTL
-----------------------------------------------------------------------------
(* Where execute is in the plan: at step i the i - 1 steps before it have  *)
(* run, and none of them was blocked; at the end the last step was blocked,*)
(* failed, or was the last of the plan.                                    *)
Place ==
  /\ plan \in Plan
  /\ pc \in {"start", "step", "judged", "cleared", "calling", "called", "closing", "returned",
             "raised"}
  /\ pc = "start" => i = 1 /\ Len(ran) = 0 /\ decisions = <<>>
  /\ pc \in {"step", "judged", "cleared", "calling"} => i \in DOMAIN plan /\ Len(ran) = i - 1
  /\ pc = "called" => i \in DOMAIN plan /\ Len(ran) = i
  /\ pc \in {"step", "cleared", "calling", "called"} => ~LastBlocked
  /\ pc \in {"closing", "returned"} =>
       \/ LastBlocked /\ i \in DOMAIN plan /\ Len(ran) = i - 1
       \/ ~LastBlocked /\ plan = <<>> /\ Len(ran) = 0
       \/ ~LastBlocked /\ i \in DOMAIN plan /\ Len(ran) = i /\ (Failure \/ i = Len(plan))

LEMMA PlanSeq ==
  ASSUME NEW p \in Plan
  PROVE  /\ Len(p) \in Nat /\ DOMAIN p = 1..Len(p)
         /\ \A k \in DOMAIN p : p[k] \in Step
         /\ p # <<>> => 1 \in DOMAIN p
<1>1. PICK m \in 0..MaxSteps : p \in [1..m -> Template]
  BY DEF Plan
<1>2. m \in Nat /\ p \in Seq(Template) /\ Len(p) = m /\ DOMAIN p = 1..m
  BY <1>1
<1>3. QED
  BY <1>1, <1>2, TemplateAssumption

\* Where the steps that write to the log lead
LEMMA StoreLeads ==
  ASSUME NEW e, NEW then, Store(e, then) \/ StoreIfTraced(e, then)
  PROVE  pc' \in {"raised", then}
BY DEF Store, StoreIfTraced

LEMMA PlaceStep == IInv /\ Place /\ [Next]_vars => Place'
<1> SUFFICES ASSUME IInv, Place, [Next]_vars PROVE Place'
  OBVIOUS
<1>1. Len(plan) \in Nat /\ DOMAIN plan = 1..Len(plan) /\ Len(ran) \in Nat
  BY PlanSeq, AppendSeq DEF Place, IInv, AreSeqs
<1>2. CASE Start
  <2>1. pc = "start" /\ i = 1 /\ Len(ran) = 0 /\ decisions = <<>> /\ UNCHANGED <<plan, i, ran>>
    BY <1>2 DEF Start, Place
  <2>2. CASE DuplicateId(plan)
    <3>1. pc' = "judged" /\ 1 \in DOMAIN plan
      BY <1>1, <1>2, <2>2 DEF Start, DuplicateId
    <3>2. QED
      BY <2>1, <3>1 DEF Place
  <2>3. CASE ~DuplicateId(plan)
    <3>1. /\ pc' = (IF plan = <<>> THEN "closing" ELSE "step")
          /\ decisions' = decisions
      BY <1>2, <2>3 DEF Start
    <3>2. ~LastBlocked'
      BY <2>1, <3>1 DEF LastBlocked
    <3>3. plan # <<>> => 1 \in DOMAIN plan
      BY PlanSeq DEF Place
    <3>4. QED
      BY <2>1, <3>1, <3>2, <3>3 DEF Place
  <2>4. QED
    BY <2>2, <2>3
<1>3. CASE Judge
  BY <1>3 DEF Judge, Place
<1>4. CASE AuditDecision
  <2>1. /\ pc = "judged" /\ UNCHANGED <<plan, i, ran, decisions>>
        /\ pc' \in {"raised", IF decisions[Len(decisions)].blocked THEN "closing" ELSE "cleared"}
    BY <1>4, StoreLeads DEF AuditDecision
  <2>2. decisions # <<>>
    BY <2>1 DEF IInv, Judged
  <2>3. LastBlocked' <=> decisions[Len(decisions)].blocked
    BY <2>1, <2>2 DEF LastBlocked
  <2>4. QED
    BY <2>1, <2>3 DEF Place
<1>5. CASE AuditStart
  <2>1. /\ pc = "cleared" /\ UNCHANGED <<plan, i, ran, decisions>>
        /\ pc' \in {"raised", "calling"}
    BY <1>5, StoreLeads DEF AuditStart
  <2>2. QED
    BY <2>1 DEF Place, LastBlocked
<1>6. CASE Call \/ CallRaises
  <2>1. /\ pc = "calling" /\ UNCHANGED <<plan, i, decisions>> /\ pc' \in {"called", "raised"}
        /\ \E e : ran' = Append(ran, e)
    BY <1>6 DEF Call, CallRaises, Invoked
  <2>2. Len(ran') = Len(ran) + 1
    BY <2>1, AppendSeq DEF IInv, AreSeqs
  <2>3. QED
    BY <1>1, <2>1, <2>2 DEF Place, LastBlocked
<1>7. CASE AuditDone
  <2>1. /\ pc = "called" /\ UNCHANGED <<plan, ran, decisions, outputs>>
        /\ pc' \in {"raised", IF Failure \/ i = Len(plan) THEN "closing" ELSE "step"}
        /\ i' = IF pc' = "step" THEN i + 1 ELSE i
    BY <1>7, StoreLeads DEF AuditDone
  <2>2. i \in DOMAIN plan /\ Len(ran) = i /\ ~LastBlocked
    BY <2>1 DEF Place
  <2>3. ~LastBlocked'
    BY <2>1, <2>2 DEF LastBlocked
  <2>4. CASE Failure \/ i = Len(plan)
    <3>1. pc' \in {"raised", "closing"} /\ i' = i
      BY <2>1, <2>4
    <3>2. Failure' <=> Failure
      BY <2>1, <3>1 DEF Failure
    <3>3. QED
      BY <2>1, <2>2, <2>3, <2>4, <3>1, <3>2 DEF Place
  <2>5. CASE ~(Failure \/ i = Len(plan))
    <3>1. pc' = "raised" \/ (pc' = "step" /\ i' = i + 1)
      BY <2>1, <2>5
    <3>2. i + 1 \in DOMAIN plan
      BY <1>1, <2>2, <2>5
    <3>3. QED
      BY <1>1, <2>1, <2>2, <2>3, <3>1, <3>2 DEF Place
  <2>6. QED
    BY <2>4, <2>5
<1>8. CASE Close
  <2>1. /\ pc = "closing" /\ UNCHANGED <<plan, i, ran, decisions, outputs>>
        /\ pc' \in {"raised", "returned"}
    BY <1>8, StoreLeads DEF Close
  <2>2. QED
    BY <2>1 DEF Place, LastBlocked, Failure
<1>9. CASE UNCHANGED vars
  BY <1>9 DEF vars, Place, LastBlocked, Failure
<1>10. QED
  BY <1>2, <1>3, <1>4, <1>5, <1>6, <1>7, <1>8, <1>9 DEF Next

-----------------------------------------------------------------------------
(* What is called is the plan: every call made is the step at its place,   *)
(* with the plan's own arguments when they hold no reference; a block      *)
(* comes from an id used twice, from a reference, or from a step the       *)
(* preview blocks as well.                                                 *)
Fits(f, s) == /\ f.dryRun = s.facts.dryRun
              /\ s.form = "none" => f = Coerced(s.tool, s.facts)
AsPlanned ==
  /\ pc = "judged" /\ ~LastBlocked => Fits(args, plan[i])
  /\ pc \in {"cleared", "calling"} => Fits(args, plan[i])
  /\ \A k \in DOMAIN ran : /\ ran[k].id = plan[k].id /\ ran[k].tool = plan[k].tool
                           /\ Fits(ran[k].facts, plan[k])
  /\ pc \in {"judged", "closing", "returned"} /\ LastBlocked =>
       DuplicateId(plan) \/ plan[i].form # "none" \/ Evaluated(plan)[i].blocked

\* The reply says how the chain ended.
Reply == [status |-> ChainStatus, commands |-> commands,
          approvedRequired |-> /\ LastBlocked /\ ~caller.approved
                               /\ decisions[Len(decisions)].confirm]
Replied == reply = IF pc = "returned" THEN Reply ELSE NoReply

\* Resolving and coercing touches neither dry runs nor arguments without references.
LEMMA ResolvedFits ==
  ASSUME NEW s \in Step, NEW out
  PROVE  Fits(Coerced(s.tool, Resolved(s, out)), s)
<1> DEFINE r == Resolved(s, out)
<1>1. s.facts \in Facts /\ s.form \in {"none", "whole", "partial"}
  BY DEF Step
<1>2. "dryRun" \in DOMAIN r /\ r.dryRun = s.facts.dryRun /\ (s.form = "none" => r = s.facts)
  <2>1. CASE s.form = "none"
    BY <1>1, <2>1 DEF Resolved, Facts
  <2>2. CASE s.form = "partial"
    BY <1>1, <2>2 DEF Resolved, Facts
  <2>3. CASE s.form = "whole"
    BY <1>1, <2>3 DEF Resolved, Facts
  <2>4. QED
    BY <1>1, <2>1, <2>2, <2>3
<1> HIDE DEF r
<1>3. Coerced(s.tool, r).dryRun = r.dryRun
  BY <1>2 DEF Coerced
<1>4. QED
  BY <1>2, <1>3 DEF Fits, r

LEMMA JudgeAsPlanned ==
  ASSUME IInv, Place, AsPlanned, Judge
  PROVE  AsPlanned'
<1>1. /\ pc = "step" /\ pc' = "judged" /\ UNCHANGED <<plan, caller, i, ran>>
      /\ i \in DOMAIN plan /\ plan[i] \in Step
  BY PlanSeq DEF Judge, Place
<1>2. PICK d : decisions' = Append(decisions, d) /\
        \/ /\ args' = Coerced(plan[i].tool, Resolved(plan[i], outputs))
           /\ d = Decided(plan[i], args')
        \/ ~Resolvable(plan[i], outputs) /\ d = Refused(plan[i])
  BY DEF Judge
<1>3. LastBlocked' <=> d.blocked
  BY <1>2, AppendSeq DEF IInv, AreSeqs, LastBlocked
<1>4. CASE /\ args' = Coerced(plan[i].tool, Resolved(plan[i], outputs))
           /\ d = Decided(plan[i], args')
  <2>1. Fits(args', plan[i])
    BY <1>1, <1>4, ResolvedFits
  <2>2. Evaluated(plan)[i] = IF plan[i].form # "none" THEN Deferred(plan[i])
                             ELSE Decided(plan[i], Coerced(plan[i].tool, plan[i].facts))
    BY <1>1 DEF Evaluated
  <2>3. d.blocked => plan[i].form # "none" \/ Evaluated(plan)[i].blocked
    BY <1>4, <2>1, <2>2 DEF Fits
  <2>4. Evaluated(plan)' = Evaluated(plan)
    BY <1>1 DEF Evaluated, Decided
  <2>5. QED
    BY <1>1, <1>3, <2>1, <2>3, <2>4 DEF AsPlanned
<1>5. CASE ~Resolvable(plan[i], outputs) /\ d = Refused(plan[i])
  <2>1. d.blocked /\ plan[i].form # "none"
    BY <1>5 DEF Refused, Resolvable
  <2>2. QED
    BY <1>1, <1>3, <2>1 DEF AsPlanned
<1>6. QED
  BY <1>2, <1>4, <1>5

LEMMA CallAsPlanned ==
  ASSUME IInv, Place, AsPlanned, Call \/ CallRaises
  PROVE  AsPlanned'
<1> DEFINE c == [tool |-> plan[i].tool, id |-> plan[i].id, facts |-> args]
<1>1. /\ pc = "calling" /\ pc' \in {"called", "raised"} /\ UNCHANGED <<plan, i>>
      /\ ran' = Append(ran, c)
  BY DEF Call, CallRaises, Invoked
<1>2. /\ DOMAIN ran' = 1..(Len(ran) + 1) /\ DOMAIN ran = 1..Len(ran) /\ Len(ran) \in Nat
      /\ ran'[Len(ran) + 1] = c /\ \A k \in DOMAIN ran : ran'[k] = ran[k]
  BY <1>1, AppendSeq DEF IInv, AreSeqs
<1>3. Len(ran) + 1 = i /\ Fits(args, plan[i])
  BY <1>1, <1>2, PlanSeq DEF Place, AsPlanned
<1>4. c.id = plan[i].id /\ c.tool = plan[i].tool /\ Fits(c.facts, plan[i])
  BY <1>3
<1> HIDE DEF c
<1>5. \A k \in DOMAIN ran' : (k \in DOMAIN ran /\ ran'[k] = ran[k]) \/ (k = i /\ ran'[k] = c)
  BY <1>2, <1>3
<1>6. QED
  BY <1>1, <1>4, <1>5 DEF AsPlanned

LEMMA AsPlannedStep == IInv /\ Place /\ AsPlanned /\ [Next]_vars => AsPlanned'
<1> SUFFICES ASSUME IInv, Place, AsPlanned, [Next]_vars PROVE AsPlanned'
  OBVIOUS
<1>1. Evaluated(plan)' = Evaluated(plan)
  BY DEF Next, vars, Start, Judge, AuditDecision, AuditStart, Call, CallRaises, AuditDone, Close,
         Evaluated, Decided
<1>2. CASE Start
  <2>1. pc = "start" /\ UNCHANGED <<plan, i, args, ran>> /\ pc' \in {"judged", "closing", "step"}
    BY <1>2 DEF Start
  <2>2. pc' = "judged" => DuplicateId(plan) /\ LastBlocked'
    <3>1. pc' = "judged" => DuplicateId(plan)
      BY <1>2 DEF Start
    <3>2. pc' = "judged" => decisions' = <<Duplicated(plan)>>
      BY <1>2 DEF Start
    <3>3. Duplicated(plan).blocked = TRUE
      BY DEF Duplicated, Refused
    <3>4. ASSUME NEW d, decisions' = <<d>>, d.blocked PROVE LastBlocked'
      BY <3>4 DEF LastBlocked
    <3>5. QED
      BY <3>1, <3>2, <3>3, <3>4
  <2>3. pc' # "judged" => ~LastBlocked'
    BY <1>2 DEF Start, Place, LastBlocked
  <2>4. QED
    BY <2>1, <2>2, <2>3 DEF AsPlanned
<1>3. CASE AuditDecision
  <2>1. /\ pc = "judged" /\ UNCHANGED <<plan, i, args, ran, decisions>>
        /\ pc' \in {"raised", IF decisions[Len(decisions)].blocked THEN "closing" ELSE "cleared"}
    BY <1>3, StoreLeads DEF AuditDecision
  <2>2. LastBlocked' = LastBlocked
    BY <2>1 DEF LastBlocked
  <2>3. pc' = "cleared" => ~LastBlocked
    BY <2>1 DEF LastBlocked
  <2>4. QED
    BY <1>1, <2>1, <2>2, <2>3 DEF AsPlanned
<1>4. CASE AuditStart
  <2>1. pc = "cleared" /\ UNCHANGED <<plan, i, args, ran>> /\ pc' \in {"raised", "calling"}
    BY <1>4, StoreLeads DEF AuditStart
  <2>2. QED
    BY <2>1 DEF AsPlanned
<1>5. CASE AuditDone
  <2>1. pc = "called" /\ UNCHANGED <<plan, ran, decisions>> /\ pc' \in {"raised", "closing", "step"}
    BY <1>5, StoreLeads DEF AuditDone
  <2>2. ~LastBlocked'
    BY <2>1 DEF Place, LastBlocked
  <2>3. QED
    BY <2>1, <2>2 DEF AsPlanned
<1>6. CASE Close
  <2>1. /\ pc = "closing" /\ UNCHANGED <<plan, i, ran, decisions>>
        /\ pc' \in {"raised", "returned"}
    BY <1>6, StoreLeads DEF Close
  <2>2. QED
    BY <1>1, <2>1 DEF AsPlanned, LastBlocked
<1>7. CASE UNCHANGED vars
  BY <1>1, <1>7 DEF vars, AsPlanned, LastBlocked
<1>8. QED
  BY <1>2, <1>3, <1>4, <1>5, <1>6, <1>7, JudgeAsPlanned, CallAsPlanned DEF Next

LEMMA RepliedStep == Place /\ Replied /\ [Next]_vars => Replied'
<1> SUFFICES ASSUME Place, Replied, [Next]_vars PROVE Replied'
  OBVIOUS
<1>1. CASE Close
  <2>1. /\ pc = "closing" /\ pc' \in {"raised", "returned"}
        /\ UNCHANGED <<plan, caller, i, outputs, decisions, commands>>
        /\ reply' = IF pc' = "returned" THEN Reply ELSE reply
    BY <1>1, StoreLeads DEF Close, Reply
  <2>2. Reply' = Reply
    BY <2>1 DEF Reply, ChainStatus, LastBlocked, Failure
  <2>3. QED
    BY <2>1, <2>2 DEF Replied
<1>2. CASE UNCHANGED vars
  BY <1>2 DEF vars, Replied, Reply, ChainStatus, LastBlocked, Failure
<1>3. CASE ~Close /\ ~UNCHANGED vars
  <2>1. pc # "returned" /\ pc' # "returned" /\ reply' = reply
    BY <1>3, StoreLeads DEF Next, Start, Judge, AuditDecision, AuditStart, Call, CallRaises,
                            Invoked, AuditDone
  <2>2. QED
    BY <2>1 DEF Replied
<1>4. QED
  BY <1>1, <1>2, <1>3

(* The invariant that relates the request to its plan and to its reply     *)
Chain == IInv /\ Place /\ AsPlanned /\ Replied

LEMMA InitChain == Init => Chain
<1> SUFFICES ASSUME Init PROVE Chain
  OBVIOUS
<1>1. Len(ran) = 0 /\ DOMAIN ran = {}
  BY DEF Init
<1>2. QED
  BY <1>1, InitIInv DEF Init, Chain, Place, AsPlanned, Replied

LEMMA ChainStep == Chain /\ [Next]_vars => Chain'
BY IInvStep, PlaceStep, AsPlannedStep, RepliedStep DEF Chain

LEMMA ChainInvariance == Spec => []Chain
<1>1. QED
  BY InitChain, ChainStep, PTL DEF Spec

(* A plan that ran to its end was not shown as blocked by the preview, and *)
(* one that was stopped although the preview did not show it has an id     *)
(* twice or a reference, which the preview cannot resolve.                 *)
THEOREM PreviewCorrect == Spec => []PreviewAgrees
<1>1. Chain => PreviewAgrees
  <2> SUFFICES ASSUME Chain PROVE PreviewAgrees
    OBVIOUS
  <2>1. CASE pc # "returned"
    BY <2>1 DEF Chain, Replied, NoReply, PreviewAgrees
  <2>2. CASE pc = "returned"
    <3>1. reply.status = ChainStatus
      BY <2>2 DEF Chain, Replied, Reply
    <3>2. ASSUME ChainStatus = "success" PROVE ~EvaluateBlocks(plan)
      <4>1. ~LastBlocked /\ (plan = <<>> \/ ~Failure)
        BY <3>2 DEF ChainStatus
      <4>2. plan = <<>> \/ (i = Len(plan) /\ Len(ran) = i)
        BY <2>2, <4>1 DEF Chain, Place
      <4>3. ASSUME NEW k \in DOMAIN plan, Evaluated(plan)[k].blocked PROVE FALSE
        <5>1. Len(ran) = Len(plan)
          BY <4>2, <4>3
        <5>2. k \in DOMAIN ran
          BY <5>1, PlanSeq, AppendSeq DEF Chain, Place, IInv, AreSeqs
        <5>3. Evaluated(plan)[k] = IF plan[k].form # "none" THEN Deferred(plan[k])
                                   ELSE Decided(plan[k], Coerced(plan[k].tool, plan[k].facts))
          BY DEF Evaluated
        <5>4. plan[k].form = "none"
          BY <4>3, <5>3 DEF Deferred, Refused
        <5>5. ran[k].tool = plan[k].tool /\ ran[k].facts = Coerced(plan[k].tool, plan[k].facts)
          BY <5>2, <5>4 DEF Chain, AsPlanned, Fits
        <5>6. ~Check(ran[k].tool, ran[k].facts, caller).blocked
          BY <5>2 DEF Chain, IInv, OnlyCleared
        <5>7. QED
          BY <4>3, <5>3, <5>4, <5>5, <5>6 DEF Decided
      <4>4. QED
        BY <4>3 DEF EvaluateBlocks
    <3>3. ASSUME ChainStatus \in {"blocked", "approval_required"}
          PROVE  \/ EvaluateBlocks(plan) \/ DuplicateId(plan)
                 \/ \E k \in DOMAIN plan : plan[k].form # "none"
      <4>1. LastBlocked
        BY <3>3 DEF ChainStatus
      <4>2. i \in DOMAIN plan
        BY <2>2, <4>1 DEF Chain, Place
      <4>3. QED
        BY <2>2, <4>1, <4>2 DEF Chain, AsPlanned, EvaluateBlocks
    <3>4. QED
      BY <3>1, <3>2, <3>3 DEF PreviewAgrees
  <2>3. QED
    BY <2>1, <2>2
<1>2. QED
  BY <1>1, ChainInvariance, PTL

-----------------------------------------------------------------------------
(* Results: for every tool the keys are numbered without gaps, so the next *)
(* free one is one more than the calls of the tool so far, and the keys    *)
(* are those Execution names.                                              *)
Calls(t, n) == Cardinality({j \in 1..n : plan[j].tool = t})
Keys ==
  /\ IsFiniteSet(DOMAIN results) /\ Cardinality(DOMAIN results) = Len(ran)
  /\ DOMAIN results = ResultKeys(plan, Len(ran))
  /\ \A t, m : <<t, m>> \in DOMAIN results <=> m \in 1..Calls(t, Len(ran))
  /\ \A k \in 1..Len(ran) :
       \E key \in DOMAIN results : key[1] = plan[k].tool /\ results[key] = plan[k].id
Keyed == pc # "raised" => Keys

\* One more call of the tool of step n + 1
LEMMA CallsStep ==
  ASSUME NEW n \in Nat, NEW t
  PROVE  /\ Calls(t, n) \in 0..n
         /\ Calls(t, n + 1) = IF plan[n + 1].tool = t THEN Calls(t, n) + 1 ELSE Calls(t, n)
<1> DEFINE S(m) == {j \in 1..m : plan[j].tool = t}
<1>1. S(n) \subseteq 1..n /\ IsFiniteSet(1..n) /\ Cardinality(1..n) = n
  BY FS_Interval
<1>2. IsFiniteSet(S(n)) /\ Cardinality(S(n)) \in Nat /\ Cardinality(S(n)) <= n
  BY <1>1, FS_Subset, FS_CardinalityType
<1>3. S(n + 1) = IF plan[n + 1].tool = t THEN S(n) \cup {n + 1} ELSE S(n)
  OBVIOUS
<1>4. n + 1 \notin S(n)
  OBVIOUS
<1>5. Cardinality(S(n) \cup {n + 1}) = Cardinality(S(n)) + 1
  BY <1>2, <1>4, FS_AddElement
<1> HIDE DEF S
<1>6. Cardinality(S(n + 1)) = IF plan[n + 1].tool = t THEN Cardinality(S(n)) + 1
                              ELSE Cardinality(S(n))
  BY <1>3, <1>5
<1>7. QED
  BY <1>2, <1>6 DEF Calls, S

\* The keys of one call more
LEMMA ResultKeysStep ==
  ASSUME NEW n \in Nat
  PROVE  ResultKeys(plan, n + 1) =
           ResultKeys(plan, n) \cup {<<plan[n + 1].tool, Calls(plan[n + 1].tool, n + 1)>>}
<1>1. \A m : ResultKeys(plan, m) = {<<plan[k].tool, Calls(plan[k].tool, k)>> : k \in 1..m}
  BY DEF ResultKeys, Calls
<1>2. 1..(n + 1) = 1..n \cup {n + 1}
  OBVIOUS
<1>3. QED
  BY <1>1, <1>2

\* _store_result finds the next number.
LEMMA FreeKeyNext ==
  ASSUME NEW t, NEW n \in Nat, \A m : <<t, m>> \in DOMAIN results <=> m \in 1..n,
         Cardinality(DOMAIN results) \in Nat, n <= Cardinality(DOMAIN results)
  PROVE  FreeKey(results, t) = <<t, n + 1>>
<1> DEFINE Free(m) == /\ <<t, m>> \notin DOMAIN results
                      /\ \A l \in 1..(m - 1) : <<t, l>> \in DOMAIN results
           N == 1..(Cardinality(DOMAIN results) + 1)
<1>1. n + 1 \in N /\ Free(n + 1)
  OBVIOUS
<1>2. \A m \in N : Free(m) => m = n + 1
  <2> SUFFICES ASSUME NEW m \in N, Free(m) PROVE m = n + 1
    OBVIOUS
  <2>1. m \in Nat /\ m \notin 1..n
    OBVIOUS
  <2>2. n + 1 \notin 1..(m - 1)
    <3>1. <<t, n + 1>> \notin DOMAIN results
      OBVIOUS
    <3>2. QED
      BY <3>1
  <2>3. QED
    BY <2>1, <2>2
<1> HIDE DEF Free, N
<1>3. (CHOOSE m \in N : Free(m)) = n + 1
  BY <1>1, <1>2
<1>4. FreeKey(results, t) = <<t, CHOOSE m \in N : Free(m)>>
  BY DEF FreeKey, Free, N
<1>5. QED
  BY <1>3, <1>4

LEMMA CallKeys ==
  ASSUME IInv, Place, Keyed, Call
  PROVE  Keys'
<1> DEFINE n == Len(ran)
           t == plan[i].tool
           key == <<t, Calls(t, n) + 1>>
<1>1. /\ pc = "calling" /\ UNCHANGED <<plan, i>>
      /\ results' = Put(results, FreeKey(results, t), plan[i].id)
      /\ \E e : ran' = Append(ran, e)
  BY DEF Call, Invoked
<1>2. n \in Nat /\ Len(ran') = n + 1 /\ i = n + 1
  BY <1>1, AppendSeq, PlanSeq DEF IInv, AreSeqs, Place
<1>3. Keys
  BY <1>1 DEF Keyed
<1> HIDE DEF n
<1>4. \A x : Calls(x, n) \in 0..n
  BY <1>2, CallsStep
<1>5. Cardinality(DOMAIN results) = n /\ IsFiniteSet(DOMAIN results)
  BY <1>3 DEF Keys, n
<1>6. \A x, m : <<x, m>> \in DOMAIN results <=> m \in 1..Calls(x, n)
  BY <1>3 DEF Keys, n
<1>7. FreeKey(results, t) = key
  BY <1>2, <1>4, <1>5, <1>6, FreeKeyNext
<1>8. key \notin DOMAIN results
  BY <1>4, <1>6
<1>9. /\ DOMAIN results' = DOMAIN results \cup {key} /\ results'[key] = plan[i].id
      /\ \A k \in DOMAIN results : results'[k] = results[k]
  BY <1>1, <1>7, <1>8 DEF Put
<1>10. Calls(t, n + 1) = Calls(t, n) + 1 /\ \A x : x # t => Calls(x, n + 1) = Calls(x, n)
  BY <1>2, CallsStep
<1>11. IsFiniteSet(DOMAIN results') /\ Cardinality(DOMAIN results') = n + 1
  BY <1>5, <1>8, <1>9, FS_AddElement
<1>12. DOMAIN results' = ResultKeys(plan, n + 1)
  <2>1. DOMAIN results = ResultKeys(plan, n)
    BY <1>3 DEF Keys, n
  <2>2. QED
    BY <1>2, <1>9, <1>10, <2>1, ResultKeysStep
<1>13. ASSUME NEW x, NEW m
       PROVE  <<x, m>> \in DOMAIN results' <=> m \in 1..Calls(x, n + 1)
  <2>1. CASE x = t
    BY <1>4, <1>6, <1>9, <1>10, <2>1
  <2>2. CASE x # t
    BY <1>6, <1>9, <1>10, <2>2
  <2>3. QED
    BY <2>1, <2>2
<1>14. ASSUME NEW k \in 1..(n + 1)
       PROVE  \E y \in DOMAIN results' : y[1] = plan[k].tool /\ results'[y] = plan[k].id
  <2>1. CASE k \in 1..n
    <3>1. PICK y \in DOMAIN results : y[1] = plan[k].tool /\ results[y] = plan[k].id
      BY <1>3, <2>1 DEF Keys, n
    <3>2. QED
      BY <1>9, <3>1
  <2>2. CASE k = i
    BY <1>9, <2>2
  <2>3. QED
    BY <1>2, <2>1, <2>2
<1>15. \A x, m : Calls(x, m)' = Calls(x, m)
  BY <1>1 DEF Calls
<1>16. QED
  BY <1>1, <1>2, <1>11, <1>12, <1>13, <1>14, <1>15 DEF Keys

LEMMA KeyedStep == IInv /\ Place /\ Keyed /\ [Next]_vars => Keyed'
<1> SUFFICES ASSUME IInv, Place, Keyed, [Next]_vars PROVE Keyed'
  OBVIOUS
<1>1. CASE Call
  BY <1>1, CallKeys DEF Keyed
<1>2. CASE ~Call
  <2>1. pc' = "raised" \/ (pc # "raised" /\ UNCHANGED <<plan, ran, results>>)
                       \/ UNCHANGED <<pc, plan, ran, results>>
    BY <1>2 DEF Next, vars, Start, Judge, AuditDecision, AuditStart, CallRaises, AuditDone, Close
  <2>2. ASSUME UNCHANGED <<plan, ran, results>>, Keys PROVE Keys'
    <3>1. \A t, m : Calls(t, m)' = Calls(t, m)
      BY <2>2 DEF Calls
    <3>2. QED
      BY <2>2, <3>1 DEF Keys
  <2>3. QED
    BY <2>1, <2>2 DEF Keyed
<1>3. QED
  BY <1>1, <1>2

LEMMA InitKeyed == Init => Keyed
<1> SUFFICES ASSUME Init PROVE Keys
  BY DEF Keyed
<1>1. results = <<>> /\ Len(ran) = 0
  BY DEF Init
<1>2. DOMAIN results = {}
  BY <1>1
<1>3. \A t : Calls(t, 0) = 0
  BY CallsStep
<1>4. ResultKeys(plan, 0) = {}
  BY DEF ResultKeys
<1>5. QED
  BY <1>1, <1>2, <1>3, <1>4, FS_EmptySet DEF Keys

LEMMA KeyedInvariance == Spec => []Keyed
<1>1. Init => Chain /\ Keyed
  BY InitChain, InitKeyed
<1>2. Chain /\ Keyed /\ [Next]_vars => Chain' /\ Keyed'
  BY ChainStep, KeyedStep DEF Chain
<1>3. QED
  BY <1>1, <1>2, PTL DEF Spec

(* What execute returns keeps the promise Execution states, from which     *)
(* Orchestrator is checked and proved, for any plan, callers and outputs:  *)
(* how many steps ran, how the chain ended, and a key of its own for the   *)
(* result of every call.                                                   *)
THEOREM PromiseKept == Spec => []Promised
<1>1. Chain /\ Keyed => Promised
  <2> SUFFICES ASSUME Chain, Keyed, pc = "returned" PROVE Promised
    BY DEF Promised
  <2> DEFINE p == [k \in DOMAIN plan |-> [tool |-> plan[k].tool, changes |-> Changes(plan[k])]]
             n == Len(ran)
             e == [status |-> reply.status, ran |-> n, asks |-> reply.approvedRequired]
  <2>1. /\ Len(plan) \in Nat /\ DOMAIN plan = 1..Len(plan) /\ n \in Nat
        /\ DOMAIN ran = 1..n
    BY PlanSeq, AppendSeq DEF Chain, Place, IInv, AreSeqs
  <2>2. DOMAIN p = 1..Len(plan) /\ Len(p) = Len(plan)
    <3>1. p \in [1..Len(plan) -> {p[k] : k \in 1..Len(plan)}]
      BY <2>1
    <3>2. QED
      BY <2>1, <3>1
  <2>3. /\ reply.status = ChainStatus
        /\ reply.approvedRequired = (/\ LastBlocked /\ ~caller.approved
                                     /\ decisions[Len(decisions)].confirm)
    BY DEF Chain, Replied, Reply
  <2>4. /\ ChainStatus = "success" => ~LastBlocked /\ (plan = <<>> \/ ~Failure)
        /\ ChainStatus = "failed" => ~LastBlocked /\ plan # <<>>
        /\ ChainStatus \in Stopped => LastBlocked
    BY DEF ChainStatus, Stopped
  <2>5. n \in 0..Len(plan)
    <3>1. (i \in DOMAIN plan /\ (n = i - 1 \/ n = i)) \/ n = 0
      BY DEF Chain, Place
    <3> HIDE DEF n
    <3>2. QED
      BY <2>1, <3>1
  <2>6. /\ LastBlocked => n < Len(plan)
        /\ ~LastBlocked /\ plan # <<>> => n > 0
        /\ ~LastBlocked /\ (plan = <<>> \/ ~Failure) => n = Len(plan)
    <3>1. \/ LastBlocked /\ i \in DOMAIN plan /\ n = i - 1
          \/ ~LastBlocked /\ plan = <<>> /\ n = 0
          \/ ~LastBlocked /\ i \in DOMAIN plan /\ n = i /\ (Failure \/ i = Len(plan))
      BY DEF Chain, Place
    <3>2. /\ plan = <<>> => Len(plan) = 0
          /\ i \in DOMAIN plan => plan # <<>> /\ i \in Int /\ i > 0 /\ i - 1 < Len(plan)
      BY <2>1
    <3> HIDE DEF n
    <3>3. QED
      BY <3>1, <3>2
  <2>7. e \in Ends(p, caller.approved)
    <3>1. e \in [status : Status, ran : 0..Len(p), asks : BOOLEAN]
      <4>1. reply.status \in Status
        BY <2>3 DEF ChainStatus, Status
      <4>2. reply.approvedRequired \in BOOLEAN
        BY <2>3
      <4>3. QED
        BY <2>2, <2>5, <4>1, <4>2
    <3>2. e.status = "success" => e.ran = Len(p)
      BY <2>2, <2>3, <2>4, <2>6
    <3>3. e.status = "failed" => e.ran > 0
      BY <2>3, <2>4, <2>6
    <3>4. e.status \in Stopped => e.ran < Len(p)
      BY <2>2, <2>3, <2>4, <2>6
    <3>5. e.status = "approval_required" => e.asks
      BY <2>3 DEF ChainStatus
    <3>6. e.asks => e.status \in Stopped /\ ~caller.approved
      BY <2>3 DEF ChainStatus, Stopped
    <3>7. caller.approved \/ \A k \in 1..e.ran : ~p[k].changes
      <4> SUFFICES ASSUME ~caller.approved, NEW k \in 1..n PROVE ~p[k].changes
        OBVIOUS
      <4>1. k \in DOMAIN ran /\ k \in DOMAIN plan
        BY <2>1, <2>5
      <4>2. ~Check(ran[k].tool, ran[k].facts, caller).blocked
        BY <4>1 DEF Chain, IInv, OnlyCleared
      <4>3. ~Changes(ran[k])
        BY <4>2, ClearedIsHarmless
      <4>4. ran[k].tool = plan[k].tool /\ ran[k].facts.dryRun = plan[k].facts.dryRun
        BY <4>1 DEF Chain, AsPlanned, Fits
      <4>5. ~Changes(plan[k])
        BY <4>3, <4>4 DEF Changes
      <4>6. QED
        BY <4>1, <4>5
    <3> HIDE DEF e, p
    <3>8. QED
      BY <3>1, <3>2, <3>3, <3>4, <3>5, <3>6, <3>7 DEF Ends
  <2>8. DOMAIN results = ResultKeys(p, n)
    <3>1. \A k \in 1..n : p[k].tool = plan[k].tool
      BY <2>1, <2>5
    <3>2. \A k \in 1..n : {j \in 1..k : p[j].tool = p[k].tool}
                          = {j \in 1..k : plan[j].tool = plan[k].tool}
      BY <2>1, <3>1
    <3> HIDE DEF p
    <3>3. ResultKeys(p, n) = ResultKeys(plan, n)
      BY <3>1, <3>2 DEF ResultKeys
    <3>4. QED
      BY <3>3 DEF Keyed, Keys
  <2>9. \A k \in 1..n : \E key \in DOMAIN results :
          key[1] = plan[k].tool /\ results[key] = plan[k].id
    BY DEF Keyed, Keys
  <2> HIDE DEF p
  <2>10. QED
    BY <2>7, <2>8, <2>9 DEF Promised, p
<1>2. QED
  BY <1>1, ChainInvariance, KeyedInvariance, PTL

-----------------------------------------------------------------------------
(* The log: three events for every step that is done with, those of the    *)
(* step at hand so far, and at the end the block and the summary.          *)
HasFailed == pc \in {"closing", "returned"} /\ ~LastBlocked /\ plan # <<>> /\ Failure
Done == IF pc \in {"closing", "returned"} THEN Len(ran) ELSE i - 1
Extra == IF pc = "cleared" THEN 1
         ELSE IF pc \in {"calling", "called"} THEN 2
         ELSE IF pc = "closing" THEN IF LastBlocked THEN 1 ELSE 0
         ELSE IF pc = "returned" THEN IF LastBlocked THEN 2 ELSE 1
         ELSE 0
Completed(log, k, id, status) ==
  /\ log[3 * k - 2] = Passed(id) /\ log[3 * k - 1] = Started(id)
  /\ log[3 * k] = Event("tool_call", status, id)
Ending(k) == IF k = i /\ HasFailed THEN "failed" ELSE "completed"
Blocking(e) == e.stage = "security_validation" /\ e.status = "blocked"
Log ==
  FailClosed /\ Traced /\ pc # "raised" =>
    /\ Len(audit) = 3 * Done + Extra
    /\ \A k \in 1..Done : Completed(audit, k, plan[k].id, Ending(k))
    /\ pc \in {"cleared", "calling", "called"} => audit[3 * i - 2] = Passed(plan[i].id)
    /\ pc \in {"calling", "called"} => audit[3 * i - 1] = Started(plan[i].id)
    /\ pc \in {"closing", "returned"} /\ LastBlocked => Blocking(audit[3 * Len(ran) + 1])
    /\ pc = "returned" => audit[Len(audit)] = [stage |-> "execution", status |-> ChainStatus,
                                               commands |-> commands]

\* The commands reported are those of the calls, in their order.
Reported == pc # "raised" => /\ IsSeq(commands) /\ Len(commands) = Len(ran)
                             /\ \A k \in 1..Len(ran) : commands[k] = plan[k].id

LEMMA ReportedStep == IInv /\ Place /\ Reported /\ [Next]_vars => Reported'
<1> SUFFICES ASSUME IInv, Place, Reported, [Next]_vars, pc' # "raised" PROVE Reported'
  BY DEF Reported
<1>1. CASE Call
  <2>1. /\ pc = "calling" /\ plan' = plan /\ commands' = Append(commands, plan[i].id)
        /\ \E e : ran' = Append(ran, e)
    BY <1>1 DEF Call, Invoked
  <2>2. IsSeq(commands) /\ Len(commands) = Len(ran) /\ \A k \in 1..Len(ran) : commands[k] = plan[k].id
    BY <2>1 DEF Reported
  <2>3. /\ IsSeq(commands') /\ Len(commands') = Len(commands) + 1 /\ Len(commands) \in Nat
        /\ DOMAIN commands = 1..Len(commands)
        /\ \A k \in DOMAIN commands : commands'[k] = commands[k]
        /\ commands'[Len(commands) + 1] = plan[i].id
    BY <2>1, <2>2, AppendSeq
  <2>4. Len(ran') = Len(ran) + 1 /\ i = Len(ran) + 1
    BY <2>1, AppendSeq, PlanSeq DEF IInv, AreSeqs, Place
  <2>5. QED
    BY <2>1, <2>2, <2>3, <2>4 DEF Reported
<1>2. CASE ~Call
  <2>1. UNCHANGED <<plan, ran, commands>> /\ (pc # "raised" \/ pc' = pc)
    BY <1>2 DEF Next, vars, Start, Judge, AuditDecision, AuditStart, CallRaises, AuditDone, Close
  <2>2. QED
    BY <2>1 DEF Reported
<1>3. QED
  BY <1>1, <1>2

\* Fail-closed, a step that writes to the log raises or has its event there.
LEMMA StoreTells ==
  ASSUME FailClosed, Traced, IsSeq(audit), NEW e, NEW then,
         Store(e, then) \/ StoreIfTraced(e, then), pc' # "raised"
  PROVE  /\ pc' = then /\ Len(audit) \in Nat /\ Len(audit') = Len(audit) + 1
         /\ audit'[Len(audit) + 1] = e /\ \A n \in 1..Len(audit) : audit'[n] = audit[n]
<1>1. audit' = Append(audit, e) /\ pc' = then
  BY DEF Store, StoreIfTraced
<1>2. QED
  BY <1>1, AppendSeq

\* What is completed in a log stays so in a longer one.
LEMMA CompletedKept ==
  ASSUME NEW log, NEW longer, NEW len \in Nat, \A n \in 1..len : longer[n] = log[n],
         NEW k \in Nat \ {0}, 3 * k <= len, NEW id, NEW status,
         Completed(log, k, id, status)
  PROVE  Completed(longer, k, id, status)
<1>1. 3 * k - 2 \in 1..len /\ 3 * k - 1 \in 1..len /\ 3 * k \in 1..len
  OBVIOUS
<1>2. /\ longer[3 * k - 2] = log[3 * k - 2] /\ longer[3 * k - 1] = log[3 * k - 1]
      /\ longer[3 * k] = log[3 * k]
  BY <1>1
<1>3. QED
  BY <1>2 DEF Completed

LEMMA LogStep == Chain /\ Log /\ [Next]_vars => Log'
<1> SUFFICES ASSUME Chain, Log, [Next]_vars, FailClosed, Traced, pc' # "raised" PROVE Log'
  BY DEF Log
<1>1. /\ IsSeq(audit) /\ IsSeq(ran) /\ Len(ran) \in Nat
      /\ Len(plan) \in Nat /\ DOMAIN plan = 1..Len(plan)
  BY PlanSeq, AppendSeq DEF Chain, Place, IInv, AreSeqs
<1>2. CASE Start
  <2>1. /\ pc = "start" /\ i = 1 /\ Len(ran) = 0 /\ UNCHANGED <<plan, i, ran, audit>>
        /\ pc' \in {"judged", "closing", "step"}
    BY <1>2 DEF Start, Chain, Place
  <2>2. pc' = "closing" => ~LastBlocked'
    BY <1>2 DEF Start, Chain, Place, LastBlocked
  <2>3. Len(audit) = 0
    BY <2>1 DEF Log, Done, Extra
  <2>4. Done' = 0 /\ Extra' = 0
    BY <2>1, <2>2 DEF Done, Extra
  <2>5. QED
    BY <2>1, <2>2, <2>3, <2>4 DEF Log
<1>3. CASE Judge
  <2>1. pc = "step" /\ pc' = "judged" /\ UNCHANGED <<plan, i, audit>>
    BY <1>3 DEF Judge
  <2>2. QED
    BY <2>1 DEF Log, Done, Extra, HasFailed, Ending
<1>4. CASE AuditDecision
  <2> DEFINE d == decisions[Len(decisions)]
             e == Event("security_validation", IF d.blocked THEN "blocked" ELSE "passed", d.step)
             then == IF d.blocked THEN "closing" ELSE "cleared"
  <2>1. /\ pc = "judged" /\ UNCHANGED <<plan, i, ran, decisions, outputs>>
        /\ StoreIfTraced(e, then)
    BY <1>4 DEF AuditDecision
  <2>2. /\ pc' = then /\ Len(audit) \in Nat /\ Len(audit') = Len(audit) + 1
        /\ audit'[Len(audit) + 1] = e /\ \A n \in 1..Len(audit) : audit'[n] = audit[n]
    BY <1>1, <2>1, StoreTells
  <2>3. (LastBlocked' <=> d.blocked) /\ (LastBlocked <=> d.blocked)
    BY <2>1 DEF Chain, IInv, Judged, LastBlocked
  <2>4. i \in Nat \ {0} /\ Len(ran) = i - 1
    BY <1>1, <2>1 DEF Chain, Place
  <2>5. Len(audit) = 3 * (i - 1) /\ \A k \in 1..(i - 1) : Completed(audit, k, plan[k].id, "completed")
    BY <2>1, <2>4 DEF Log, Done, Extra, HasFailed, Ending
  <2>6. \A k \in 1..(i - 1) : Completed(audit', k, plan[k].id, "completed")
    <3> SUFFICES ASSUME NEW k \in 1..(i - 1)
                 PROVE  Completed(audit', k, plan[k].id, "completed")
      OBVIOUS
    <3>1. k \in Nat \ {0} /\ 3 * k <= Len(audit)
      BY <2>4, <2>5
    <3>2. Completed(audit, k, plan[k].id, "completed")
      BY <2>4, <2>5
    <3>3. QED
      BY <2>2, <3>1, <3>2, CompletedKept
  <2>7. ~d.blocked => e = Passed(plan[i].id)
    BY <2>1, <2>3 DEF Chain, IInv, Judged, Passed
  <2>8. d.blocked => Blocking(e)
    BY DEF Blocking, Event
  <2> HIDE DEF e, d
  <2>9. Done' = i - 1 /\ Extra' = 1 /\ ~HasFailed'
    BY <2>1, <2>2, <2>3, <2>4 DEF Done, Extra, HasFailed, Ending
  <2>10. \A k \in 1..Done' : Completed(audit', k, plan'[k].id, Ending(k)')
    BY <2>1, <2>6, <2>9 DEF Ending
  <2>11. Len(audit') = 3 * Done' + Extra'
    BY <2>2, <2>4, <2>5, <2>9
  <2>12. 3 * i - 2 = Len(audit) + 1 /\ 3 * Len(ran) + 1 = Len(audit) + 1
    BY <2>4, <2>5
  <2>13. pc' = "cleared" => audit'[3 * i' - 2] = Passed(plan'[i'].id)
    BY <2>1, <2>2, <2>7, <2>12
  <2>14. pc' = "closing" => Blocking(audit'[3 * Len(ran') + 1])
    BY <2>1, <2>2, <2>8, <2>12
  <2>15. QED
    BY <2>2, <2>10, <2>11, <2>13, <2>14 DEF Log
<1>5. CASE AuditStart
  <2>1. /\ pc = "cleared" /\ UNCHANGED <<plan, i, ran, decisions, outputs>>
        /\ StoreIfTraced(Started(plan[i].id), "calling")
    BY <1>5 DEF AuditStart, Started
  <2>2. /\ pc' = "calling" /\ Len(audit) \in Nat /\ Len(audit') = Len(audit) + 1
        /\ audit'[Len(audit) + 1] = Started(plan[i].id)
        /\ \A n \in 1..Len(audit) : audit'[n] = audit[n]
    BY <1>1, <2>1, StoreTells
  <2>3. i \in Nat \ {0}
    BY <1>1, <2>1 DEF Chain, Place
  <2>4. /\ Len(audit) = 3 * (i - 1) + 1 /\ audit[3 * i - 2] = Passed(plan[i].id)
        /\ \A k \in 1..(i - 1) : Completed(audit, k, plan[k].id, "completed")
    BY <2>1, <2>3 DEF Log, Done, Extra, HasFailed, Ending
  <2>5. \A k \in 1..(i - 1) : Completed(audit', k, plan[k].id, "completed")
    <3> SUFFICES ASSUME NEW k \in 1..(i - 1)
                 PROVE  Completed(audit', k, plan[k].id, "completed")
      OBVIOUS
    <3>1. k \in Nat \ {0} /\ 3 * k <= Len(audit)
      BY <2>3, <2>4
    <3>2. Completed(audit, k, plan[k].id, "completed")
      BY <2>3, <2>4
    <3>3. QED
      BY <2>2, <3>1, <3>2, CompletedKept
  <2>6. Done' = i - 1 /\ Extra' = 2 /\ ~HasFailed'
    BY <2>1, <2>2 DEF Done, Extra, HasFailed, Ending
  <2>7. \A k \in 1..Done' : Completed(audit', k, plan'[k].id, Ending(k)')
    BY <2>1, <2>5, <2>6 DEF Ending
  <2>8. Len(audit') = 3 * Done' + Extra'
    BY <2>2, <2>3, <2>4, <2>6
  <2>9. /\ audit'[3 * i' - 2] = Passed(plan'[i'].id)
        /\ audit'[3 * i' - 1] = Started(plan'[i'].id)
    BY <2>1, <2>2, <2>3, <2>4
  <2>10. QED
    BY <2>2, <2>7, <2>8, <2>9 DEF Log
<1>6. CASE Call
  <2>1. pc = "calling" /\ pc' = "called" /\ UNCHANGED <<plan, i, audit>>
    BY <1>6 DEF Call, Invoked
  <2>2. QED
    BY <2>1 DEF Log, Done, Extra, HasFailed, Ending
<1>7. CASE CallRaises
  BY <1>7 DEF CallRaises
<1>8. CASE AuditDone
  <2> DEFINE e == Event("tool_call", IF Failure THEN "failed" ELSE "completed", plan[i].id)
             then == IF Failure \/ i = Len(plan) THEN "closing" ELSE "step"
  <2>1. /\ pc = "called" /\ UNCHANGED <<plan, ran, decisions, outputs>>
        /\ StoreIfTraced(e, then) /\ i' = IF pc' = "step" THEN i + 1 ELSE i
    BY <1>8 DEF AuditDone
  <2>2. /\ pc' = then /\ Len(audit) \in Nat /\ Len(audit') = Len(audit) + 1
        /\ audit'[Len(audit) + 1] = e /\ \A n \in 1..Len(audit) : audit'[n] = audit[n]
    BY <1>1, <2>1, StoreTells
  <2>3. i \in Nat \ {0} /\ i \in DOMAIN plan /\ Len(ran) = i /\ ~LastBlocked
    BY <1>1, <2>1 DEF Chain, Place
  <2>4. /\ Len(audit) = 3 * (i - 1) + 2 /\ audit[3 * i - 2] = Passed(plan[i].id)
        /\ audit[3 * i - 1] = Started(plan[i].id)
        /\ \A k \in 1..(i - 1) : Completed(audit, k, plan[k].id, "completed")
    BY <2>1, <2>3 DEF Log, Done, Extra, HasFailed, Ending
  <2>5. \A k \in 1..(i - 1) : Completed(audit', k, plan[k].id, "completed")
    <3> SUFFICES ASSUME NEW k \in 1..(i - 1)
                 PROVE  Completed(audit', k, plan[k].id, "completed")
      OBVIOUS
    <3>1. k \in Nat \ {0} /\ 3 * k <= Len(audit)
      BY <2>3, <2>4
    <3>2. Completed(audit, k, plan[k].id, "completed")
      BY <2>3, <2>4
    <3>3. QED
      BY <2>2, <3>1, <3>2, CompletedKept
  <2>6. audit'[3 * i] = e
    BY <2>2, <2>3, <2>4
  <2>7. Completed(audit', i, plan[i].id, IF Failure THEN "failed" ELSE "completed")
    BY <2>2, <2>3, <2>4, <2>6 DEF Completed
  <2>8. ~LastBlocked'
    BY <2>1, <2>3 DEF LastBlocked
  <2>9. Done' = i /\ Extra' = 0
    BY <2>1, <2>2, <2>3, <2>8 DEF Done, Extra
  <2>10. Len(audit') = 3 * Done' + Extra'
    BY <2>2, <2>3, <2>4, <2>9
  <2>11. HasFailed' => pc' = "closing" /\ Failure
    <3>1. pc' = "closing" => i' = i
      BY <2>1
    <3>2. QED
      BY <2>1, <2>2, <3>1 DEF HasFailed, Failure
  <2>12. Failure => HasFailed' /\ i' = i
    <3>1. Failure => pc' = "closing" /\ i' = i
      BY <2>1, <2>2
    <3>2. plan' # <<>>
      BY <2>1, <2>3
    <3>3. QED
      BY <2>1, <2>8, <3>1, <3>2 DEF HasFailed, Failure
  <2>13. \A k \in 1..Done' : Completed(audit', k, plan'[k].id, Ending(k)')
    <3> SUFFICES ASSUME NEW k \in 1..i PROVE Completed(audit', k, plan[k].id, Ending(k)')
      BY <2>1, <2>9
    <3>1. CASE k = i
      <4>1. pc' = "closing" => i' = i
        BY <2>1
      <4>2. Ending(k)' = IF Failure THEN "failed" ELSE "completed"
        BY <2>11, <2>12, <3>1, <4>1 DEF Ending
      <4>3. QED
        BY <2>7, <3>1, <4>2
    <3>2. CASE k # i
      <4>1. k \in 1..(i - 1)
        BY <2>3, <3>2
      <4>2. HasFailed' => i' = i
        BY <2>1, <2>11
      <4>3. Ending(k)' = "completed"
        BY <3>2, <4>2 DEF Ending
      <4>4. QED
        BY <2>5, <4>1, <4>3
    <3>3. QED
      BY <3>1, <3>2
  <2>14. QED
    BY <2>2, <2>8, <2>10, <2>13 DEF Log
<1>9. CASE Close
  <2> DEFINE e == [stage |-> "execution", status |-> ChainStatus, commands |-> commands]
  <2>1. /\ pc = "closing" /\ Store(e, "returned")
        /\ UNCHANGED <<plan, caller, i, ran, decisions, outputs, commands>>
    BY <1>9 DEF Close
  <2>2. /\ pc' = "returned" /\ Len(audit) \in Nat /\ Len(audit') = Len(audit) + 1
        /\ audit'[Len(audit) + 1] = e /\ \A n \in 1..Len(audit) : audit'[n] = audit[n]
    BY <1>1, <2>1, StoreTells
  <2>3. LastBlocked' = LastBlocked /\ Failure' = Failure /\ ChainStatus' = ChainStatus
    BY <2>1 DEF LastBlocked, Failure, ChainStatus
  <2>4. /\ Done = Len(ran) /\ Done' = Len(ran) /\ (HasFailed' <=> HasFailed)
        /\ Extra \in 0..1 /\ Extra' = Extra + 1 /\ (LastBlocked => Extra = 1)
    BY <2>1, <2>2, <2>3 DEF Done, Extra, HasFailed, Ending
  <2>5. /\ Len(audit) = 3 * Len(ran) + Extra
        /\ \A k \in 1..Len(ran) : Completed(audit, k, plan[k].id, Ending(k))
        /\ LastBlocked => Blocking(audit[3 * Len(ran) + 1])
    BY <2>1, <2>4 DEF Log
  <2>6. \A k \in 1..Len(ran) : Completed(audit', k, plan[k].id, Ending(k)')
    <3> SUFFICES ASSUME NEW k \in 1..Len(ran)
                 PROVE  Completed(audit', k, plan[k].id, Ending(k)')
      OBVIOUS
    <3>1. k \in Nat \ {0} /\ 3 * k <= Len(audit)
      BY <1>1, <2>4, <2>5
    <3>2. Completed(audit, k, plan[k].id, Ending(k)) /\ Ending(k)' = Ending(k)
      BY <2>1, <2>4, <2>5 DEF Ending
    <3>3. QED
      BY <2>2, <3>1, <3>2, CompletedKept
  <2>7. e' = e
    BY <2>1, <2>3
  <2>8. LastBlocked => audit'[3 * Len(ran) + 1] = audit[3 * Len(ran) + 1]
    BY <1>1, <2>2, <2>4, <2>5
  <2> HIDE DEF e
  <2>9. QED
    BY <2>1, <2>2, <2>3, <2>4, <2>5, <2>6, <2>7, <2>8 DEF Log, e
<1>10. CASE UNCHANGED vars
  BY <1>10 DEF vars, Log, Done, Extra, HasFailed, Ending, LastBlocked, Failure, ChainStatus
<1>11. QED
  BY <1>2, <1>3, <1>4, <1>5, <1>6, <1>7, <1>8, <1>9, <1>10 DEF Next

LEMMA InitLog == Init => Log /\ Reported
<1> SUFFICES ASSUME Init PROVE Log /\ Reported
  OBVIOUS
<1>1. /\ pc = "start" /\ i = 1 /\ audit = <<>> /\ Len(audit) = 0
      /\ commands = <<>> /\ Len(commands) = 0 /\ Len(ran) = 0
  BY DEF Init
<1>2. IsSeq(commands)
  BY <1>1 DEF IsSeq
<1>3. Reported
  BY <1>1, <1>2 DEF Reported
<1>4. Log
  BY <1>1 DEF Log, Done, Extra
<1>5. QED
  BY <1>3, <1>4

LEMMA LogInvariance == Spec => [](Log /\ Reported)
<1>1. Init => Chain /\ Log /\ Reported
  BY InitChain, InitLog
<1>2. Chain /\ Log /\ Reported /\ [Next]_vars => Chain' /\ Log' /\ Reported'
  BY ChainStep, LogStep, ReportedStep DEF Chain
<1>3. QED
  BY <1>1, <1>2, PTL DEF Spec

(* Fail-closed, a request that returned has told the log all of it and     *)
(* nothing else, whatever its plan, and ends it with the summary the       *)
(* client is given: no event is missing, none is out of order.             *)
THEOREM ReplyAuditedCorrect == Spec => []ReplyAudited
<1>1. Chain /\ Log /\ Reported => ReplyAudited
  <2> SUFFICES ASSUME Chain, Log, Reported, FailClosed, Traced, pc = "returned"
               PROVE  ReplyAudited
    BY DEF ReplyAudited
  <2> DEFINE stopped == reply.status \in Stopped
             last == Len(audit)
  <2>1. /\ Len(ran) \in Nat /\ DOMAIN ran = 1..Len(ran)
        /\ Len(plan) \in Nat /\ DOMAIN plan = 1..Len(plan)
    BY PlanSeq, AppendSeq DEF Chain, Place, IInv, AreSeqs
  <2>2. reply.status = ChainStatus /\ reply.commands = commands
    BY DEF Chain, Replied, Reply
  <2>3. stopped <=> LastBlocked
    BY <2>2 DEF ChainStatus, Stopped
  <2>4. ChainStatus = "failed" <=> HasFailed
    BY DEF ChainStatus, HasFailed
  <2>5. Len(audit) = 3 * Len(ran) + (IF stopped THEN 2 ELSE 1)
    BY <2>3 DEF Log, Done, Extra
  <2>6. /\ \A k \in 1..Len(ran) : Completed(audit, k, plan[k].id, Ending(k))
        /\ LastBlocked => Blocking(audit[3 * Len(ran) + 1])
        /\ audit[last] = [stage |-> "execution", status |-> ChainStatus, commands |-> commands]
    BY DEF Log, Done
  <2>7. \A k \in DOMAIN ran :
          /\ audit[3 * k - 2] = Event("security_validation", "passed", ran[k].id)
          /\ audit[3 * k - 1] = Event("tool_call", "started", ran[k].id)
          /\ audit[3 * k] = Event("tool_call", IF k = Len(ran) /\ reply.status = "failed"
                                               THEN "failed" ELSE "completed", ran[k].id)
    <3> SUFFICES ASSUME NEW k \in DOMAIN ran
                 PROVE  /\ audit[3 * k - 2] = Passed(ran[k].id)
                        /\ audit[3 * k - 1] = Started(ran[k].id)
                        /\ audit[3 * k] =
                             Event("tool_call", IF k = Len(ran) /\ reply.status = "failed"
                                                THEN "failed" ELSE "completed", ran[k].id)
      BY DEF Passed, Started
    <3>1. ran[k].id = plan[k].id
      BY DEF Chain, AsPlanned
    <3>2. HasFailed => i = Len(ran)
      BY <2>1 DEF HasFailed, Chain, Place
    <3>3. Ending(k) = IF k = Len(ran) /\ reply.status = "failed" THEN "failed" ELSE "completed"
      BY <2>2, <2>4, <3>2 DEF Ending
    <3>4. Completed(audit, k, plan[k].id, Ending(k))
      BY <2>1, <2>6
    <3>5. QED
      BY <3>1, <3>3, <3>4 DEF Completed
  <2>8. stopped => /\ audit[last - 1].stage = "security_validation"
                   /\ audit[last - 1].status = "blocked"
    <3>1. stopped => last - 1 = 3 * Len(ran) + 1
      BY <2>1, <2>5
    <3>2. QED
      BY <2>3, <2>6, <3>1 DEF Blocking
  <2>9. Len(commands) = Len(ran) /\ \A k \in DOMAIN ran : commands[k] = ran[k].id
    <3>1. \A k \in DOMAIN ran : ran[k].id = plan[k].id
      BY DEF Chain, AsPlanned
    <3>2. QED
      BY <2>1, <3>1 DEF Reported
  <2>10. QED
    BY <2>2, <2>5, <2>6, <2>7, <2>8, <2>9 DEF ReplyAudited
<1>2. QED
  BY <1>1, ChainInvariance, LogInvariance, PTL
-----------------------------------------------------------------------------
(* The conversation.  What the planner makes of sequences: the elements at *)
(* some places of one, the first candidate there is, a list of tools.      *)

\* t holds the elements of s at the places P, in their order.
IsPicked(t, s, P) ==
  /\ IsSeq(t) /\ DOMAIN t = 1..Cardinality(P) /\ Cardinality(P) \in Nat /\ Len(t) = Cardinality(P)
  /\ \A n \in DOMAIN t : \E k \in P : RankIn(P, k) = n /\ t[n] = s[k]
  /\ \A k \in P : RankIn(P, k) \in DOMAIN t /\ t[RankIn(P, k)] = s[k]

LEMMA PickedIs ==
  ASSUME NEW s, IsSeq(s), NEW P, P \subseteq DOMAIN s
  PROVE  IsPicked(Picked(s, P), s, P)
<1>1. Len(s) \in Nat /\ P \subseteq 1..Len(s)
  BY DEF IsSeq
<1>2. /\ Cardinality(P) \in Nat
      /\ \A k \in P : RankIn(P, k) \in 1..Cardinality(P)
      /\ \A k, l \in P : k < l => RankIn(P, k) < RankIn(P, l)
      /\ \A k \in P : k \in Nat
      /\ \A n \in 1..Cardinality(P) : \E k \in P : RankIn(P, k) = n
  <2>1. /\ Cardinality(P) \in Nat
        /\ \A k \in Nat : RankIn(P, k) \in Nat /\ RankIn(P, k) <= Cardinality(P)
        /\ \A k, l \in P : k < l => RankIn(P, k) < RankIn(P, l)
        /\ \A k \in P : RankIn(P, k) >= 1
    BY <1>1, RankGrows, Zenon
  <2>2. \A n \in 1..Cardinality(P) : \E k \in P : RankIn(P, k) = n
    BY <1>1, RankReached, Zenon
  <2>3. \A k \in P : k \in Nat
    BY <1>1
  <2>4. \A k \in P : RankIn(P, k) \in 1..Cardinality(P)
    BY <2>1, <2>3
  <2>5. QED
    BY <2>1, <2>2, <2>3, <2>4
<1>3. Picked(s, P) = [n \in 1..Cardinality(P) |-> s[CHOOSE k \in P : RankIn(P, k) = n]]
  BY DEF Picked, RankIn, UpIn
<1>4. \A k \in P : (CHOOSE l \in P : RankIn(P, l) = RankIn(P, k)) = k
  <2> SUFFICES ASSUME NEW k \in P PROVE (CHOOSE l \in P : RankIn(P, l) = RankIn(P, k)) = k
    OBVIOUS
  <2> DEFINE c == CHOOSE l \in P : RankIn(P, l) = RankIn(P, k)
  <2>1. c \in P /\ RankIn(P, c) = RankIn(P, k)
    OBVIOUS
  <2> HIDE DEF c
  <2>2. ~ (c < k) /\ ~ (k < c) /\ c \in Nat /\ k \in Nat
    <3>1. RankIn(P, c) \in Nat /\ RankIn(P, k) \in Nat
      BY <1>2, <2>1
    <3>2. QED
      BY <1>2, <2>1, <3>1
  <2>3. c = k
    BY <2>2
  <2>4. QED
    BY <2>3 DEF c
<1>5. \A k \in P : RankIn(P, k) \in DOMAIN Picked(s, P) /\ Picked(s, P)[RankIn(P, k)] = s[k]
  BY <1>2, <1>3, <1>4
<1>6. DOMAIN Picked(s, P) = 1..Cardinality(P)
  BY <1>3
<1>7. IsSeq(Picked(s, P)) /\ Len(Picked(s, P)) = Cardinality(P)
  <2>1. Picked(s, P) = [n \in 1..Cardinality(P) |-> Picked(s, P)[n]]
    BY <1>3
  <2>2. QED
    BY <1>2, <2>1, ListIsSeq
<1>8. \A n \in DOMAIN Picked(s, P) : \E k \in P : RankIn(P, k) = n /\ Picked(s, P)[n] = s[k]
  <2> SUFFICES ASSUME NEW n \in DOMAIN Picked(s, P)
               PROVE  \E k \in P : RankIn(P, k) = n /\ Picked(s, P)[n] = s[k]
    OBVIOUS
  <2>1. PICK k \in P : RankIn(P, k) = n
    BY <1>2, <1>6
  <2>2. Picked(s, P)[n] = s[k]
    BY <1>5, <2>1
  <2>3. QED
    BY <2>1, <2>2
<1>9. QED
  BY <1>2, <1>5, <1>6, <1>7, <1>8 DEF IsPicked

\* The first there is, of two and of four.
LEMMA FirstOfTwo ==
  ASSUME NEW a, NEW b
  PROVE  First(<<a, b>>) = IF a # None THEN a ELSE b
<1> DEFINE s == <<a, b>>
           there == {k \in DOMAIN s : s[k] # None}
<1>1. DOMAIN s = {1, 2} /\ s[1] = a /\ s[2] = b
  OBVIOUS
<1>2. CASE a # None
  <2>1. (CHOOSE k \in there : \A j \in there : k <= j) = 1
    <3>1. 1 \in there /\ \A j \in there : 1 <= j
      BY <1>1, <1>2
    <3>2. \A k \in there : (\A j \in there : k <= j) => k = 1
      BY <1>1, <1>2
    <3>3. QED
      BY <3>1, <3>2
  <2>2. QED
    BY <1>1, <1>2, <2>1 DEF First
<1>3. CASE a = None /\ b # None
  <2>1. there = {2}
    BY <1>1, <1>3
  <2>2. QED
    BY <1>1, <1>3, <2>1 DEF First
<1>4. CASE a = None /\ b = None
  BY <1>1, <1>4 DEF First
<1>5. QED
  BY <1>2, <1>3, <1>4

LEMMA FirstOfFour ==
  ASSUME NEW a, NEW b, NEW c, NEW d
  PROVE  First(<<a, b, c, d>>) = IF a # None THEN a ELSE IF b # None THEN b
                                 ELSE IF c # None THEN c ELSE d
<1> DEFINE s == <<a, b, c, d>>
           there == {k \in DOMAIN s : s[k] # None}
<1>1. DOMAIN s = {1, 2, 3, 4} /\ s[1] = a /\ s[2] = b /\ s[3] = c /\ s[4] = d
  OBVIOUS
<1>2. ASSUME NEW n \in there, \A j \in there : n <= j PROVE First(s) = s[n]
  <2>1. \A k \in there : (\A j \in there : k <= j) => k = n
    BY <1>1, <1>2
  <2>2. (CHOOSE k \in there : \A j \in there : k <= j) = n
    BY <1>2, <2>1
  <2>3. QED
    BY <2>2 DEF First
<1>3. CASE a # None
  BY <1>1, <1>2, <1>3
<1>4. CASE a = None /\ b # None
  BY <1>1, <1>2, <1>4
<1>5. CASE a = None /\ b = None /\ c # None
  BY <1>1, <1>2, <1>5
<1>6. CASE a = None /\ b = None /\ c = None /\ d # None
  BY <1>1, <1>2, <1>6
<1>7. CASE a = None /\ b = None /\ c = None /\ d = None
  BY <1>1, <1>7 DEF First
<1>8. QED
  BY <1>3, <1>4, <1>5, <1>6, <1>7

\* What a filter or a list of tools makes of sequences is one.
LEMMA EmptyOrFirst ==
  ASSUME NEW s, IsSeq(s)
  PROVE  s # <<>> <=> 1 \in DOMAIN s
<1>1. s \in Seq({s[n] : n \in DOMAIN s}) /\ DOMAIN s = 1..Len(s) /\ Len(s) \in Nat
  BY DEF IsSeq
<1>2. CASE Len(s) = 0
  BY <1>1, <1>2
<1>3. CASE Len(s) # 0
  BY <1>1, <1>3
<1>4. QED
  BY <1>2, <1>3

LEMMA FlatIs ==
  ASSUME NEW tools, IsSeq(tools), NEW a
  PROVE  /\ IsSeq(Flat(tools, a)) /\ DOMAIN Flat(tools, a) = DOMAIN tools
         /\ \A k \in DOMAIN tools : Flat(tools, a)[k] = [id |-> k, tool |-> tools[k], ref |-> 0, args |-> a]
<1>1. DOMAIN tools = 1..Len(tools) /\ Len(tools) \in Nat
  BY DEF IsSeq
<1>2. Flat(tools, a) = [k \in 1..Len(tools) |-> Flat(tools, a)[k]]
  BY <1>1 DEF Flat
<1>3. IsSeq(Flat(tools, a))
  BY <1>1, <1>2, ListIsSeq
<1>4. QED
  BY <1>3 DEF Flat

LEMMA OnlyIs ==
  ASSUME NEW tools, IsSeq(tools), NEW S
  PROVE  /\ IsSeq(Only(tools, S))
         /\ \A n \in DOMAIN Only(tools, S) : \E k \in DOMAIN tools :
              tools[k] \in S /\ Only(tools, S)[n] = tools[k]
<1> DEFINE P == {k \in DOMAIN tools : tools[k] \in S}
<1>1. P \subseteq DOMAIN tools
  OBVIOUS
<1> HIDE DEF P
<1>2. IsPicked(Picked(tools, P), tools, P)
  BY <1>1, PickedIs
<1>3. QED
  BY <1>2 DEF Only, P, IsPicked

LEMMA OnceIs ==
  ASSUME NEW tools, IsSeq(tools)
  PROVE  IsSeq(Once(tools)) /\ (1 \in DOMAIN tools => 1 \in DOMAIN Once(tools))
<1> DEFINE P == {k \in DOMAIN tools : \A j \in 1..(k - 1) : tools[j] # tools[k]}
<1>1. P \subseteq DOMAIN tools
  OBVIOUS
<1>2. IsPicked(Picked(tools, P), tools, P)
  BY <1>1, PickedIs
<1>3. 1 \in DOMAIN tools => 1 \in P
  OBVIOUS
<1> HIDE DEF P
<1>4. 1 \in P => 1 \in 1..Cardinality(P)
  BY <1>2 DEF IsPicked
<1>5. QED
  BY <1>2, <1>3, <1>4 DEF Once, P, IsPicked
-----------------------------------------------------------------------------
(* The rules' plan: its steps are the tools selected, in the order of the  *)
(* rules, with the same arguments and no references.                       *)
SelectedPlaces(q, e) == {k \in DOMAIN RuleOrder : RuleOrder[k] \in Selected(q, e)}

LEMMA RuleOrderIs ==
  /\ IsSeq(RuleOrder) /\ DOMAIN RuleOrder = 1..17
  /\ RuleOrder[1] = "process.kill" /\ RuleOrder[2] = "temp.clean" /\ RuleOrder[3] = "service.restart"
  /\ RuleOrder[9] = "log" /\ RuleOrder[10] = "service"
  /\ \A k \in 1..17 : /\ k > 3 => RuleOrder[k] \in LowRiskTools
                      /\ RuleOrder[k] = "log" => k = 9
                      /\ RuleOrder[k] = "service" => k = 10
<1>1. DOMAIN RuleOrder = 1..17
  BY DEF RuleOrder
<1>2. IsSeq(RuleOrder)
  <2>1. RuleOrder = [n \in 1..17 |-> RuleOrder[n]]
    BY DEF RuleOrder
  <2>2. QED
    BY <2>1, ListIsSeq
<1>3. /\ RuleOrder[1] = "process.kill" /\ RuleOrder[2] = "temp.clean"
      /\ RuleOrder[3] = "service.restart"
      /\ RuleOrder[9] = "log" /\ RuleOrder[10] = "service"
  BY DEF RuleOrder
<1>4. \A k \in 1..17 : /\ k > 3 => RuleOrder[k] \in LowRiskTools
                       /\ RuleOrder[k] = "log" => k = 9
                       /\ RuleOrder[k] = "service" => k = 10
  <2> SUFFICES ASSUME NEW k \in 1..17
               PROVE  /\ k > 3 => RuleOrder[k] \in LowRiskTools
                      /\ RuleOrder[k] = "log" => k = 9
                      /\ RuleOrder[k] = "service" => k = 10
    OBVIOUS
  <2>1. \/ k = 1 \/ k = 2 \/ k = 3 \/ k = 4 \/ k = 5 \/ k = 6 \/ k = 7 \/ k = 8 \/ k = 9
        \/ k = 10 \/ k = 11 \/ k = 12 \/ k = 13 \/ k = 14 \/ k = 15 \/ k = 16 \/ k = 17
    OBVIOUS
  <2>2. QED
    BY <2>1 DEF RuleOrder, LowRiskTools
<1>5. QED
  BY <1>1, <1>2, <1>3, <1>4

LEMMA RulePlanIs ==
  ASSUME NEW q, NEW e
  PROVE  LET p == RulePlan(q, e)
             a == RuleArgs(q, e, Selected(q, e))
             P == SelectedPlaces(q, e)
         IN  /\ p.source = "rules" /\ p.args = a /\ IsSeq(p.steps)
             /\ \A n \in DOMAIN p.steps :
                  /\ p.steps[n].ref = 0 /\ p.steps[n].args = a
                  /\ \E k \in P : RankIn(P, k) = n /\ p.steps[n].tool = RuleOrder[k]
             /\ \A k \in P : /\ RankIn(P, k) \in DOMAIN p.steps
                             /\ p.steps[RankIn(P, k)].tool = RuleOrder[k]
             /\ \A k, l \in P : k < l => RankIn(P, k) < RankIn(P, l)
<1> DEFINE a == RuleArgs(q, e, Selected(q, e))
           P == SelectedPlaces(q, e)
           tools == Only(RuleOrder, Selected(q, e))
<1>1. P \subseteq DOMAIN RuleOrder /\ tools = Picked(RuleOrder, P)
  BY DEF SelectedPlaces, Only
<1> HIDE DEF tools, P
<1>2. IsPicked(tools, RuleOrder, P)
  BY <1>1, RuleOrderIs, PickedIs
<1>3. \A k, l \in P : k < l => RankIn(P, k) < RankIn(P, l)
  <2>1. P \subseteq 1..17 /\ 17 \in Nat
    BY <1>1, RuleOrderIs
  <2>2. QED
    BY <2>1, RankGrows, Zenon
<1>4. RulePlan(q, e) = [source |-> "rules", args |-> a, steps |-> Flat(tools, a)]
  BY DEF RulePlan, tools
<1> HIDE DEF a
<1>5. /\ IsSeq(Flat(tools, a)) /\ DOMAIN Flat(tools, a) = DOMAIN tools
      /\ \A k \in DOMAIN tools : Flat(tools, a)[k] = [id |-> k, tool |-> tools[k], ref |-> 0, args |-> a]
  BY <1>2, FlatIs DEF IsPicked
<1>6. /\ RulePlan(q, e).source = "rules" /\ RulePlan(q, e).args = a
      /\ RulePlan(q, e).steps = Flat(tools, a)
  BY <1>4
<1>7. \A k \in DOMAIN tools : /\ Flat(tools, a)[k].ref = 0 /\ Flat(tools, a)[k].args = a
                              /\ Flat(tools, a)[k].tool = tools[k]
  BY <1>5
<1>8. QED
  BY <1>2, <1>3, <1>5, <1>6, <1>7 DEF P, a, IsPicked

-----------------------------------------------------------------------------
\* The tools the rules select: all are known, and operations are those asked for.
LEMMA SelectedIs ==
  ASSUME NEW q, q.asks \subseteq AllowedTools, NEW e
  PROVE  /\ Selected(q, e) \subseteq AllowedTools /\ Selected(q, e) # {}
         /\ Selected(q, e) \cap MediumRiskTools = q.asks \cap MediumRiskTools
         /\ "disk.large_files" \in Selected(q, e) <=> "disk.large_files" \in q.asks
         /\ "disk.top_dirs" \in Selected(q, e) <=>
              "disk.top_dirs" \in q.asks \/ ("path" \in q.refers /\ e.path # None)
<1> DEFINE gone == UNION {Displaced(t) : t \in q.asks}
           asked == q.asks \ gone
           logs  == asked \cup {t \in {"log"} : Follows("log", q, e.service)}
           all   == logs \cup {t \in {"process", "service", "disk.top_dirs"} :
                            \/ t = "process" /\ Follows("process", q, e.pid)
                               /\ "process.kill" \notin asked
                            \/ t = "service" /\ Follows("service", q, e.service)
                               /\ "log" \notin logs
                            \/ t = "disk.top_dirs" /\ Follows("path", q, e.path)}
<1>1. Selected(q, e) = IF all = {} THEN {"system", "process"} ELSE all
  BY DEF Selected
<1>2. gone \subseteq {"process", "service", "network.diagnostics", "network"}
  BY DEF Displaced
<1>3. {"system", "process", "service", "log", "disk.top_dirs"} \subseteq AllowedTools
  BY RuleOrderIs DEF AllowedTools, RuleOrder
<1> HIDE DEF gone
<1>4. /\ asked \subseteq q.asks /\ asked \cap MediumRiskTools = q.asks \cap MediumRiskTools
      /\ "disk.large_files" \in asked <=> "disk.large_files" \in q.asks
      /\ "disk.top_dirs" \in asked <=> "disk.top_dirs" \in q.asks
  BY <1>2 DEF MediumRiskTools
<1> HIDE DEF asked
<1>5. /\ all \subseteq AllowedTools /\ all \cap MediumRiskTools = asked \cap MediumRiskTools
      /\ "disk.large_files" \in all <=> "disk.large_files" \in asked
      /\ "disk.top_dirs" \in all <=> "disk.top_dirs" \in asked \/ ("path" \in q.refers /\ e.path # None)
  BY <1>3, <1>4 DEF MediumRiskTools, Follows
<1> HIDE DEF all
<1>6. QED
  BY <1>1, <1>3, <1>4, <1>5 DEF MediumRiskTools

(* What the session holds when a request that was planned from e asks, and *)
(* nothing ran: the arguments of the plan, a unit as a service.            *)
Left(q, e) == LET a == RuleArgs(q, e, Selected(q, e))
              IN  [pid |-> a.pid, service |-> First(<<a.unit, a.service>>), path |-> a.path]
Aimed(q, e, t) == Target([tool |-> t, args |-> RuleArgs(q, e, Selected(q, e))])

\* Planned again from there, an operation has the target it had.
LEMMA AimedAgain ==
  ASSUME NEW q, q.asks \subseteq AllowedTools, NEW e, NEW t \in q.asks \cap MediumRiskTools
  PROVE  Aimed(q, Left(q, e), t) = Aimed(q, e, t)
<1> DEFINE l == Left(q, e)
           a == RuleArgs(q, e, Selected(q, e))
           b == RuleArgs(q, l, Selected(q, l))
<1>1. l.pid = a.pid /\ l.service = First(<<a.unit, a.service>>) /\ l.path = a.path
  BY DEF Left
<1> HIDE DEF l
<1>2. Aimed(q, e, t) = CASE t = "process.kill" -> a.pid [] t = "service.restart" -> a.service
                         [] t = "temp.clean" -> a.path
  BY DEF Aimed, Target
<1>3. Aimed(q, l, t) = CASE t = "process.kill" -> b.pid [] t = "service.restart" -> b.service
                         [] t = "temp.clean" -> b.path
  BY DEF Aimed, Target
<1>4. t \in Selected(q, e) /\ t \in Selected(q, l)
  BY SelectedIs
<1>5. CASE t = "process.kill"
  <2>1. a.pid = IF q.pid # None THEN q.pid ELSE e.pid
    <3>1. a.pid = First(<<q.pid, e.pid>>)
      BY <1>4, <1>5 DEF RuleArgs, When
    <3>2. QED
      BY <3>1, FirstOfTwo
  <2>2. b.pid = IF q.pid # None THEN q.pid ELSE l.pid
    <3>1. b.pid = First(<<q.pid, l.pid>>)
      BY <1>4, <1>5 DEF RuleArgs, When
    <3>2. QED
      BY <3>1, FirstOfTwo
  <2>3. QED
    BY <1>1, <1>2, <1>3, <1>5, <2>1, <2>2 DEF l
<1>6. CASE t = "service.restart"
  <2>1. a.service = IF ServiceIn(q) # None THEN ServiceIn(q) ELSE e.service
    <3>1. a.service = First(<<ServiceIn(q), e.service>>)
      BY <1>4, <1>6 DEF RuleArgs, When
    <3>2. QED
      BY <3>1, FirstOfTwo
  <2>2. b.service = IF ServiceIn(q) # None THEN ServiceIn(q) ELSE l.service
    <3>1. b.service = First(<<ServiceIn(q), l.service>>)
      BY <1>4, <1>6 DEF RuleArgs, When
    <3>2. QED
      BY <3>1, FirstOfTwo
  <2>3. l.service = IF a.unit # None THEN a.unit ELSE a.service
    BY <1>1, FirstOfTwo
  <2>4. a.unit \in {None, e.service}
    BY DEF RuleArgs, When
  <2>5. QED
    BY <1>2, <1>3, <1>6, <2>1, <2>2, <2>3, <2>4 DEF l
<1>7. CASE t = "temp.clean"
  <2> DEFINE large == "disk.large_files" \in q.asks
             top(s) == "disk.top_dirs" \in q.asks \/ ("path" \in q.refers /\ s.path # None)
             path(s) == IF TempIn[q.path] # None THEN TempIn[q.path]
                        ELSE IF When(large, q.path) # None THEN When(large, q.path)
                        ELSE IF When(top(s) /\ "path" \in q.refers, s.path) # None THEN s.path
                        ELSE When(top(s), q.path)
  <2>1. ASSUME NEW s, t \in Selected(q, s) PROVE RuleArgs(q, s, Selected(q, s)).path = path(s)
    <3>1. /\ "disk.large_files" \in Selected(q, s) <=> large
          /\ "disk.top_dirs" \in Selected(q, s) <=> top(s)
      BY SelectedIs
    <3>2. RuleArgs(q, s, Selected(q, s)).path =
            First(<<TempIn[q.path], When(large, q.path),
                    When(top(s) /\ "path" \in q.refers, s.path), When(top(s), q.path)>>)
      BY <1>7, <2>1, <3>1 DEF RuleArgs, When
    <3>3. QED
      BY <3>2, FirstOfFour DEF When
  <2>2. a.path = path(e) /\ b.path = path(l)
    BY <1>4, <2>1
  <2>3. path(l) = path(e)
    <3> HIDE DEF a, b
    <3>1. l.path = path(e)
      BY <1>1, <2>2
    <3>2. QED
      BY <3>1 DEF When
  <2>4. QED
    BY <1>2, <1>3, <1>7, <2>2, <2>3 DEF l
<1>8. t \in {"process.kill", "service.restart", "temp.clean"}
  BY DEF MediumRiskTools
<1>9. QED
  BY <1>5, <1>6, <1>7, <1>8

\* The rules' plan, as far as the operations go.
LEMMA RuleOperations ==
  ASSUME NEW q, q.asks \subseteq AllowedTools, NEW e
  PROVE  /\ 1 \in DOMAIN RulePlan(q, e).steps
         /\ \A n \in DOMAIN RulePlan(q, e).steps :
              LET t == RulePlan(q, e).steps[n].tool
              IN  /\ t \in Selected(q, e)
                  /\ t \notin LowRiskTools => t \in q.asks \cap MediumRiskTools
         /\ q.asks \cap MediumRiskTools # {} => RulePlan(q, e).steps[1].tool \in MediumRiskTools
         /\ \A t \in Selected(q, e) : \E n \in DOMAIN RulePlan(q, e).steps : RulePlan(q, e).steps[n].tool = t
         /\ ReadOnly(RulePlan(q, e).steps) <=> q.asks \cap MediumRiskTools = {}
<1> DEFINE P == SelectedPlaces(q, e)
           steps == RulePlan(q, e).steps
<1>1. /\ IsSeq(steps)
      /\ \A n \in DOMAIN steps : \E k \in P : RankIn(P, k) = n /\ steps[n].tool = RuleOrder[k]
      /\ \A k \in P : RankIn(P, k) \in DOMAIN steps /\ steps[RankIn(P, k)].tool = RuleOrder[k]
      /\ \A k, l \in P : k < l => RankIn(P, k) < RankIn(P, l)
  BY RulePlanIs
<1>2. /\ P \subseteq 1..17 /\ \A k \in P : RuleOrder[k] \in Selected(q, e)
      /\ \A t \in Selected(q, e) : \E k \in P : RuleOrder[k] = t
  <2>1. \A t \in Selected(q, e) : \E k \in DOMAIN RuleOrder : RuleOrder[k] = t
    BY SelectedIs DEF AllowedTools
  <2>2. QED
    BY <2>1, RuleOrderIs DEF SelectedPlaces
<1>3. /\ \A k \in P : k > 3 => RuleOrder[k] \in LowRiskTools
      /\ \A k \in P : RuleOrder[k] \notin LowRiskTools => RuleOrder[k] \in MediumRiskTools
  <2>1. \A k \in 1..17 : k > 3 => RuleOrder[k] \in LowRiskTools
    BY RuleOrderIs
  <2>2. \A k \in 1..17 : k <= 3 => k = 1 \/ k = 2 \/ k = 3
    OBVIOUS
  <2>3. \A k \in 1..17 : k <= 3 => RuleOrder[k] \in MediumRiskTools
    BY <2>2, RuleOrderIs DEF MediumRiskTools
  <2>4. QED
    BY <1>2, <2>1, <2>3
<1> HIDE DEF P, steps
<1>4. 1 \in DOMAIN steps
  <2>1. PICK k \in P : TRUE
    BY <1>2, SelectedIs
  <2>2. QED
    BY <1>1, <2>1 DEF IsSeq
<1>5. \A n \in DOMAIN steps : /\ steps[n].tool \in Selected(q, e)
                              /\ steps[n].tool \notin LowRiskTools => steps[n].tool \in q.asks \cap MediumRiskTools
  BY <1>1, <1>2, <1>3, SelectedIs
<1>6. ASSUME q.asks \cap MediumRiskTools # {} PROVE steps[1].tool \in MediumRiskTools
  <2>1. PICK t \in Selected(q, e) : t \in MediumRiskTools
    BY <1>6, SelectedIs
  <2>2. PICK k \in P : RuleOrder[k] = t
    BY <1>2, <2>1
  <2>3. k <= 3 /\ k \in 1..17
    BY <1>2, <1>3, <2>1, <2>2 DEF MediumRiskTools, LowRiskTools
  <2>4. PICK l \in P : RankIn(P, l) = 1 /\ steps[1].tool = RuleOrder[l]
    BY <1>1, <1>4
  <2>5. ~ (k < l)
    <3>1. RankIn(P, k) \in Nat \ {0}
      BY <1>1, <2>2 DEF IsSeq
    <3>2. k < l => RankIn(P, k) < RankIn(P, l)
      BY <1>1, <2>4
    <3>3. QED
      BY <2>4, <3>1, <3>2
  <2>6. l \in 1..17 /\ l <= 3
    BY <1>2, <2>3, <2>4, <2>5
  <2>7. l = 1 \/ l = 2 \/ l = 3
    BY <2>6
  <2>8. QED
    BY <2>4, <2>7, RuleOrderIs DEF MediumRiskTools
<1>7. \A t \in Selected(q, e) : \E n \in DOMAIN steps : steps[n].tool = t
  BY <1>1, <1>2
<1>8. ReadOnly(steps) <=> q.asks \cap MediumRiskTools = {}
  <2>1. ReadOnly(steps) => q.asks \cap MediumRiskTools = {}
    <3>1. \A t \in q.asks \cap MediumRiskTools : t \in Selected(q, e) /\ t \notin LowRiskTools
      BY SelectedIs DEF LowRiskTools, MediumRiskTools
    <3>2. QED
      BY <1>7, <3>1 DEF ReadOnly, ToolsOf
  <2>2. q.asks \cap MediumRiskTools = {} => ReadOnly(steps)
    BY <1>5 DEF ReadOnly, ToolsOf
  <2>3. QED
    BY <2>1, <2>2
<1>9. QED
  BY <1>4, <1>5, <1>6, <1>7, <1>8 DEF steps


LEMMA OperationsAgain ==
  ASSUME NEW q, q.asks \subseteq AllowedTools, NEW e, NEW l,
         ReadOnly(RulePlan(q, e).steps) \/ l = Left(q, e)
  PROVE  Operations(RulePlan(q, l).steps) = Operations(RulePlan(q, e).steps)
<1> DEFINE asked == q.asks \cap MediumRiskTools
           Of(s) == {[tool |-> t, target |-> Aimed(q, s, t)] : t \in asked}
<1>1. ASSUME NEW s PROVE Operations(RulePlan(q, s).steps) = Of(s)
  <2> DEFINE steps == RulePlan(q, s).steps
             ops == {steps[k] : k \in {j \in DOMAIN steps : steps[j].tool \notin LowRiskTools}}
  <2>1. ASSUME NEW x \in ops PROVE [tool |-> x.tool, target |-> Target(x)] \in Of(s)
    <3>1. PICK k \in DOMAIN steps : x = steps[k] /\ steps[k].tool \notin LowRiskTools
      OBVIOUS
    <3>2. x.tool \in asked
      BY <3>1, RuleOperations
    <3>3. x.args = RuleArgs(q, s, Selected(q, s))
      BY <3>1, RulePlanIs
    <3>4. Target(x) = Aimed(q, s, x.tool)
      BY <3>3 DEF Aimed, Target
    <3>5. QED
      BY <3>2, <3>4
  <2>2. ASSUME NEW t \in asked
        PROVE  \E x \in ops : x.tool = t /\ Target(x) = Aimed(q, s, t)
    <3>1. t \in Selected(q, s) /\ t \notin LowRiskTools
      BY SelectedIs DEF LowRiskTools, MediumRiskTools
    <3>2. PICK k \in DOMAIN steps : steps[k].tool = t
      BY <3>1, RuleOperations
    <3>3. steps[k] \in ops
      BY <3>1, <3>2
    <3>4. steps[k].args = RuleArgs(q, s, Selected(q, s))
      BY <3>2, RulePlanIs
    <3>5. Target(steps[k]) = Aimed(q, s, t)
      BY <3>2, <3>4 DEF Aimed, Target
    <3>6. QED
      BY <3>2, <3>3, <3>5
  <2>3. Operations(steps) = {[tool |-> x.tool, target |-> Target(x)] : x \in ops}
    BY DEF Operations
  <2> HIDE DEF ops, asked
  <2>4. {[tool |-> x.tool, target |-> Target(x)] : x \in ops} \subseteq Of(s)
    BY <2>1
  <2>5. Of(s) \subseteq {[tool |-> x.tool, target |-> Target(x)] : x \in ops}
    BY <2>2
  <2>6. QED
    BY <2>3, <2>4, <2>5
<1>2. Of(l) = Of(e)
  <2>1. CASE asked = {}
    BY <2>1
  <2>2. CASE asked # {}
    <3>1. l = Left(q, e)
      BY <2>2, RuleOperations
    <3>2. \A t \in asked : Aimed(q, l, t) = Aimed(q, e, t)
      BY <3>1, AimedAgain
    <3> HIDE DEF asked
    <3>3. QED
      BY <3>2
  <2>3. QED
    BY <2>1, <2>2
<1>3. QED
  BY <1>1, <1>2

-----------------------------------------------------------------------------
(* Where the references of a plan go: to the steps its answer meant.       *)
Means(a, steps) ==
  \A n \in DOMAIN steps : <<steps[n].tool, steps[n].args.pid>> \in Meant(a, steps[n].id)
Plain(steps) == \A n \in DOMAIN steps : steps[n].ref = 0
Sourced(a, steps) == IsSeq(steps) /\ (Plain(steps) \/ Means(a, steps))

LEMMA ParsedIs ==
  ASSUME NEW a \in Answer
  PROVE  /\ IsSeq(ParseSteps(a.steps)) /\ Means(a, ParseSteps(a.steps))
         /\ \A n \in DOMAIN ParseSteps(a.steps) :
              \E k \in DOMAIN a.steps, id \in Nat : ParseSteps(a.steps)[n] = [a.steps[k] EXCEPT !.id = id]
         /\ IsSeq(Tools(a))
<1> DEFINE raw == a.steps
           all == [k \in DOMAIN raw |-> [raw[k] EXCEPT !.id = IF @ = 0 THEN k ELSE @]]
           P == {k \in DOMAIN all : all[k].tool \in AllowedTools}
           steps == Picked(all, P)
<1>1. IsSeq(raw) /\ IsSeq(a.tools) /\ \A k \in DOMAIN raw : IsStep(raw[k])
  BY AnswerAssumption DEF IsList, IsSeq
<1>2. DOMAIN raw = 1..Len(raw) /\ Len(raw) \in Nat
  BY <1>1 DEF IsSeq
<1>3. IsSeq(all) /\ DOMAIN all = DOMAIN raw
  <2>1. all = [k \in 1..Len(raw) |-> all[k]]
    BY <1>2
  <2> HIDE DEF all
  <2>2. QED
    BY <1>2, <2>1, ListIsSeq
<1>4. \A k \in DOMAIN raw :
        /\ all[k] = [raw[k] EXCEPT !.id = IF @ = 0 THEN k ELSE @]
        /\ all[k].tool = raw[k].tool /\ all[k].args = raw[k].args
        /\ all[k].id = (IF raw[k].id = 0 THEN k ELSE raw[k].id) /\ all[k].id \in Nat
        /\ all[k] = [raw[k] EXCEPT !.id = all[k].id]
  BY <1>1, <1>2 DEF IsStep
<1> HIDE DEF all
<1>5. IsPicked(steps, all, P)
  BY <1>3, PickedIs
<1>6. ParseSteps(raw) = IF DistinctIds(steps) THEN steps ELSE <<>>
  BY DEF ParseSteps, Known, all
<1> HIDE DEF steps
<1>7. IsSeq(ParseSteps(raw)) /\ \A n \in DOMAIN ParseSteps(raw) : \E k \in P : ParseSteps(raw)[n] = all[k]
  <2>1. IsSeq(<<>>) /\ DOMAIN <<>> = {}
    BY DEF IsSeq
  <2>2. QED
    BY <1>5, <1>6, <2>1 DEF IsPicked
<1>8. \A k \in P : <<all[k].tool, all[k].args.pid>> \in Meant(a, all[k].id)
  <2> SUFFICES ASSUME NEW k \in P PROVE <<all[k].tool, all[k].args.pid>> \in Meant(a, all[k].id)
    OBVIOUS
  <2>1. /\ k \in DOMAIN a.steps /\ a.steps[k].tool \in AllowedTools
        /\ all[k].tool = a.steps[k].tool /\ all[k].args = a.steps[k].args
        /\ a.steps[k].id = all[k].id \/ (a.steps[k].id = 0 /\ k = all[k].id)
    BY <1>3, <1>4
  <2> HIDE DEF P
  <2>2. QED
    BY <2>1 DEF Meant
<1>9. Means(a, ParseSteps(raw))
  BY <1>7, <1>8 DEF Means
<1>10. \A n \in DOMAIN ParseSteps(raw) :
         \E k \in DOMAIN raw, id \in Nat : ParseSteps(raw)[n] = [raw[k] EXCEPT !.id = id]
  <2> SUFFICES ASSUME NEW n \in DOMAIN ParseSteps(raw)
               PROVE  \E k \in DOMAIN raw, id \in Nat : ParseSteps(raw)[n] = [raw[k] EXCEPT !.id = id]
    OBVIOUS
  <2>1. PICK k \in P : ParseSteps(raw)[n] = all[k]
    BY <1>7
  <2>2. k \in DOMAIN raw /\ all[k].id \in Nat /\ all[k] = [raw[k] EXCEPT !.id = all[k].id]
    BY <1>3, <1>4
  <2>3. QED
    BY <2>1, <2>2, Zenon
<1>11. IsSeq(Tools(a))
  BY <1>1, OnlyIs DEF Tools
<1>12. QED
  BY <1>7, <1>9, <1>10, <1>11

LEMMA SilentDecides == NoDecision(Silent)
<1>1. Silent \in Answer /\ DOMAIN Silent.steps = {} /\ IsSeq(Silent.tools) /\ DOMAIN Silent.tools = {}
  BY AnswerAssumption DEF Silent, IsSeq
<1>2. ParseSteps(Silent.steps) = <<>>
  BY <1>1, ParsedIs, EmptyOrFirst
<1>3. Tools(Silent) = <<>>
  BY <1>1, OnlyIs, EmptyOrFirst DEF Tools
<1>4. QED
  BY <1>2, <1>3 DEF NoDecision


LEMMA FlatIsPlain ==
  ASSUME NEW tools, IsSeq(tools), NEW v, NEW a
  PROVE  Sourced(a, Flat(tools, v))
<1>1. IsSeq(Flat(tools, v)) /\ \A k \in DOMAIN Flat(tools, v) : Flat(tools, v)[k].ref = 0
  <2>1. /\ IsSeq(Flat(tools, v)) /\ DOMAIN Flat(tools, v) = DOMAIN tools
        /\ \A k \in DOMAIN tools : Flat(tools, v)[k] = [id |-> k, tool |-> tools[k], ref |-> 0, args |-> v]
    BY FlatIs
  <2>2. QED
    BY <2>1
<1>2. QED
  BY <1>1 DEF Sourced, Plain

LEMMA PlanIs ==
  ASSUME NEW q, q.asks \subseteq AllowedTools, NEW e, NEW a \in Answer
  PROVE  /\ Sourced(a, PlanOf(q, e, a).steps) /\ 1 \in DOMAIN PlanOf(q, e, a).steps
         /\ PlanOf(q, e, a).source = "rules" \/ a = Silent => PlanOf(q, e, a) = RulePlan(q, e)
         /\ RulePlan(q, e).source = "rules"
<1>1. CASE NoDecision(a)
  BY <1>1, RulePlanIs, RuleOperations DEF PlanOf, Sourced, Plain
<1>2. CASE ~NoDecision(a)
  <2> DEFINE steps == ParseSteps(a.steps)
             shared == Enriched(q, Tools(a), a.args)
             own == [k \in DOMAIN steps |->
                       [steps[k] EXCEPT !.args = Enriched(q, <<steps[k].tool>>, @)]]
  <2>1. PlanOf(q, e, a) = IF steps # <<>> THEN [source |-> "llm", args |-> NoArgs, steps |-> own]
                          ELSE [source |-> "llm", args |-> shared, steps |-> Flat(Once(Tools(a)), shared)]
    BY <1>2 DEF PlanOf, ModelPlan
  <2>2. IsSeq(steps) /\ Means(a, steps) /\ IsSeq(Tools(a))
    BY ParsedIs
  <2> HIDE DEF shared
  <2>3. CASE steps # <<>>
    <3>1. \A n \in DOMAIN steps : \E s, id : /\ IsStep(s) /\ steps[n] = [s EXCEPT !.id = id]
      <4>1. \A n \in DOMAIN steps : \E k \in DOMAIN a.steps, id \in Nat : steps[n] = [a.steps[k] EXCEPT !.id = id]
        BY ParsedIs
      <4>2. \A k \in DOMAIN a.steps : IsStep(a.steps[k])
        BY AnswerAssumption
      <4> HIDE DEF steps
      <4>3. QED
        BY <4>1, <4>2
    <3>2. \A n \in DOMAIN steps : /\ DOMAIN steps[n] = {"id", "tool", "ref", "args"}
                                  /\ DOMAIN steps[n].args = DOMAIN NoArgs
      BY <3>1 DEF IsStep
    <3>3. "pid" \in DOMAIN NoArgs
      BY DEF NoArgs
    <3> HIDE DEF steps
    <3>4. \A n \in DOMAIN steps : /\ own[n].tool = steps[n].tool /\ own[n].id = steps[n].id
                                  /\ own[n].args.pid = steps[n].args.pid
      <4>1. ASSUME NEW t, NEW s, DOMAIN s = DOMAIN NoArgs PROVE Enriched(q, t, s).pid = s.pid
        BY <3>3, <4>1 DEF Enriched
      <4>2. ASSUME NEW n \in DOMAIN steps
            PROVE  /\ own[n].tool = steps[n].tool /\ own[n].id = steps[n].id
                   /\ own[n].args.pid = steps[n].args.pid
        <5>1. own[n] = [steps[n] EXCEPT !.args = Enriched(q, <<steps[n].tool>>, steps[n].args)]
          BY <4>2
        <5> HIDE DEF own
        <5>2. own[n].args = Enriched(q, <<steps[n].tool>>, steps[n].args)
          BY <3>2, <5>1
        <5>3. QED
          BY <3>2, <4>1, <5>1, <5>2
      <4>3. QED
        BY <4>2
    <3>5. DOMAIN own = 1..Len(steps) /\ Len(steps) \in Nat /\ DOMAIN own = DOMAIN steps
      BY <2>2 DEF IsSeq
    <3>6. own = [k \in 1..Len(steps) |-> own[k]]
      BY <3>5
    <3> HIDE DEF own
    <3>7. IsSeq(own)
      BY <3>5, <3>6, ListIsSeq
    <3>8. Means(a, own)
      BY <2>2, <3>4, <3>5 DEF Means
    <3>9. 1 \in DOMAIN own
      BY <2>2, <2>3, <3>5, EmptyOrFirst
    <3>10. PlanOf(q, e, a).source = "llm" /\ PlanOf(q, e, a).steps = own
      BY <2>1, <2>3
    <3>11. a # Silent
      BY <1>2, SilentDecides
    <3>12. RulePlan(q, e).source = "rules"
      BY RulePlanIs
    <3>13. QED
      BY <3>7, <3>8, <3>9, <3>10, <3>11, <3>12 DEF Sourced
  <2>4. CASE steps = <<>>
    <3>1. Tools(a) # <<>>
      BY <1>2, <2>4 DEF NoDecision
    <3>2. 1 \in DOMAIN Tools(a)
      BY <2>2, <3>1, EmptyOrFirst
    <3>3. IsSeq(Once(Tools(a))) /\ 1 \in DOMAIN Once(Tools(a))
      BY <2>2, <3>2, OnceIs
    <3>4. /\ Sourced(a, Flat(Once(Tools(a)), shared))
          /\ 1 \in DOMAIN Flat(Once(Tools(a)), shared)
      BY <3>3, FlatIs, FlatIsPlain
    <3>5. PlanOf(q, e, a).source = "llm" /\ PlanOf(q, e, a).steps = Flat(Once(Tools(a)), shared)
      BY <2>1, <2>4
    <3>6. a # Silent
      BY <1>2, SilentDecides
    <3>7. RulePlan(q, e).source = "rules"
      BY RulePlanIs
    <3>8. QED
      BY <3>4, <3>5, <3>6, <3>7
  <2>5. QED
    BY <2>3, <2>4
<1>3. QED
  BY <1>1, <1>2

LEMMA PlanNextIs ==
  ASSUME NEW c, NEW x, NEW b, NEW a \in Answer
  PROVE  /\ Sourced(a, PlanNext(c, x, b, a))
         /\ a = Silent => PlanNext(c, x, b, a) = RuleNext(c, x, b)
<1> DEFINE steps == ParseSteps(a.steps)
           left == {k \in DOMAIN steps : steps[k].tool \notin x}
           tools == Once(Only(Tools(a), AllowedTools \ x))
<1>1. IsSeq(steps) /\ Means(a, steps) /\ IsSeq(Tools(a))
  BY ParsedIs
<1>2. IsSeq(<<>>) /\ IsSeq(<<"log">>)
  BY DEF IsSeq
<1>3. Sourced(a, RuleNext(c, x, b))
  <2>1. Plain(<<>>)
    BY DEF Plain
  <2>2. Sourced(a, <<>>)
    BY <1>2, <2>1 DEF Sourced
  <2>3. QED
    BY <1>2, <2>2, FlatIsPlain DEF RuleNext
<1>4. Sourced(a, Picked(steps, left))
  <2>1. left \subseteq DOMAIN steps
    OBVIOUS
  <2> HIDE DEF left, steps
  <2>2. IsPicked(Picked(steps, left), steps, left)
    BY <1>1, <2>1, PickedIs
  <2>3. \A n \in DOMAIN Picked(steps, left) : \E k \in DOMAIN steps : Picked(steps, left)[n] = steps[k]
    BY <2>1, <2>2 DEF IsPicked
  <2>4. Means(a, Picked(steps, left))
    BY <1>1, <2>3 DEF Means
  <2>5. QED
    BY <2>2, <2>4 DEF Sourced, IsPicked
<1>5. Sourced(a, Flat(tools, a.args))
  <2>1. IsSeq(Only(Tools(a), AllowedTools \ x))
    BY <1>1, OnlyIs
  <2>2. IsSeq(tools)
    BY <2>1, OnceIs
  <2>3. QED
    BY <2>2, FlatIsPlain
<1>6. PlanNext(c, x, b, a) = IF NoDecision(a) THEN RuleNext(c, x, b)
                             ELSE IF steps # <<>> THEN Picked(steps, left) ELSE Flat(tools, a.args)
  BY DEF PlanNext
<1> HIDE DEF steps, left, tools
<1>7. QED
  BY <1>3, <1>4, <1>5, <1>6, SilentDecides

-----------------------------------------------------------------------------
\* An operation that is not approved does not pass: none is a preview.
LEMMA OperationStopped ==
  ASSUME NEW q, ~q.approved, StepOf(q).tool \in MediumRiskTools
  PROVE  ~Cleared(q)
<1> DEFINE t == StepOf(q).tool
           f == FactsOf(q.query, t, ArgsOf(q))
           c == ClientOf(q)
<1>1. f.command = "none" /\ ~f.dryRun /\ ~c.approved
  BY DEF FactsOf, ClientOf
<1> HIDE DEF f, c
<1>2. RiskOf(t, f) \in Risk \ {"low"}
  BY <1>1, OperatingRisk DEF RiskOf
<1>3. ~WaivedByPreview(t, f)
  BY <1>1 DEF WaivedByPreview
<1>4. ConfirmOf(t, f) \/ RiskOf(t, f) \in BlockedByDefault
  BY <1>2, <1>3 DEF ConfirmOf, Risk, Confirmed, BlockedByDefault
<1>5. Check(t, f, c).blocked
  BY <1>1, <1>4, CheckIs, FailedAre
<1>6. QED
  BY <1>5 DEF Cleared, Verdict, f, c

(* The step that reads the log passes for an operator whose query asks for *)
(* no operation, unless the conversation is among its arguments.           *)
LEMMA LogCleared ==
  ASSUME NEW q, q.query.asks \cap MediumRiskTools = {}, NEW leak,
         StepOf(q) = [id |-> 1, tool |-> "log", ref |-> 0, args |-> [NoArgs EXCEPT !.leak = leak]],
         ~leak
  PROVE  Cleared(q)
<1> DEFINE f == FactsOf(q.query, "log", ArgsOf(q))
           c == ClientOf(q)
<1>1. /\ StepOf(q).tool = "log" /\ StepOf(q).ref = 0 /\ StepOf(q).args = [NoArgs EXCEPT !.leak = leak]
  OBVIOUS
<1>2. ArgsOf(q) = [NoArgs EXCEPT !.leak = leak]
  BY <1>1 DEF ArgsOf
<1>3. /\ ArgsOf(q).pid = None /\ ArgsOf(q).service = None /\ ~ArgsOf(q).leak
  BY <1>2 DEF NoArgs
<1>4. WordsOf(q.query) = {}
  BY DEF WordsOf, MediumRiskTools
<1>5. /\ f.types = "ok" /\ f.safeChars /\ f.service = "none" /\ f.words = {} /\ f.command = "none"
  BY <1>3, <1>4 DEF FactsOf
<1>6. ResolveRole(c) = "operator"
  BY DEF ClientOf, ResolveRole
<1> HIDE DEF f, c
<1>7. RiskOf("log", f) = "low"
  <2>1. ToolRisk("log") = "low"
    BY DEF ToolRisk, MediumRiskTools, HighRiskTools, LowRiskTools
  <2>2. TextRisk(f) = "low"
    BY <1>5 DEF TextRisk
  <2>3. ScanRisk("log", f) = "low"
    BY DEF ScanRisk, ReadScanTools
  <2>4. QED
    BY <1>5, <2>1, <2>2, <2>3 DEF RiskOf, CalculateRisk, MaxRisk
<1>8. /\ "log" \in Registered /\ SchemaOk("log", f) /\ ProcessOk("log", f) /\ PathOk("log", f)
      /\ ~ConfirmOf("log", f)
  <2>1. "log" \in Registered
    BY RuleOrderIs, ToolAssumption DEF AllowedTools
  <2>2. QED
    BY <1>5, <1>7, <2>1 DEF SchemaOk, ProcessOk, PathOk, ConfirmOf, Confirmed
<1>9. ~Check("log", f, c).blocked
  <2>1. ResolveRole(c) \in AllowedRoles[RiskOf("log", f)]
    BY <1>6, <1>7 DEF AllowedRoles, Role
  <2>2. RiskOf("log", f) \notin BlockedByDefault
    BY <1>7 DEF BlockedByDefault
  <2>3. QED
    BY <1>5, <1>8, <2>1, <2>2, CheckIs, FailedAre
<1>10. QED
  BY <1>1, <1>9 DEF Cleared, Verdict, Resolves, f, c

-----------------------------------------------------------------------------
(* A request under way: planned for a query it may be sent with; doing the *)
(* steps of its plan first and only reading after that; what it ran is what*)
(* the answers of its rounds meant, and its operations those of the rules' *)
(* plan with the plan's arguments.                                         *)
Busy == {"execute", "next", "conclude"}

Planned(q, m) ==
  /\ q.query \in Queries /\ IsSeq(q.plan.steps)
  /\ q.plan.source = "rules" => \E e : q.plan = RulePlan(q.query, e)
  /\ ~m => q.plan.source = "rules"

Doing(q) ==
  /\ q.round \in Nat \ {0}
  /\ q.round = 1 => q.current = q.plan.steps
  /\ q.round > 1 => ReadOnly(q.current) /\ Loops(q)
  /\ q.pc = "next" => Loops(q) /\ q.k = 1 /\ q.outputs = <<>>
  /\ q.pc = "execute" => IsSeq(q.current) /\ q.k \in DOMAIN q.current

Meaning(q) ==
  /\ IsSeq(q.answers) /\ Len(q.answers) = q.round /\ IsSeq(q.ran)
  /\ \A n \in DOMAIN q.ran :
       LET x == q.ran[n]
       IN  x.round \in 1..q.round /\ (x.ref # 0 => x.read \in Meant(q.answers[x.round], x.ref))
  /\ q.pc = "execute" =>
       \/ Plain(q.current)
       \/ /\ Means(q.answers[q.round], q.current)
          /\ \A id \in DOMAIN q.outputs : q.outputs[id].call \in Meant(q.answers[q.round], id)

Acting(q) ==
  q.plan.source = "rules" =>
    \A n \in DOMAIN q.ran : q.ran[n].tool \notin LowRiskTools =>
      q.ran[n].tool \in ToolsOf(q.plan.steps) /\ q.ran[n].args = q.plan.args

(* Before it is approved, a rules' plan with an operation has done nothing:*)
(* its first step is one.                                                  *)
Unrun(q) ==
  /\ q.asks => ~q.approved
  /\ ~q.approved /\ q.plan.source = "rules" /\ ~ReadOnly(q.plan.steps) =>
       q.found = NoEntity /\ q.round = 1 /\ (q.pc = "execute" => q.k = 1)

(* Without a model: the first round ran the first steps of the plan, and   *)
(* the rounds after it read the log.                                       *)
Reading(q) ==
  /\ q.abnormal => Ran(q, "service")
  /\ q.round = 1 =>
       /\ q.executed \subseteq ToolsOf(q.plan.steps) /\ DOMAIN q.ran \subseteq DOMAIN q.plan.steps
       /\ \A n \in DOMAIN q.ran : q.ran[n].tool = q.plan.steps[n].tool
       /\ q.pc = "execute" => Len(q.ran) = q.k - 1
       /\ q.pc = "conclude" /\ Loops(q) /\ q.abnormal /\ MaxRounds > 1 => Ran(q, "log") \/ q.blocked
  /\ q.round > 1 =>
       /\ q.pc = "execute" => q.current = Flat(<<"log">>, [NoArgs EXCEPT !.leak = q.conversation])
       /\ q.pc = "next" => Ran(q, "log")
       /\ q.pc = "conclude" => Ran(q, "log") \/ (q.blocked /\ q.conversation)

Sound(q, m) ==
  /\ DOMAIN q = DOMAIN Fresh
  /\ q.pc \notin Busy => q.ran = <<>>
  /\ q.pc \in Busy => /\ Planned(q, m) /\ Doing(q) /\ Meaning(q) /\ Acting(q) /\ Unrun(q)
                      /\ ~m => Reading(q)

\* What a request asked to be confirmed is what it left in the session.
Remembered ==
  /\ pending.query # None => pending.query \in Queries
  /\ pending.rules =>
       \E e : /\ pending.operations = Operations(RulePlan(pending.query, e).steps)
              /\ ReadOnly(RulePlan(pending.query, e).steps) \/ pending.left = Left(pending.query, e)

Talking == /\ DOMAIN req = Request /\ \A r \in Request : Sound(req[r], model)
           /\ Remembered


LEMMA NotBusySound ==
  ASSUME NEW s, s \notin Busy, NEW m
  PROVE  Sound([Fresh EXCEPT !.pc = s], m)
<1>1. [Fresh EXCEPT !.pc = s].pc = s /\ [Fresh EXCEPT !.pc = s].ran = <<>>
      /\ DOMAIN [Fresh EXCEPT !.pc = s] = DOMAIN Fresh
  BY DEF Fresh
<1>2. QED
  BY <1>1 DEF Sound

\* A request as it begins, with plan l of answer a.
Begun(p, w, y, c, l, a) ==
  /\ DOMAIN p = DOMAIN Fresh /\ p.pc = "execute" /\ p.query = w /\ p.approved = y
  /\ p.conversation = c /\ p.plan = l /\ p.current = l.steps /\ p.answers = <<a>>
  /\ \A x \in {"k", "round", "outputs", "executed", "ran", "found", "abnormal", "blocked", "asks"} : p[x] = Fresh[x]

LEMMA BegunIs ==
  ASSUME NEW w, NEW y, NEW n, NEW c, NEW l, NEW a
  PROVE  Begun([Fresh EXCEPT !.pc = "execute", !.query = w, !.approved = y, !.sid = n,
                             !.conversation = c, !.plan = l, !.current = l.steps, !.answers = <<a>>],
               w, y, c, l, a)
<1> DEFINE f == [Fresh EXCEPT !.pc = "execute", !.query = w, !.approved = y]
           g == [f EXCEPT !.sid = n, !.conversation = c, !.plan = l]
           p == [g EXCEPT !.current = l.steps, !.answers = <<a>>]
           kept == {"k", "round", "outputs", "executed", "ran", "found", "abnormal", "blocked", "asks"}
<1>1. DOMAIN f = DOMAIN Fresh /\ f.pc = "execute" /\ f.query = w /\ f.approved = y
  BY DEF Fresh
<1>2. \A x \in kept : f[x] = Fresh[x]
  BY DEF Fresh
<1> HIDE DEF f
<1>3. DOMAIN g = DOMAIN Fresh /\ g.pc = f.pc /\ g.query = f.query /\ g.approved = f.approved
      /\ g.conversation = c /\ g.plan = l
  BY <1>1 DEF Fresh
<1>4. \A x \in kept : g[x] = f[x]
  BY <1>1 DEF Fresh
<1> HIDE DEF g
<1>5. DOMAIN p = DOMAIN Fresh /\ p.pc = g.pc /\ p.query = g.query /\ p.approved = g.approved
      /\ p.conversation = g.conversation /\ p.plan = g.plan /\ p.current = l.steps /\ p.answers = <<a>>
  BY <1>3 DEF Fresh
<1>6. \A x \in kept : p[x] = g[x]
  BY <1>3 DEF Fresh
<1> HIDE DEF p
<1>7. Begun(p, w, y, c, l, a)
  BY <1>1, <1>2, <1>3, <1>4, <1>5, <1>6 DEF Begun
<1>8. QED
  BY <1>7 DEF p, g, f

LEMMA BeginSound ==
  ASSUME NEW w \in Queries, NEW y, NEW c, NEW e, NEW m, NEW a \in Answer, ~m => a = Silent,
         NEW p, Begun(p, w, y, c, PlanOf(w, e, a), a)
  PROVE  Sound(p, m)
<1> DEFINE l == PlanOf(w, e, a)
<1>1. /\ Sourced(a, l.steps) /\ 1 \in DOMAIN l.steps
      /\ l.source = "rules" \/ a = Silent => l = RulePlan(w, e)
      /\ RulePlan(w, e).source = "rules"
  BY QueryAssumption, PlanIs
<1> HIDE DEF l
<1>2. Begun(p, w, y, c, l, a)
  BY DEF l
<1>3. /\ DOMAIN p = DOMAIN Fresh /\ p.pc = "execute" /\ p.query = w /\ p.approved = y /\ p.plan = l
      /\ p.current = l.steps /\ p.answers = <<a>> /\ p.k = 1 /\ p.round = 1 /\ p.outputs = <<>>
      /\ p.executed = {} /\ p.ran = <<>> /\ p.found = NoEntity /\ p.abnormal = FALSE /\ p.asks = FALSE
  BY <1>2 DEF Begun, Fresh
<1>4. Planned(p, m)
  BY <1>1, <1>3 DEF Planned, Sourced
<1>5. Doing(p)
  BY <1>1, <1>3 DEF Doing, Sourced
<1>6. Meaning(p)
  <2>1. IsSeq(<<a>>) /\ Len(<<a>>) = 1 /\ <<a>>[1] = a /\ IsSeq(<<>>) /\ DOMAIN <<>> = {}
    BY DEF IsSeq
  <2>2. QED
    BY <1>1, <1>3, <2>1 DEF Meaning, Sourced
<1>7. Acting(p) /\ Unrun(p)
  BY <1>3 DEF Acting, Unrun
<1>8. Reading(p)
  <2>1. DOMAIN <<>> = {} /\ Len(<<>>) = 0
    OBVIOUS
  <2>2. QED
    BY <1>3, <2>1 DEF Reading
<1>9. QED
  BY <1>3, <1>4, <1>5, <1>6, <1>7, <1>8 DEF Sound

\* What ends an execution leaves of a request.
HaltsAs(q, p) ==
  /\ DOMAIN p = DOMAIN Fresh /\ p.pc = "conclude" /\ p.blocked = TRUE
  /\ p.asks = (Resolves(q) /\ Verdict(q).confirm /\ ~q.approved)
  /\ p.executed = q.executed \cup ToolsOf(q.current)
  /\ \A x \in {"query", "approved", "sid", "conversation", "plan", "current", "answers", "round", "ran",
               "found", "abnormal"} : p[x] = q[x]

LEMMA HaltIs ==
  ASSUME NEW q, DOMAIN q = DOMAIN Fresh, NEW b, NEW c
  PROVE  LET p == [q EXCEPT !.pc = "conclude", !.blocked = TRUE, !.asks = b,
                            !.executed = @ \cup c, !.k = 1, !.outputs = <<>>]
         IN  /\ DOMAIN p = DOMAIN Fresh /\ p.pc = "conclude" /\ p.blocked = TRUE /\ p.asks = b
             /\ p.executed = q.executed \cup c
             /\ \A x \in {"query", "approved", "sid", "conversation", "plan", "current",
                          "answers", "round", "ran",
                          "found", "abnormal"} : p[x] = q[x]
<1> DEFINE f == [q EXCEPT !.pc = "conclude", !.blocked = TRUE, !.asks = b]
           g == [f EXCEPT !.executed = @ \cup c]
           p == [g EXCEPT !.k = 1, !.outputs = <<>>]
           kept == {"query", "approved", "sid", "conversation", "plan", "current", "answers",
                    "round", "ran",
                    "found", "abnormal"}
<1>1. DOMAIN f = DOMAIN Fresh /\ f.pc = "conclude" /\ f.blocked = TRUE /\ f.asks = b /\ f.executed = q.executed
  BY DEF Fresh
<1>2. \A x \in kept : f[x] = q[x]
  BY DEF Fresh
<1> HIDE DEF f
<1>3. /\ DOMAIN g = DOMAIN Fresh /\ g.pc = f.pc /\ g.blocked = f.blocked /\ g.asks = f.asks
      /\ g.executed = f.executed \cup c
  BY <1>1 DEF Fresh
<1>4. \A x \in kept : g[x] = f[x]
  BY <1>1 DEF Fresh
<1> HIDE DEF g
<1>5. /\ DOMAIN p = DOMAIN Fresh /\ p.pc = g.pc /\ p.blocked = g.blocked /\ p.asks = g.asks
      /\ p.executed = g.executed
  BY <1>3 DEF Fresh
<1>6. \A x \in kept : p[x] = g[x]
  BY <1>3 DEF Fresh
<1> HIDE DEF p
<1>7. /\ DOMAIN p = DOMAIN Fresh /\ p.pc = "conclude" /\ p.blocked = TRUE /\ p.asks = b
      /\ p.executed = q.executed \cup c /\ \A x \in kept : p[x] = q[x]
  BY <1>1, <1>2, <1>3, <1>4, <1>5, <1>6
<1>8. QED
  BY <1>7 DEF p, g, f

\* A request that is stopped stays sound.
LEMMA StopSound ==
  ASSUME NEW q, NEW m, Sound(q, m), q.pc = "execute", ~Cleared(q), NEW p, HaltsAs(q, p)
  PROVE  Sound(p, m)
<1>1. Planned(q, m) /\ Doing(q) /\ Meaning(q) /\ Acting(q) /\ Unrun(q) /\ (~m => Reading(q))
  BY DEF Sound, Busy
<1>2. /\ p.query = q.query /\ p.approved = q.approved /\ p.conversation = q.conversation
      /\ p.plan = q.plan
      /\ p.current = q.current /\ p.answers = q.answers /\ p.round = q.round /\ p.ran = q.ran
      /\ p.found = q.found /\ p.abnormal = q.abnormal
      /\ p.pc = "conclude" /\ p.blocked = TRUE /\ (p.asks => ~q.approved)
      /\ p.executed = q.executed \cup ToolsOf(q.current) /\ DOMAIN p = DOMAIN Fresh
  BY DEF HaltsAs
<1>3. Planned(p, m)
  BY <1>1, <1>2 DEF Planned
<1>4. Doing(p)
  BY <1>1, <1>2 DEF Doing, Loops
<1>5. Meaning(p)
  BY <1>1, <1>2 DEF Meaning
<1>6. Acting(p)
  BY <1>1, <1>2 DEF Acting
<1>7. Unrun(p)
  BY <1>1, <1>2 DEF Unrun
<1>8. ASSUME ~m PROVE Reading(p)
  <2>1. Reading(q)
    BY <1>1, <1>8
  <2>2. Ran(p, "service") = Ran(q, "service") /\ Ran(p, "log") = Ran(q, "log") /\ Loops(p) = Loops(q)
    BY <1>2 DEF Ran, Loops
  <2>3. CASE q.round = 1
    BY <1>1, <1>2, <2>1, <2>2, <2>3 DEF Reading, Doing
  <2>4. CASE q.round > 1
    <3>1. /\ q.current = Flat(<<"log">>, [NoArgs EXCEPT !.leak = q.conversation])
          /\ q.k \in DOMAIN q.current
      BY <1>1, <2>1, <2>4 DEF Reading, Doing
    <3>2. StepOf(q) = [id |-> 1, tool |-> "log", ref |-> 0, args |-> [NoArgs EXCEPT !.leak = q.conversation]]
      BY <3>1 DEF Flat, StepOf
    <3>3. q.query.asks \cap MediumRiskTools = {}
      <4>1. PICK e : q.plan = RulePlan(q.query, e)
        BY <1>1, <1>8 DEF Planned
      <4>2. ReadOnly(q.plan.steps) /\ q.query.asks \subseteq AllowedTools
        BY <1>1, <2>4, QueryAssumption DEF Doing, Loops, Planned
      <4>3. QED
        BY <4>1, <4>2, RuleOperations
    <3>4. q.conversation
      BY <3>2, <3>3, LogCleared
    <3>5. QED
      BY <1>2, <2>1, <2>2, <2>4, <3>4 DEF Reading
  <2>5. QED
    BY <1>1, <2>3, <2>4 DEF Doing
<1>9. QED
  BY <1>2, <1>3, <1>4, <1>5, <1>6, <1>7, <1>8 DEF Sound, Busy


\* What a step that runs leaves of a request.
Over(q, fails) == fails \/ q.k = Len(q.current)
CallBy(q) == [tool |-> StepOf(q).tool, args |-> ArgsOf(q), ref |-> StepOf(q).ref, round |-> q.round,
              read |-> IF StepOf(q).ref = 0 THEN None ELSE q.outputs[StepOf(q).ref].call]
OutputsBy(q, f) ==
  [id \in DOMAIN q.outputs \cup {StepOf(q).id} |->
     IF id # StepOf(q).id THEN q.outputs[id]
     ELSE [call |-> <<StepOf(q).tool, StepOf(q).args.pid>>, pid |-> f.pid]]
RunsAs(q, p, fails, b, f) ==
  /\ DOMAIN p = DOMAIN Fresh /\ p.ran = Append(q.ran, CallBy(q))
  /\ p.outputs = (IF Over(q, fails) THEN <<>> ELSE OutputsBy(q, f))
  /\ p.found = Merged(q.found, f) /\ p.abnormal = (q.abnormal \/ b)
  /\ p.executed = q.executed \cup ToolsOf(q.current)
  /\ p.pc = (IF ~Over(q, fails) THEN "execute" ELSE IF Loops(q) THEN "next" ELSE "conclude")
  /\ p.k = (IF Over(q, fails) THEN 1 ELSE q.k + 1)
  /\ \A x \in {"query", "approved", "sid", "conversation", "plan", "current", "answers", "round",
               "blocked", "asks"} : p[x] = q[x]

LEMMA RunIs ==
  ASSUME NEW q, DOMAIN q = DOMAIN Fresh, NEW x, NEW o, NEW f, NEW b, NEW c, NEW s, NEW n
  PROVE  LET p == [q EXCEPT !.ran = Append(@, x), !.outputs = o, !.found = Merged(@, f),
                            !.abnormal = @ \/ b, !.executed = @ \cup c, !.pc = s, !.k = n]
         IN  /\ DOMAIN p = DOMAIN Fresh /\ p.ran = Append(q.ran, x) /\ p.outputs = o
             /\ p.found = Merged(q.found, f) /\ p.abnormal = (q.abnormal \/ b)
             /\ p.executed = q.executed \cup c /\ p.pc = s /\ p.k = n
             /\ \A y \in {"query", "approved", "sid", "conversation", "plan", "current",
                          "answers", "round",
                          "blocked", "asks"} : p[y] = q[y]
<1> DEFINE f1 == [q EXCEPT !.ran = Append(@, x), !.outputs = o, !.found = Merged(@, f)]
           h == [f1 EXCEPT !.abnormal = @ \/ b]
           g == [h EXCEPT !.executed = @ \cup c]
           p == [g EXCEPT !.pc = s, !.k = n]
           kept == {"query", "approved", "sid", "conversation", "plan", "current", "answers", "round",
                    "blocked", "asks"}
<1>1. /\ DOMAIN f1 = DOMAIN Fresh /\ f1.ran = Append(q.ran, x) /\ f1.outputs = o
      /\ f1.found = Merged(q.found, f) /\ f1.abnormal = q.abnormal /\ f1.executed = q.executed
  BY DEF Fresh
<1>2. \A y \in kept : f1[y] = q[y]
  BY DEF Fresh
<1> HIDE DEF f1
<1>3. /\ DOMAIN h = DOMAIN Fresh /\ h.ran = f1.ran /\ h.outputs = f1.outputs /\ h.found = f1.found
      /\ h.executed = f1.executed /\ \A y \in kept : h[y] = f1[y]
  BY <1>1 DEF Fresh
<1>4. h.abnormal = (f1.abnormal \/ b)
  <2>1. "abnormal" \in DOMAIN f1
    BY <1>1 DEF Fresh
  <2>2. QED
    BY <2>1, Zenon
<1> HIDE DEF h
<1>5. /\ DOMAIN g = DOMAIN Fresh /\ g.ran = h.ran /\ g.outputs = h.outputs /\ g.found = h.found
      /\ g.abnormal = h.abnormal /\ g.executed = h.executed \cup c /\ \A y \in kept : g[y] = h[y]
  BY <1>3 DEF Fresh
<1> HIDE DEF g
<1>6. /\ DOMAIN p = DOMAIN Fresh /\ p.ran = g.ran /\ p.outputs = g.outputs /\ p.found = g.found
      /\ p.abnormal = g.abnormal /\ p.executed = g.executed /\ p.pc = s /\ p.k = n
  BY <1>5 DEF Fresh
<1>7. \A y \in kept : p[y] = g[y]
  BY <1>5 DEF Fresh
<1> HIDE DEF p
<1>8. /\ DOMAIN p = DOMAIN Fresh /\ p.ran = Append(q.ran, x) /\ p.outputs = o
      /\ p.found = Merged(q.found, f) /\ p.executed = q.executed \cup c /\ p.pc = s /\ p.k = n
      /\ \A y \in kept : p[y] = q[y]
  BY <1>1, <1>2, <1>3, <1>5, <1>6, <1>7
<1>9. p.abnormal = (q.abnormal \/ b)
  <2>1. p.abnormal = h.abnormal /\ f1.abnormal = q.abnormal
    BY <1>1, <1>5, <1>6
  <2>2. QED
    BY <1>4, <2>1, Zenon
<1>10. p = [q EXCEPT !.ran = Append(@, x), !.outputs = o, !.found = Merged(@, f),
                     !.abnormal = @ \/ b, !.executed = @ \cup c, !.pc = s, !.k = n]
  BY Zenon DEF p, g, h, f1
<1>11. QED
  BY <1>8, <1>9, <1>10, Zenon


\* A request whose step runs stays sound.
LEMMA RunSound ==
  ASSUME NEW q, NEW m, Sound(q, m), q.pc = "execute", Cleared(q), NEW fails, NEW b, NEW f,
         b => StepOf(q).tool = "service", NEW p, RunsAs(q, p, fails, b, f)
  PROVE  Sound(p, m)
<1> DEFINE x == CallBy(q)
           s == StepOf(q)
<1>1. Planned(q, m) /\ Doing(q) /\ Meaning(q) /\ Acting(q) /\ Unrun(q) /\ (~m => Reading(q))
  BY DEF Sound, Busy
<1>2. /\ p.query = q.query /\ p.approved = q.approved /\ p.conversation = q.conversation
      /\ p.plan = q.plan
      /\ p.current = q.current /\ p.answers = q.answers /\ p.round = q.round
      /\ p.blocked = q.blocked /\ p.asks = q.asks
      /\ p.ran = Append(q.ran, x) /\ p.executed = q.executed \cup ToolsOf(q.current)
      /\ DOMAIN p = DOMAIN Fresh
  BY DEF RunsAs
<1>3. /\ p.pc \in Busy /\ p.outputs = (IF Over(q, fails) THEN <<>> ELSE OutputsBy(q, f))
      /\ p.pc = (IF ~Over(q, fails) THEN "execute" ELSE IF Loops(q) THEN "next" ELSE "conclude")
      /\ p.k = (IF Over(q, fails) THEN 1 ELSE q.k + 1)
  BY DEF RunsAs, Busy
<1>4. /\ x.tool = s.tool /\ x.args = ArgsOf(q) /\ x.ref = s.ref /\ x.round = q.round
      /\ x.ref # 0 => x.read = q.outputs[s.ref].call
  BY DEF CallBy
<1>5. /\ IsSeq(q.ran) /\ IsSeq(p.ran) /\ DOMAIN p.ran = 1..(Len(q.ran) + 1) /\ Len(q.ran) \in Nat
      /\ DOMAIN q.ran = 1..Len(q.ran) /\ p.ran[Len(q.ran) + 1] = x /\ Len(p.ran) = Len(q.ran) + 1
      /\ \A n \in DOMAIN q.ran : n \in DOMAIN p.ran /\ p.ran[n] = q.ran[n]
  BY <1>1, <1>2, AppendSeq DEF Meaning
<1>6. IsSeq(q.current) /\ q.k \in DOMAIN q.current /\ s = q.current[q.k] /\ DOMAIN q.current = 1..Len(q.current)
      /\ Len(q.current) \in Nat
  BY <1>1 DEF Doing, StepOf, IsSeq
<1>7. Loops(p) = Loops(q)
  BY <1>2 DEF Loops
<1> HIDE DEF x, s
<1>8. Planned(p, m)
  BY <1>1, <1>2 DEF Planned
<1>9. Doing(p)
  <2>1. p.pc = "next" => Loops(p) /\ p.k = 1 /\ p.outputs = <<>>
    BY <1>3, <1>7
  <2>2. p.pc = "execute" => p.k \in DOMAIN p.current
    BY <1>2, <1>3, <1>6 DEF Over
  <2>3. QED
    BY <1>1, <1>2, <1>6, <1>7, <2>1, <2>2 DEF Doing
<1>10. Meaning(p)
  <2>1. \A n \in DOMAIN p.ran : n \in DOMAIN q.ran \/ n = Len(q.ran) + 1
    BY <1>5
  <2>2. /\ x.round \in 1..q.round
        /\ x.ref # 0 => x.read \in Meant(q.answers[x.round], x.ref)
    <3>1. ASSUME x.ref # 0 PROVE x.read \in Meant(q.answers[q.round], x.ref)
      <4>1. ~Plain(q.current)
        BY <1>4, <1>6, <3>1 DEF Plain
      <4>2. s.ref \in DOMAIN q.outputs
        BY <1>4, <3>1 DEF Cleared, Resolves, s
      <4>3. QED
        BY <1>1, <1>4, <3>1, <4>1, <4>2 DEF Meaning
    <3>2. q.round \in 1..q.round
      BY <1>1 DEF Doing
    <3>3. QED
      BY <1>4, <3>1, <3>2
  <2>3. \A n \in DOMAIN p.ran :
          /\ p.ran[n].round \in 1..q.round
          /\ p.ran[n].ref # 0 => p.ran[n].read \in Meant(q.answers[p.ran[n].round], p.ran[n].ref)
    BY <1>1, <1>5, <2>1, <2>2 DEF Meaning
  <2>4. ASSUME p.pc = "execute", ~Plain(q.current)
        PROVE  \A id \in DOMAIN p.outputs : p.outputs[id].call \in Meant(q.answers[q.round], id)
    <3>1. /\ Means(q.answers[q.round], q.current)
          /\ \A id \in DOMAIN q.outputs : q.outputs[id].call \in Meant(q.answers[q.round], id)
      BY <1>1, <2>4 DEF Meaning
    <3>2. <<s.tool, s.args.pid>> \in Meant(q.answers[q.round], s.id)
      BY <1>6, <3>1 DEF Means
    <3>3. p.outputs = OutputsBy(q, f)
      BY <1>3, <2>4
    <3>4. p.outputs = [id \in DOMAIN q.outputs \cup {s.id} |->
                         IF id # s.id THEN q.outputs[id]
                         ELSE [call |-> <<s.tool, s.args.pid>>, pid |-> f.pid]]
      BY <3>3 DEF OutputsBy, s
    <3>5. QED
      BY <3>1, <3>2, <3>4
  <2>5. QED
    BY <1>1, <1>2, <1>5, <2>3, <2>4 DEF Meaning
<1>11. Acting(p)
  <2> SUFFICES ASSUME q.plan.source = "rules", NEW n \in DOMAIN p.ran, p.ran[n].tool \notin LowRiskTools
               PROVE  p.ran[n].tool \in ToolsOf(q.plan.steps) /\ p.ran[n].args = q.plan.args
    BY <1>2 DEF Acting
  <2>1. CASE n \in DOMAIN q.ran
    BY <1>1, <1>5, <2>1 DEF Acting
  <2>2. CASE n = Len(q.ran) + 1
    <3>1. p.ran[n] = x /\ s.tool \notin LowRiskTools
      BY <1>4, <1>5, <2>2
    <3>2. q.round = 1
      <4>1. s.tool \in ToolsOf(q.current)
        BY <1>6 DEF ToolsOf
      <4>2. ~ReadOnly(q.current)
        BY <3>1, <4>1 DEF ReadOnly
      <4>3. QED
        BY <1>1, <4>2 DEF Doing
    <3>3. q.current = q.plan.steps
      BY <1>1, <3>2 DEF Doing
    <3>4. PICK e : q.plan = RulePlan(q.query, e)
      BY <1>1 DEF Planned
    <3>5. s.ref = 0 /\ s.args = q.plan.args
      BY <1>6, <3>3, <3>4, RulePlanIs
    <3>6. ArgsOf(q) = q.plan.args
      BY <3>5 DEF ArgsOf, s
    <3>7. s.tool \in ToolsOf(q.plan.steps)
      BY <1>6, <3>3 DEF ToolsOf
    <3>8. QED
      BY <1>4, <3>1, <3>6, <3>7
  <2>3. QED
    BY <1>5, <2>1, <2>2
<1>12. Unrun(p)
  <2>1. ASSUME ~q.approved, q.plan.source = "rules", ~ReadOnly(q.plan.steps) PROVE FALSE
    <3>1. q.round = 1 /\ q.k = 1 /\ q.current = q.plan.steps
      BY <1>1, <2>1 DEF Unrun, Doing
    <3>2. PICK e : q.plan = RulePlan(q.query, e)
      BY <1>1, <2>1 DEF Planned
    <3>3. q.query.asks \subseteq AllowedTools
      BY <1>1, QueryAssumption DEF Planned
    <3>4. q.query.asks \cap MediumRiskTools # {}
      BY <2>1, <3>2, <3>3, RuleOperations
    <3>5. RulePlan(q.query, e).steps[1].tool \in MediumRiskTools
      BY <3>3, <3>4, RuleOperations
    <3>6. StepOf(q).tool \in MediumRiskTools
      BY <3>1, <3>2, <3>5 DEF StepOf
    <3>7. QED
      BY <2>1, <3>6, OperationStopped
  <2>2. QED
    BY <1>1, <1>2, <2>1 DEF Unrun
<1>13. ASSUME ~m PROVE Reading(p)
  <2>1. Reading(q)
    BY <1>1, <1>13
  <2>2. /\ Ran(q, "service") => Ran(p, "service")
        /\ Ran(q, "log") => Ran(p, "log")
        /\ Ran(p, s.tool)
    <3>1. \A t : Ran(q, t) => Ran(p, t)
      BY <1>5 DEF Ran
    <3>2. Ran(p, s.tool)
      BY <1>4, <1>5 DEF Ran
    <3>3. QED
      BY <3>1, <3>2
  <2>3. p.abnormal => Ran(p, "service")
    <3>1. p.abnormal <=> q.abnormal \/ b
      BY Zenon DEF RunsAs
    <3>2. b => s.tool = "service"
      BY DEF s
    <3>3. QED
      BY <2>1, <2>2, <3>1, <3>2 DEF Reading
  <2>4. CASE q.round = 1
    <3>1. q.current = q.plan.steps
      BY <1>1, <2>4 DEF Doing
    <3>2. /\ q.executed \subseteq ToolsOf(q.plan.steps) /\ DOMAIN q.ran \subseteq DOMAIN q.plan.steps
          /\ \A n \in DOMAIN q.ran : q.ran[n].tool = q.plan.steps[n].tool
          /\ Len(q.ran) = q.k - 1
      BY <2>1, <2>4 DEF Reading
    <3>3. q.k = Len(q.ran) + 1
      BY <1>6, <3>2
    <3>4. /\ p.executed \subseteq ToolsOf(p.plan.steps)
          /\ DOMAIN p.ran \subseteq DOMAIN p.plan.steps
          /\ \A n \in DOMAIN p.ran : p.ran[n].tool = p.plan.steps[n].tool
      <4>1. p.executed \subseteq ToolsOf(p.plan.steps)
        BY <1>2, <3>1, <3>2
      <4>2. \A n \in DOMAIN p.ran : n \in DOMAIN q.ran \/ n = q.k
        BY <1>5, <3>3
      <4>3. p.ran[q.k] = x /\ x.tool = q.plan.steps[q.k].tool
        BY <1>4, <1>5, <1>6, <3>1, <3>3
      <4>4. QED
        BY <1>2, <1>5, <1>6, <3>1, <3>2, <4>1, <4>2, <4>3
    <3>5. p.pc = "execute" => Len(p.ran) = p.k - 1
      BY <1>3, <1>5, <1>6, <3>3
    <3>6. ~ (p.pc = "conclude" /\ Loops(p))
      BY <1>3, <1>7
    <3>7. QED
      BY <1>2, <2>3, <2>4, <3>4, <3>5, <3>6 DEF Reading
  <2>5. CASE q.round > 1
    <3>1. q.current = Flat(<<"log">>, [NoArgs EXCEPT !.leak = q.conversation]) /\ Loops(q)
      BY <1>1, <2>1, <2>5 DEF Reading, Doing
    <3>2. q.k = 1 /\ s.tool = "log" /\ Len(q.current) = 1
      BY <1>6, <3>1 DEF Flat
    <3>3. p.pc = "next"
      BY <1>3, <3>1, <3>2 DEF Over
    <3>4. QED
      BY <1>1, <1>2, <2>2, <2>3, <2>5, <3>2, <3>3 DEF Reading, Doing
  <2>6. QED
    BY <1>1, <2>4, <2>5 DEF Doing
<1>14. QED
  BY <1>2, <1>3, <1>8, <1>9, <1>10, <1>11, <1>12, <1>13 DEF Sound


(* The log comes before the service in the order of the rules: a first     *)
(* round that has run the service tool of a plan with both has run log.    *)
LEMMA LogFirst ==
  ASSUME NEW q, q.query.asks \subseteq AllowedTools, NEW e, q.plan = RulePlan(q.query, e), IsSeq(q.ran),
         DOMAIN q.ran \subseteq DOMAIN q.plan.steps,
         \A n \in DOMAIN q.ran : q.ran[n].tool = q.plan.steps[n].tool,
         "log" \in ToolsOf(q.plan.steps), Ran(q, "service")
  PROVE  Ran(q, "log")
<1> DEFINE P == SelectedPlaces(q.query, e)
           steps == q.plan.steps
<1>1. /\ IsSeq(steps)
      /\ \A n \in DOMAIN steps : \E k \in P : RankIn(P, k) = n /\ steps[n].tool = RuleOrder[k]
      /\ \A k \in P : RankIn(P, k) \in DOMAIN steps /\ steps[RankIn(P, k)].tool = RuleOrder[k]
      /\ \A k, l \in P : k < l => RankIn(P, k) < RankIn(P, l)
  BY RulePlanIs
<1>2. /\ P \subseteq 1..17
      /\ \A k \in 1..17 : (RuleOrder[k] = "log" => k = 9) /\ (RuleOrder[k] = "service" => k = 10)
      /\ RuleOrder[9] = "log"
  BY RuleOrderIs DEF SelectedPlaces
<1> HIDE DEF P
<1>3. PICK j \in DOMAIN steps : steps[j].tool = "log"
  BY DEF ToolsOf
<1>4. 9 \in P
  BY <1>1, <1>2, <1>3
<1>5. PICK n \in DOMAIN q.ran : q.ran[n].tool = "service"
  BY DEF Ran
<1>6. n \in DOMAIN steps /\ steps[n].tool = "service"
  BY <1>5
<1>7. 10 \in P /\ RankIn(P, 10) = n
  BY <1>1, <1>2, <1>6
<1>8. RankIn(P, 9) < n /\ RankIn(P, 9) \in DOMAIN steps /\ steps[RankIn(P, 9)].tool = "log"
  BY <1>1, <1>2, <1>4, <1>7
<1>9. RankIn(P, 9) \in DOMAIN q.ran
  <2>1. DOMAIN steps = 1..Len(steps) /\ DOMAIN q.ran = 1..Len(q.ran) /\ Len(q.ran) \in Nat /\ Len(steps) \in Nat
    BY <1>1 DEF IsSeq
  <2>2. QED
    BY <1>5, <1>8, <2>1
<1>10. QED
  BY <1>8, <1>9 DEF Ran

\* A request whose loop is over stays sound.
LEMMA LoopOverSound ==
  ASSUME NEW q, NEW m, Sound(q, m), q.pc = "next",
         ~m /\ q.round < MaxRounds => RuleNext(q.conversation, q.executed, q.abnormal) = <<>>,
         NEW p, DOMAIN p = DOMAIN Fresh, p.pc = "conclude",
         \A x \in {"query", "approved", "sid", "conversation", "plan", "current", "answers",
                   "round", "ran",
                   "found", "abnormal", "executed", "blocked"} : p[x] = q[x]
  PROVE  Sound(p, m)
<1>1. Planned(q, m) /\ Doing(q) /\ Meaning(q) /\ Acting(q) /\ Unrun(q) /\ (~m => Reading(q))
  BY DEF Sound, Busy
<1>2. /\ p.query = q.query /\ p.approved = q.approved /\ p.conversation = q.conversation
      /\ p.plan = q.plan
      /\ p.current = q.current /\ p.answers = q.answers /\ p.round = q.round /\ p.ran = q.ran
      /\ p.found = q.found /\ p.abnormal = q.abnormal /\ p.executed = q.executed
      /\ p.blocked = q.blocked
  OBVIOUS
<1>3. Planned(p, m)
  BY <1>1, <1>2 DEF Planned
<1>4. Doing(p)
  BY <1>1, <1>2 DEF Doing, Loops
<1>5. Meaning(p)
  BY <1>1, <1>2 DEF Meaning
<1>6. Acting(p)
  BY <1>1, <1>2 DEF Acting
<1>7. Unrun(p)
  BY <1>1, <1>2 DEF Unrun, Doing, Loops
<1>8. ASSUME ~m PROVE Reading(p)
  <2>1. Reading(q)
    BY <1>1, <1>8
  <2>2. Ran(p, "service") = Ran(q, "service") /\ Ran(p, "log") = Ran(q, "log")
    BY <1>2 DEF Ran
  <2>3. CASE q.round = 1
    <3>1. ASSUME q.abnormal, MaxRounds > 1 PROVE Ran(q, "log")
      <4>1. q.round < MaxRounds
        BY <2>3, <3>1, RequestAssumption
      <4>2. RuleNext(q.conversation, q.executed, q.abnormal) = <<>>
        BY <1>8, <4>1
      <4>3. "log" \in q.executed
        <5>1. IsSeq(<<"log">>) /\ 1 \in DOMAIN <<"log">>
          BY DEF IsSeq
        <5>2. \A v : IsSeq(Flat(<<"log">>, v)) /\ 1 \in DOMAIN Flat(<<"log">>, v)
          BY <5>1, FlatIs
        <5>3. \A v : Flat(<<"log">>, v) # <<>>
          BY <5>2, EmptyOrFirst
        <5>4. QED
          BY <3>1, <4>2, <5>3 DEF RuleNext
      <4>4. PICK e : q.plan = RulePlan(q.query, e)
        BY <1>1, <1>8 DEF Planned
      <4>5. /\ q.query.asks \subseteq AllowedTools /\ IsSeq(q.ran)
            /\ "log" \in ToolsOf(q.plan.steps) /\ DOMAIN q.ran \subseteq DOMAIN q.plan.steps
            /\ \A n \in DOMAIN q.ran : q.ran[n].tool = q.plan.steps[n].tool
            /\ Ran(q, "service")
        BY <1>1, <2>1, <2>3, <3>1, <4>3, QueryAssumption DEF Planned, Meaning, Reading
      <4>6. QED
        BY <4>4, <4>5, LogFirst
    <3>2. QED
      BY <1>1, <1>2, <2>1, <2>2, <2>3, <3>1 DEF Reading, Doing
  <2>4. CASE q.round > 1
    BY <1>1, <1>2, <2>1, <2>2, <2>4 DEF Reading, Doing
  <2>5. QED
    BY <1>1, <2>3, <2>4 DEF Doing
<1>9. QED
  BY <1>2, <1>3, <1>4, <1>5, <1>6, <1>7, <1>8 DEF Sound, Busy


\* What the next round starts with.
GoesOn(q, p, a, steps) ==
  /\ DOMAIN p = DOMAIN Fresh /\ p.pc = "execute" /\ p.current = steps
  /\ p.answers = Append(q.answers, a) /\ p.round = q.round + 1
  /\ \A x \in {"query", "approved", "sid", "conversation", "plan", "k", "outputs", "executed", "ran",
               "found", "abnormal", "blocked", "asks"} : p[x] = q[x]

LEMMA GoesOnIs ==
  ASSUME NEW q, DOMAIN q = DOMAIN Fresh, NEW a, NEW steps
  PROVE  GoesOn(q, [q EXCEPT !.pc = "execute", !.current = steps, !.answers = Append(@, a), !.round = @ + 1],
                a, steps)
<1> DEFINE f == [q EXCEPT !.pc = "execute", !.current = steps]
           p == [f EXCEPT !.answers = Append(@, a), !.round = @ + 1]
           kept == {"query", "approved", "sid", "conversation", "plan", "k", "outputs",
                    "executed", "ran",
                    "found", "abnormal", "blocked", "asks"}
<1>1. /\ DOMAIN f = DOMAIN Fresh /\ f.pc = "execute" /\ f.current = steps /\ f.answers = q.answers
      /\ f.round = q.round
  BY DEF Fresh
<1>2. \A x \in kept : f[x] = q[x]
  BY DEF Fresh
<1> HIDE DEF f
<1>3. /\ DOMAIN p = DOMAIN Fresh /\ p.pc = f.pc /\ p.current = f.current
      /\ p.answers = Append(f.answers, a) /\ p.round = f.round + 1
  BY <1>1 DEF Fresh
<1>4. \A x \in kept : p[x] = f[x]
  BY <1>1 DEF Fresh
<1> HIDE DEF p
<1>5. GoesOn(q, p, a, steps)
  BY <1>1, <1>2, <1>3, <1>4 DEF GoesOn
<1>6. QED
  BY <1>5 DEF p, f

\* A request that goes on to the next round stays sound.
LEMMA RoundSound ==
  ASSUME NEW q, NEW m, Sound(q, m), q.pc = "next", NEW a \in Answer, ~m => a = Silent,
         NEW steps, steps = PlanNext(q.conversation, q.executed, q.abnormal, a), steps # <<>>, ReadOnly(steps),
         NEW p, GoesOn(q, p, a, steps)
  PROVE  Sound(p, m)
<1>1. Planned(q, m) /\ Doing(q) /\ Meaning(q) /\ Acting(q) /\ Unrun(q) /\ (~m => Reading(q))
  BY DEF Sound, Busy
<1>2. /\ p.query = q.query /\ p.approved = q.approved /\ p.conversation = q.conversation
      /\ p.plan = q.plan
      /\ p.k = q.k /\ p.outputs = q.outputs /\ p.executed = q.executed /\ p.ran = q.ran
      /\ p.found = q.found /\ p.abnormal = q.abnormal /\ p.blocked = q.blocked /\ p.asks = q.asks
      /\ DOMAIN p = DOMAIN Fresh /\ p.pc = "execute" /\ p.current = steps
      /\ p.answers = Append(q.answers, a) /\ p.round = q.round + 1
  BY DEF GoesOn
<1>3. Sourced(a, steps)
  BY PlanNextIs
<1>4. Loops(q) /\ Loops(p) /\ q.round \in Nat \ {0} /\ p.round > 1 /\ p.round \in Nat \ {0}
  BY <1>1, <1>2 DEF Doing, Loops
<1>5. /\ IsSeq(p.answers) /\ DOMAIN q.answers = 1..q.round
      /\ Len(p.answers) = p.round /\ p.answers[p.round] = a
      /\ \A n \in 1..q.round : p.answers[n] = q.answers[n]
  <2>1. IsSeq(q.answers) /\ Len(q.answers) = q.round
    BY <1>1 DEF Meaning
  <2>2. /\ IsSeq(Append(q.answers, a)) /\ DOMAIN q.answers = 1..Len(q.answers)
        /\ \A n \in DOMAIN q.answers : Append(q.answers, a)[n] = q.answers[n]
        /\ Append(q.answers, a)[Len(q.answers) + 1] = a
        /\ Len(Append(q.answers, a)) = Len(q.answers) + 1
    BY <2>1, AppendSeq
  <2>3. QED
    BY <1>2, <2>1, <2>2
<1>6. Planned(p, m)
  BY <1>1, <1>2 DEF Planned
<1>7. Doing(p)
  <2>1. IsSeq(steps) /\ 1 \in DOMAIN steps
    BY <1>3, EmptyOrFirst DEF Sourced
  <2>2. q.k = 1
    BY <1>1 DEF Doing
  <2>3. QED
    BY <1>2, <1>4, <2>1, <2>2 DEF Doing
<1>8. Meaning(p)
  <2>1. \A n \in DOMAIN p.ran :
          /\ p.ran[n].round \in 1..p.round
          /\ p.ran[n].ref # 0 => p.ran[n].read \in Meant(p.answers[p.ran[n].round], p.ran[n].ref)
    <3> SUFFICES ASSUME NEW n \in DOMAIN q.ran
                 PROVE  /\ q.ran[n].round \in 1..p.round
                        /\ q.ran[n].ref # 0 => q.ran[n].read \in Meant(p.answers[q.ran[n].round], q.ran[n].ref)
      BY <1>2
    <3>1. /\ q.ran[n].round \in 1..q.round
          /\ q.ran[n].ref # 0 => q.ran[n].read \in Meant(q.answers[q.ran[n].round], q.ran[n].ref)
      BY <1>1 DEF Meaning
    <3>2. p.answers[q.ran[n].round] = q.answers[q.ran[n].round]
      BY <1>5, <3>1
    <3>3. 1..q.round \subseteq 1..p.round
      BY <1>2, <1>4
    <3>4. QED
      BY <3>1, <3>2, <3>3
  <2>2. q.outputs = <<>> /\ DOMAIN <<>> = {}
    BY <1>1 DEF Doing
  <2>3. Plain(steps) \/ Means(a, steps)
    BY <1>3 DEF Sourced
  <2>4. IsSeq(p.ran)
    BY <1>1, <1>2 DEF Meaning
  <2>5. QED
    BY <1>2, <1>5, <2>1, <2>2, <2>3, <2>4 DEF Meaning
<1>9. Acting(p)
  BY <1>1, <1>2 DEF Acting
<1>10. Unrun(p)
  BY <1>1, <1>2, <1>4 DEF Unrun, Loops
<1>11. ASSUME ~m PROVE Reading(p)
  <2>1. Reading(q)
    BY <1>1, <1>11
  <2>2. p.abnormal => Ran(p, "service")
    BY <1>2, <2>1 DEF Reading, Ran
  <2>3. steps = RuleNext(q.conversation, q.executed, q.abnormal)
    BY <1>11, PlanNextIs
  <2>4. p.current = Flat(<<"log">>, [NoArgs EXCEPT !.leak = p.conversation])
    BY <1>2, <2>3 DEF RuleNext
  <2>5. QED
    BY <1>2, <1>4, <2>2, <2>4 DEF Reading
<1>12. QED
  BY <1>2, <1>6, <1>7, <1>8, <1>9, <1>10, <1>11 DEF Sound, Busy

-----------------------------------------------------------------------------
\* What a request leaves in the session when it found nothing.
LEMMA EntitiesLeft ==
  ASSUME NEW q, NEW e, q.plan = RulePlan(q.query, e), q.found = NoEntity
  PROVE  Entities(q) = Left(q.query, e)
<1> DEFINE a == RuleArgs(q.query, e, Selected(q.query, e))
           l == [pid |-> a.pid, service |-> First(<<a.unit, a.service>>), path |-> a.path]
<1>1. q.plan.args = a
  BY RulePlanIs
<1>2. Entities(q) = Merged(l, NoEntity)
  BY <1>1 DEF Entities
<1>3. Left(q.query, e) = l
  BY DEF Left
<1>4. DOMAIN l = {"pid", "service", "path"} /\ l = [key \in {"pid", "service", "path"} |-> l[key]]
  OBVIOUS
<1> HIDE DEF l
<1>5. \A key \in DOMAIN l : First(<<NoEntity[key], l[key]>>) = l[key]
  BY <1>4, FirstOfTwo DEF NoEntity
<1>6. Merged(l, NoEntity) = l
  BY <1>4, <1>5 DEF Merged
<1>7. QED
  BY <1>2, <1>3, <1>6

LEMMA InitTalking == ChatInit => Talking
<1>1. Sound(Fresh, model)
  BY DEF Sound, Fresh, Busy
<1>2. QED
  BY <1>1 DEF ChatInit, Talking, Remembered, NoPending

Requests == DOMAIN req = Request /\ \A r \in Request : Sound(req[r], model)

LEMMA RequestChanges ==
  ASSUME Requests, NEW r \in Request, NEW p, Sound(p, model), req' = [req EXCEPT ![r] = p], model' = model
  PROVE  Requests'
<1>1. DOMAIN req' = Request /\ \A s \in Request : req'[s] = IF s = r THEN p ELSE req[s]
  BY DEF Requests
<1>2. \A s \in Request : Sound(req'[s], model')
  BY <1>1 DEF Requests
<1>3. QED
  BY <1>1, <1>2 DEF Requests

LEMMA BeginStep ==
  ASSUME Requests, NEW r \in Request, NEW w \in Queries, NEW y, Begin(r, w, y)
  PROVE  Requests'
<1> DEFINE live == held \in DOMAIN sessions
           seen == IF live THEN sessions[held] ELSE NoEntity
           sid  == IF live THEN held ELSE r
<1>1. PICK a \in Answers :
        IF a = Misshapen THEN req' = [req EXCEPT ![r] = [Fresh EXCEPT !.pc = "raised"]]
        ELSE LET l == PlanOf(w, seen, a)
             IN  req' = [req EXCEPT ![r] =
                           [Fresh EXCEPT !.pc = "execute", !.query = w,
                                         !.approved = y, !.sid = sid,
                                         !.conversation = live, !.plan = l,
                                         !.current = l.steps, !.answers = <<a>>]]
  BY Zenon DEF Begin
<1>2. model' = model
  BY DEF Begin
<1>3. a \in Answer /\ (~model => a = Silent)
  BY AnswerAssumption DEF Answers
<1> HIDE DEF live, seen, sid
<1>4. CASE a = Misshapen
  <2>1. Sound([Fresh EXCEPT !.pc = "raised"], model)
    BY NotBusySound DEF Busy
  <2>2. QED
    BY <1>1, <1>2, <1>4, <2>1, RequestChanges
<1>5. CASE a # Misshapen
  <2> DEFINE l == PlanOf(w, seen, a)
             p == [Fresh EXCEPT !.pc = "execute", !.query = w, !.approved = y, !.sid = sid,
                                !.conversation = live, !.plan = l, !.current = l.steps, !.answers = <<a>>]
  <2>1. Begun(p, w, y, live, l, a)
    BY BegunIs
  <2>2. req' = [req EXCEPT ![r] = p]
    BY <1>1, <1>5
  <2> HIDE DEF p
  <2>3. Sound(p, model)
    BY <1>3, <2>1, BeginSound
  <2>4. QED
    BY <1>2, <2>2, <2>3, RequestChanges
<1>6. QED
  BY <1>4, <1>5

LEMMA StopStep ==
  ASSUME Requests, NEW r \in Request, Stop(r)
  PROVE  Requests'
<1> DEFINE q == req[r]
           b == Resolves(q) /\ Verdict(q).confirm /\ ~q.approved
           p == [q EXCEPT !.pc = "conclude", !.blocked = TRUE, !.asks = b,
                          !.executed = @ \cup ToolsOf(q.current), !.k = 1, !.outputs = <<>>]
<1>1. q.pc = "execute" /\ ~Cleared(q) /\ req' = [req EXCEPT ![r] = p] /\ model' = model
  BY DEF Stop
<1>2. Sound(q, model) /\ DOMAIN q = DOMAIN Fresh
  BY DEF Requests, Sound
<1>3. HaltsAs(q, p)
  <2> HIDE DEF q
  <2>1. /\ DOMAIN p = DOMAIN Fresh /\ p.pc = "conclude" /\ p.blocked = TRUE /\ p.asks = b
        /\ p.executed = q.executed \cup ToolsOf(q.current)
        /\ \A x \in {"query", "approved", "sid", "conversation", "plan", "current", "answers",
                     "round", "ran",
                     "found", "abnormal"} : p[x] = q[x]
    BY <1>2, HaltIs
  <2> HIDE DEF p
  <2>2. QED
    BY <2>1 DEF HaltsAs
<1> HIDE DEF p, q
<1>4. Sound(p, model)
  BY <1>1, <1>2, <1>3, StopSound
<1>5. QED
  BY <1>1, <1>4, RequestChanges DEF q


LEMMA RunStep ==
  ASSUME Requests, NEW r \in Request, Run(r)
  PROVE  Requests'
<1> DEFINE q == req[r]
           s == StepOf(q)
           v == ArgsOf(q)
<1>1. q.pc = "execute" /\ Cleared(q) /\ model' = model
  BY DEF Run
<1>2. Sound(q, model) /\ DOMAIN q = DOMAIN Fresh
  BY DEF Requests, Sound
<1> DEFINE After(fails, b, f) ==
             LET ends == fails \/ q.k = Len(q.current) IN
             req' = [req EXCEPT ![r] = [q EXCEPT
                  !.ran = Append(@, [tool |-> s.tool, args |-> v, ref |-> s.ref, round |-> q.round,
                                     read |-> IF s.ref = 0 THEN None ELSE q.outputs[s.ref].call]),
                  !.outputs = IF ends THEN <<>>
                              ELSE [id \in DOMAIN @ \cup {s.id} |->
                                      IF id # s.id THEN @[id]
                                      ELSE [call |-> <<s.tool, s.args.pid>>, pid |-> f.pid]],
                  !.found = Merged(@, f), !.abnormal = @ \/ b,
                  !.executed = @ \cup ToolsOf(q.current),
                  !.pc = IF ~ends THEN "execute" ELSE IF Loops(q) THEN "next" ELSE "conclude",
                  !.k = IF ends THEN 1 ELSE @ + 1]]
<1>3. PICK fails \in BOOLEAN, b \in {b \in BOOLEAN : b => s.tool = "service" /\ ~Ran(q, "service")} :
        \E f \in Found(s.tool, v) \cup IF fails THEN {NoEntity} ELSE {} : After(fails, b, f)
  BY Zenon DEF Run
<1>4. PICK f : After(fails, b, f)
  BY <1>3
<1>5. b => s.tool = "service"
  BY <1>3
<1> DEFINE o == IF Over(q, fails) THEN <<>> ELSE OutputsBy(q, f)
           n == IF Over(q, fails) THEN 1 ELSE q.k + 1
           t == IF ~Over(q, fails) THEN "execute" ELSE IF Loops(q) THEN "next" ELSE "conclude"
           p == [q EXCEPT !.ran = Append(@, CallBy(q)), !.outputs = o, !.found = Merged(@, f),
                          !.abnormal = @ \/ b, !.executed = @ \cup ToolsOf(q.current), !.pc = t, !.k = n]
<1>6. req' = [req EXCEPT ![r] = p]
  BY <1>4 DEF Over, OutputsBy, CallBy
<1> HIDE DEF q
<1>7. RunsAs(q, p, fails, b, f)
  <2> HIDE DEF o, n, t
  <2>1. /\ DOMAIN p = DOMAIN Fresh /\ p.ran = Append(q.ran, CallBy(q)) /\ p.outputs = o
        /\ p.found = Merged(q.found, f) /\ p.abnormal = (q.abnormal \/ b)
        /\ p.executed = q.executed \cup ToolsOf(q.current) /\ p.pc = t /\ p.k = n
        /\ \A y \in {"query", "approved", "sid", "conversation", "plan", "current", "answers", "round",
                     "blocked", "asks"} : p[y] = q[y]
    BY <1>2, RunIs
  <2> HIDE DEF p
  <2>2. QED
    BY <2>1, Zenon DEF RunsAs, o, n, t
<1> HIDE DEF p
<1>8. Sound(p, model)
  BY <1>1, <1>2, <1>5, <1>7, RunSound
<1>9. QED
  BY <1>1, <1>6, <1>8, RequestChanges DEF q

LEMMA NextStep ==
  ASSUME Requests, NEW r \in Request, NextRound(r)
  PROVE  Requests'
<1> DEFINE q == req[r]
<1>1. q.pc = "next" /\ model' = model
  BY DEF NextRound
<1>2. Sound(q, model) /\ DOMAIN q = DOMAIN Fresh
  BY DEF Requests, Sound
<1>3. PICK a \in IF q.round < MaxRounds THEN Answers ELSE {Silent} :
        LET steps == IF q.round < MaxRounds
                     THEN PlanNext(q.conversation, q.executed, q.abnormal, a) ELSE <<>>
        IN  req' = [req EXCEPT ![r] =
                      CASE a = Misshapen -> [Fresh EXCEPT !.pc = "raised"]
                        [] a # Misshapen /\ steps = <<>> -> [q EXCEPT !.pc = "conclude"]
                        [] a # Misshapen /\ steps # <<>> /\ ~ReadOnly(steps) ->
                             [q EXCEPT !.pc = "conclude", !.asks = TRUE]
                        [] OTHER -> [q EXCEPT !.pc = "execute", !.current = steps,
                                              !.answers = Append(@, a), !.round = @ + 1]]
  BY Zenon DEF NextRound
<1> DEFINE steps == IF q.round < MaxRounds
                    THEN PlanNext(q.conversation, q.executed, q.abnormal, a) ELSE <<>>
<1>4. a \in Answer /\ (~model => a = Silent)
  BY AnswerAssumption DEF Answers
<1>5. /\ q.round < MaxRounds => steps = PlanNext(q.conversation, q.executed, q.abnormal, a)
      /\ ~ (q.round < MaxRounds) => steps = <<>>
      /\ ~model /\ q.round < MaxRounds => steps = RuleNext(q.conversation, q.executed, q.abnormal)
  BY <1>4, PlanNextIs
<1> HIDE DEF q, steps
<1>6. CASE a = Misshapen
  <2>1. Sound([Fresh EXCEPT !.pc = "raised"], model)
    BY NotBusySound DEF Busy
  <2>2. req' = [req EXCEPT ![r] = [Fresh EXCEPT !.pc = "raised"]]
    BY <1>3, <1>6
  <2>3. QED
    BY <1>1, <2>1, <2>2, RequestChanges
<1>7. CASE a # Misshapen /\ steps = <<>>
  <2> DEFINE p == [q EXCEPT !.pc = "conclude"]
  <2>1. req' = [req EXCEPT ![r] = p]
    BY <1>3, <1>7 DEF steps, q
  <2>2. /\ DOMAIN p = DOMAIN Fresh /\ p.pc = "conclude"
        /\ \A x \in {"query", "approved", "sid", "conversation", "plan", "current", "answers",
                     "round", "ran",
                     "found", "abnormal", "executed", "blocked"} : p[x] = q[x]
        /\ p.asks = q.asks
    BY <1>2 DEF Fresh
  <2> HIDE DEF p
  <2>3. Sound(p, model)
    BY <1>1, <1>2, <1>5, <1>7, <2>2, LoopOverSound
  <2>4. QED
    BY <1>1, <2>1, <2>3, RequestChanges
<1>8. CASE a # Misshapen /\ steps # <<>> /\ ~ReadOnly(steps)
  <2> DEFINE p == [q EXCEPT !.pc = "conclude", !.asks = TRUE]
  <2>1. req' = [req EXCEPT ![r] = p]
    BY <1>3, <1>8 DEF steps, q
  <2>2. /\ DOMAIN p = DOMAIN Fresh /\ p.pc = "conclude"
        /\ \A x \in {"query", "approved", "sid", "conversation", "plan", "current", "answers",
                     "round", "ran",
                     "found", "abnormal", "executed", "blocked"} : p[x] = q[x]
    BY <1>2 DEF Fresh
  <2>3. \A c, x, b : ReadOnly(RuleNext(c, x, b))
    <3>1. \A v : ReadOnly(Flat(<<"log">>, v))
      BY DEF ReadOnly, ToolsOf, Flat, LowRiskTools
    <3>2. ReadOnly(<<>>)
      BY DEF ReadOnly, ToolsOf
    <3>3. QED
      BY <3>1, <3>2 DEF RuleNext
  <2>4. ~ (~model /\ q.round < MaxRounds)
    BY <1>5, <1>8, <2>3
  <2> HIDE DEF p
  <2>5. Sound(p, model)
    BY <1>1, <1>2, <2>2, <2>4, LoopOverSound
  <2>6. QED
    BY <1>1, <2>1, <2>5, RequestChanges
<1>9. CASE a # Misshapen /\ steps # <<>> /\ ReadOnly(steps)
  <2> DEFINE p == [q EXCEPT !.pc = "execute", !.current = steps, !.answers = Append(@, a), !.round = @ + 1]
  <2>1. req' = [req EXCEPT ![r] = p]
    BY <1>3, <1>9 DEF steps, q
  <2>2. GoesOn(q, p, a, steps)
    BY <1>2, GoesOnIs
  <2>3. steps = PlanNext(q.conversation, q.executed, q.abnormal, a)
    BY <1>5, <1>9
  <2> HIDE DEF p
  <2>4. Sound(p, model)
    BY <1>1, <1>2, <1>4, <1>9, <2>2, <2>3, RoundSound
  <2>5. QED
    BY <1>1, <2>1, <2>4, RequestChanges
<1>10. QED
  BY <1>6, <1>7, <1>8, <1>9


\* A request that concludes leaves in the session what it asks about.
LEMMA ConcludeStep ==
  ASSUME Talking, NEW r \in Request, Conclude(r)
  PROVE  Requests' /\ Remembered'
<1> DEFINE q == req[r]
<1>1. q.pc = "conclude" /\ model' = model /\ Requests /\ Remembered
  BY DEF Conclude, Talking, Requests
<1>2. Planned(q, model) /\ Unrun(q)
  BY <1>1 DEF Requests, Sound, Busy
<1>3. Sound([Fresh EXCEPT !.pc = "returned"], model) /\ Sound([Fresh EXCEPT !.pc = "raised"], model)
  BY NotBusySound DEF Busy
<1>4. Requests'
  <2>1. CASE req' = [req EXCEPT ![r] = [Fresh EXCEPT !.pc = "returned"]]
    BY <1>1, <1>3, <2>1, RequestChanges
  <2>2. CASE req' = [req EXCEPT ![r] = [Fresh EXCEPT !.pc = "raised"]]
    BY <1>1, <1>3, <2>2, RequestChanges
  <2>3. QED
    BY <2>1, <2>2 DEF Conclude
<1>5. CASE pending' = pending
  BY <1>1, <1>4, <1>5 DEF Remembered
<1>6. CASE q.asks /\ pending' = [query |-> q.query, operations |-> Operations(q.plan.steps),
                                 left |-> Entities(q), rules |-> q.plan.source = "rules"]
  <2>1. /\ pending'.query = q.query /\ pending'.operations = Operations(q.plan.steps)
        /\ pending'.left = Entities(q) /\ (pending'.rules <=> q.plan.source = "rules")
    BY <1>6
  <2>2. q.query \in Queries
    BY <1>2 DEF Planned
  <2>3. ASSUME q.plan.source = "rules"
        PROVE  \E e : /\ Operations(q.plan.steps) = Operations(RulePlan(q.query, e).steps)
                      /\ ReadOnly(RulePlan(q.query, e).steps) \/ Entities(q) = Left(q.query, e)
    <3>1. PICK e : q.plan = RulePlan(q.query, e)
      BY <1>2, <2>3 DEF Planned
    <3>2. ~q.approved
      BY <1>2, <1>6 DEF Unrun
    <3>3. ReadOnly(q.plan.steps) \/ q.found = NoEntity
      BY <1>2, <2>3, <3>2 DEF Unrun
    <3>4. ReadOnly(q.plan.steps) \/ Entities(q) = Left(q.query, e)
      BY <3>1, <3>3, EntitiesLeft
    <3>5. QED
      BY <3>1, <3>4
  <2>4. Remembered'
    BY <2>1, <2>2, <2>3 DEF Remembered
  <2>5. QED
    BY <1>4, <2>4
<1>7. QED
  BY <1>4, <1>5, <1>6 DEF Conclude

LEMMA TalkingStep == Talking /\ [ChatNext]_chatVars => Talking'
<1> SUFFICES ASSUME Talking, [ChatNext]_chatVars PROVE Talking'
  OBVIOUS
<1>1. Requests /\ Remembered
  BY DEF Talking, Requests
<1>2. CASE UNCHANGED pending /\ Requests'
  <2>1. Remembered'
    BY <1>1, <1>2 DEF Remembered
  <2>2. QED
    BY <1>2, <2>1 DEF Talking, Requests
<1>3. ASSUME NEW r \in Request, Ask(r) PROVE Talking'
  <2>1. PICK w \in Queries : Begin(r, w, FALSE)
    BY <1>3 DEF Ask
  <2>2. Requests'
    BY <1>1, <2>1, BeginStep
  <2>3. UNCHANGED pending
    BY <2>1 DEF Begin
  <2>4. QED
    BY <1>2, <2>2, <2>3
<1>4. ASSUME NEW r \in Request, Confirm(r) PROVE Talking'
  <2>1. Begin(r, pending.query, TRUE) /\ pending.query \in Queries
    BY <1>1, <1>4 DEF Confirm, Remembered
  <2>2. Requests'
    BY <1>1, <2>1, BeginStep
  <2>3. UNCHANGED pending
    BY <2>1 DEF Begin
  <2>4. QED
    BY <1>2, <2>2, <2>3
<1>5. ASSUME NEW r \in Request, Stop(r) PROVE Talking'
  <2>1. Requests' /\ UNCHANGED pending
    BY <1>1, <1>5, StopStep DEF Stop
  <2>2. QED
    BY <1>2, <2>1
<1>6. ASSUME NEW r \in Request, Run(r) PROVE Talking'
  <2>1. Requests'
    BY <1>1, <1>6, RunStep
  <2>2. UNCHANGED pending
    BY <1>6 DEF Run
  <2>3. QED
    BY <1>2, <2>1, <2>2
<1>7. ASSUME NEW r \in Request, NextRound(r) PROVE Talking'
  <2>1. Requests'
    BY <1>1, <1>7, NextStep
  <2>2. UNCHANGED pending
    BY <1>7 DEF NextRound
  <2>3. QED
    BY <1>2, <2>1, <2>2
<1>8. ASSUME NEW r \in Request, Conclude(r) PROVE Talking'
  BY <1>8, ConcludeStep DEF Talking, Requests
<1>9. ASSUME NEW s \in DOMAIN sessions, Expire(s) PROVE Talking'
  BY <1>9 DEF Expire, Talking, Remembered
<1>10. CASE UNCHANGED chatVars
  BY <1>10 DEF chatVars, Talking, Remembered
<1>11. QED
  BY <1>3, <1>4, <1>5, <1>6, <1>7, <1>8, <1>9, <1>10 DEF ChatNext

LEMMA TalkingAlways == ChatSpec => []Talking
BY InitTalking, TalkingStep, PTL DEF ChatSpec

(* A reference reads a step the model meant by it, for any answers and any *)
(* tools dropped from them.                                                *)
THEOREM RefsCorrect == ChatSpec => []RefsMeant
<1>1. Talking => RefsMeant
  <2> SUFFICES ASSUME Talking, NEW r \in Request, NEW n \in DOMAIN req[r].ran, req[r].ran[n].ref # 0
               PROVE  req[r].ran[n].read \in Meant(req[r].answers[req[r].ran[n].round], req[r].ran[n].ref)
    BY DEF RefsMeant
  <2>1. Sound(req[r], model)
    BY DEF Talking
  <2>2. req[r].pc \in Busy
    BY <2>1 DEF Sound
  <2>3. Meaning(req[r])
    BY <2>1, <2>2 DEF Sound
  <2>4. QED
    BY <2>3 DEF Meaning
<1>2. QED
  BY <1>1, TalkingAlways, PTL

(* Without a model, a service found failed has its log read, or the request*)
(* is blocked for the conversation it would pass on, for any number of     *)
(* rounds and any query.                                                   *)
THEOREM EscalationCorrect == ChatSpec => []EscalationReached
<1>1. Talking => EscalationReached
  <2> SUFFICES ASSUME Talking, NEW r \in Request, ~model, req[r].pc = "conclude", Loops(req[r]),
                      req[r].abnormal, MaxRounds > 1
               PROVE  Ran(req[r], "log") \/ (req[r].blocked /\ (req[r].round = 1 \/ req[r].conversation))
    BY DEF EscalationReached
  <2>1. Doing(req[r]) /\ Reading(req[r])
    BY DEF Talking, Sound, Busy
  <2>2. QED
    BY <2>1 DEF Doing, Reading
<1>2. QED
  BY <1>1, TalkingAlways, PTL

(* The target of an operation the rules planned is what the query names,   *)
(* whatever the session remembers and the rounds before returned.          *)
THEOREM TargetsCorrect == ChatSpec => []TargetsMeant
<1>1. Talking => TargetsMeant
  <2> SUFFICES ASSUME Talking, NEW r \in Request, req[r].plan.source = "rules", NEW x \in Operated(r)
               PROVE  LET named == Named(req[r].query, x.tool)
                      IN  CASE x.tool = "temp.clean" -> TempIn[named] # None => Target(x) = TempIn[named]
                            [] x.tool = "service.restart" -> named \in Restartable => Target(x) = named
                            [] OTHER -> named # None => Target(x) = named
    BY DEF TargetsMeant
  <2> DEFINE q == req[r]
             w == q.query
  <2>1. PICK n \in DOMAIN q.ran : x = q.ran[n] /\ x.tool \notin LowRiskTools
    BY DEF Operated
  <2>2. Sound(q, model) /\ q.pc \in Busy
    BY <2>1 DEF Talking, Sound
  <2>3. x.tool \in ToolsOf(q.plan.steps) /\ x.args = q.plan.args
    BY <2>1, <2>2 DEF Sound, Acting
  <2>4. PICK e : q.plan = RulePlan(w, e)
    BY <2>2 DEF Sound, Planned
  <2>5. w \in Queries /\ w.asks \subseteq AllowedTools
    BY <2>2, QueryAssumption DEF Sound, Planned
  <2> HIDE DEF q, w
  <2>6. x.tool \in Selected(w, e) /\ x.tool \in MediumRiskTools
    BY <2>1, <2>3, <2>4, <2>5, RuleOperations DEF ToolsOf
  <2>7. x.args = RuleArgs(w, e, Selected(w, e))
    BY <2>3, <2>4, RulePlanIs
  <2>8. CASE x.tool = "process.kill"
    <3>1. x.args.pid = First(<<w.pid, e.pid>>)
      BY <2>6, <2>7, <2>8 DEF RuleArgs, When
    <3>2. w.pid # None => x.args.pid = w.pid
      BY <3>1, FirstOfTwo
    <3>3. QED
      BY <2>8, <3>2 DEF Named, Target, w, q
  <2>9. CASE x.tool = "service.restart"
    <3>1. x.args.service = First(<<ServiceIn(w), e.service>>)
      BY <2>6, <2>7, <2>9 DEF RuleArgs, When
    <3>2. w.service \in Restartable => x.args.service = w.service
      BY <3>1, FirstOfTwo, NameAssumption DEF ServiceIn, When
    <3>3. QED
      BY <2>9, <3>2 DEF Named, Target, w, q
  <2>10. CASE x.tool = "temp.clean"
    <3> DEFINE T == Selected(w, e)
    <3>1. x.args.path = First(<<TempIn[w.path], When("disk.large_files" \in T, w.path),
                                When("disk.top_dirs" \in T /\ "path" \in w.refers, e.path),
                                When("disk.top_dirs" \in T, w.path)>>)
      BY <2>6, <2>7, <2>10 DEF RuleArgs, When
    <3>2. TempIn[w.path] # None => x.args.path = TempIn[w.path]
      BY <3>1, FirstOfFour
    <3>3. QED
      BY <2>10, <3>2 DEF Named, Target, w, q
  <2>11. QED
    BY <2>6, <2>8, <2>9, <2>10 DEF MediumRiskTools
<1>2. QED
  BY <1>1, TalkingAlways, PTL

(* A confirmation plans the operations the question was about, on the same *)
(* targets, whatever the entities of the session were before it.           *)
THEOREM ConfirmCorrect == ChatSpec => ConfirmRepeats
<1>1. Talking /\ [ChatNext]_chatVars =>
        [\A r \in Request :
           Confirming(r) /\ pending.rules /\ req'[r].plan.source = "rules"
             /\ held \in DOMAIN sessions /\ sessions[held] = pending.left
           => Operations(req'[r].plan.steps) = pending.operations]_chatVars
  <2> SUFFICES ASSUME Talking, ChatNext, NEW r \in Request, Confirming(r), pending.rules,
                      req'[r].plan.source = "rules",
                      held \in DOMAIN sessions, sessions[held] = pending.left
               PROVE  Operations(req'[r].plan.steps) = pending.operations
    OBVIOUS
  <2>1. req[r].pc = "new" /\ req'[r].pc = "execute" /\ req'[r].approved
    BY DEF Confirming
  <2>2. DOMAIN req = Request /\ Remembered
    BY DEF Talking
  <2>3. ASSUME NEW s \in Request, Stop(s) \/ Run(s) \/ NextRound(s) \/ Conclude(s) PROVE FALSE
    <3>1. PICK p : req' = [req EXCEPT ![s] = p]
      BY <2>3, Zenon DEF Stop, Run, NextRound, Conclude
    <3>2. req[s].pc # "new"
      BY <2>3 DEF Stop, Run, NextRound, Conclude
    <3>3. req'[r] = req[r]
      BY <2>1, <2>2, <3>1, <3>2
    <3>4. QED
      BY <2>1, <3>3
  <2>4. PICK w, y : Begin(r, w, y) /\ (~y \/ (y = TRUE /\ w = pending.query /\ w # None))
    <3>1. ASSUME NEW s \in Request, NEW w, NEW y, Begin(s, w, y), s # r PROVE FALSE
      <4>1. PICK p : req' = [req EXCEPT ![s] = p]
        BY <3>1, Zenon DEF Begin
      <4>2. req'[r] = req[r]
        BY <2>2, <3>1, <4>1
      <4>3. QED
        BY <2>1, <4>2
    <3>2. ASSUME NEW s \in DOMAIN sessions, Expire(s) PROVE FALSE
      BY <2>1, <3>2 DEF Expire
    <3>3. PICK s \in Request : Ask(s) \/ Confirm(s)
      BY <2>3, <3>2 DEF ChatNext
    <3>4. CASE Ask(s)
      BY <3>1, <3>4 DEF Ask
    <3>5. CASE Confirm(s)
      BY <3>1, <3>5 DEF Confirm
    <3>6. QED
      BY <3>3, <3>4, <3>5
  <2> DEFINE live == held \in DOMAIN sessions
             seen == IF live THEN sessions[held] ELSE NoEntity
             sid  == IF live THEN held ELSE r
  <2>5. PICK a \in Answers :
          IF a = Misshapen THEN req' = [req EXCEPT ![r] = [Fresh EXCEPT !.pc = "raised"]]
          ELSE LET l == PlanOf(w, seen, a)
               IN  req' = [req EXCEPT ![r] =
                             [Fresh EXCEPT !.pc = "execute", !.query = w,
                                           !.approved = y, !.sid = sid,
                                           !.conversation = live, !.plan = l,
                                           !.current = l.steps, !.answers = <<a>>]]
    BY <2>4, Zenon DEF Begin
  <2>6. seen = pending.left
    OBVIOUS
  <2> HIDE DEF seen, live, sid
  <2>7. a # Misshapen
    <3>1. [Fresh EXCEPT !.pc = "raised"].pc = "raised"
      BY DEF Fresh
    <3>2. QED
      BY <2>1, <2>2, <2>5, <3>1
  <2> DEFINE l == PlanOf(w, seen, a)
             p == [Fresh EXCEPT !.pc = "execute", !.query = w, !.approved = y, !.sid = sid,
                                !.conversation = live, !.plan = l, !.current = l.steps, !.answers = <<a>>]
  <2>8. Begun(p, w, y, live, l, a)
    BY BegunIs
  <2>9. req' = [req EXCEPT ![r] = p]
    BY <2>5, <2>7
  <2> HIDE DEF p, l
  <2>10. req'[r] = p
    BY <2>2, <2>9
  <2>11. req'[r].plan = l /\ req'[r].approved = y
    BY <2>8, <2>10 DEF Begun
  <2>12. w = pending.query /\ w \in Queries
    BY <2>1, <2>2, <2>4, <2>11 DEF Remembered
  <2>13. w.asks \subseteq AllowedTools /\ a \in Answer
    BY <2>12, QueryAssumption, AnswerAssumption DEF Answers
  <2>14. l = RulePlan(w, seen)
    BY <2>11, <2>13, PlanIs DEF l
  <2>15. PICK e : /\ pending.operations = Operations(RulePlan(w, e).steps)
                  /\ ReadOnly(RulePlan(w, e).steps) \/ pending.left = Left(w, e)
    BY <2>2, <2>12 DEF Remembered
  <2>16. Operations(RulePlan(w, seen).steps) = Operations(RulePlan(w, e).steps)
    BY <2>6, <2>13, <2>15, OperationsAgain
  <2>17. QED
    BY <2>11, <2>14, <2>15, <2>16
<1>2. QED
  BY <1>1, TalkingAlways, PTL DEF ChatSpec, ConfirmRepeats
=============================================================================
