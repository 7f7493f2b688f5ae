---------------------------- MODULE SecurityControls ----------------------------
(* What the dashboard shows of the Cloudflare security settings of one site.  *)
(* Evidence rows come from synchronizations, which read every control, and    *)
(* from technicians, who state one.  Two queries work out what is in effect:  *)
(* the detail of the site and the portfolio.                                  *)
EXTENDS Naturals, FiniteSets

CONSTANTS
    Calls,          \* requests and jobs under way at once
    Controls,       \* the controls that are looked at
    MaxTime         \* bound: calls, each at a time of its own

\* cloudflareSecurityControlDefinitions, by how a control is read: a setting that is on
\* or off, the security level, DNSSEC, and DDoS protection, which needs no reading.
Kinds == {"setting", "level", "dnssec", "platform"}

SecurityAssumption == Controls \subseteq Kinds /\ MaxTime \in Nat \ {0}

Times == 1 .. MaxTime

Status == {"active", "inactive", "pending", "review", "unavailable"}

Stated == {"active", "inactive", "pending"}     \* by technicians

Source == {"cloudflare-api", "technician", "informational"}

Evidence == [control : Controls, source : Source, status : Status, at : Times]

VARIABLES
    evidence,       \* the rows of cloudflare_security_evidence that nothing supersedes
    syncs,          \* cloudflare_security_syncs: the times they were made for
    call,           \* what each call is about to write
    now,            \* the time of the next call
    statements,     \* ghost: what technicians have stated so far
    precedes        \* ghost: which of it was stored before another began

vars == <<evidence, syncs, call, now, statements, precedes>>

\* rows: what is to be inserted; replaced: the rows it supersedes.
Call == [at : {"idle", "sync", "supersede", "insert"}, time : Times, rows : SUBSET Evidence,
         replaced : SUBSET Evidence]

IdleCall == [at |-> "idle", time |-> 1, rows |-> {}, replaced |-> {}]

--------------------------------------------------------------------------------
(* Reading the settings of the zone *)

\* What Cloudflare may answer for a control; without the permission it is unreadable.
Answers(control) ==
    CASE control = "setting" -> {"on", "off", "unreadable"}
      [] control = "level" -> {"medium", "high", "low", "unreadable"}
      [] control = "dnssec" -> {"active", "pending", "disabled", "unreadable"}
      [] control = "platform" -> {"zone active", "zone pending"}

\* securityEvidence: the status of a control by the answer.
StatusOf(control, answer) ==
    CASE answer = "unreadable" -> "unavailable"
      [] answer \in {"on", "medium", "active", "zone active"} -> "active"
      [] answer \in {"high", "zone pending"} -> "review"
      [] control = "dnssec" /\ answer = "pending" -> "pending"
      [] OTHER -> "inactive"

SourceOf(control) == IF control = "platform" THEN "informational" ELSE "cloudflare-api"

\* Mutant: a control that cannot be read leaves no evidence.
ReadableEvidence(answer, time) ==
    {[control |-> c, source |-> SourceOf(c), status |-> StatusOf(c, answer[c]), at |-> time] :
        c \in {d \in Controls : answer[d] # "unreadable"}}

SecurityEvidence(answer, time) ==
    {[control |-> c, source |-> SourceOf(c), status |-> StatusOf(c, answer[c]), at |-> time] : c \in Controls}

--------------------------------------------------------------------------------
(* Calls *)

Begin(c, value) ==
    /\ call[c].at = "idle" /\ now <= MaxTime
    /\ now' = now + 1
    /\ call' = [call EXCEPT ![c] = value]

\* The zone is asked for every control, and the time is taken.
SynchronizeSecurity(c) ==
    /\ \E answer \in {f \in [Controls -> UNION {Answers(d) : d \in Controls}] :
                        \A d \in Controls : f[d] \in Answers(d)} :
          Begin(c, [IdleCall EXCEPT !.at = "sync", !.time = now, !.rows = SecurityEvidence(answer, now)])
    /\ UNCHANGED <<evidence, syncs, statements, precedes>>

\* One transaction inserts the synchronization and all it has read.
CreateSync(c) ==
    /\ call[c].at = "sync"
    /\ syncs' = syncs \cup {call[c].time}
    /\ evidence' = evidence \cup call[c].rows
    /\ call' = [call EXCEPT ![c] = IdleCall]
    /\ UNCHANGED <<now, statements, precedes>>

SetTechnicianStatus(c) ==
    /\ \E control \in Controls, status \in Stated :
          LET row == [control |-> control, source |-> "technician", status |-> status, at |-> now] IN
          /\ Begin(c, [IdleCall EXCEPT !.at = "supersede", !.time = now, !.rows = {row}])
          /\ precedes' = precedes \cup {<<old, row>> : old \in statements}
    /\ UNCHANGED <<evidence, syncs, statements>>

\* The first statement of its transaction sees what was committed before it.
SupersedeOthers(c) ==
    /\ call[c].at = "supersede"
    /\ call' = [call EXCEPT ![c].at = "insert",
                   ![c].replaced = {e \in evidence : e.source = "technician"
                                                     /\ \E row \in call[c].rows : e.control = row.control}]
    /\ UNCHANGED <<evidence, syncs, now, statements, precedes>>

\* The second inserts the row, and the transaction commits.
InsertStatement(c) ==
    /\ call[c].at = "insert"
    /\ evidence' = (evidence \ call[c].replaced) \cup call[c].rows
    /\ statements' = statements \cup call[c].rows
    /\ call' = [call EXCEPT ![c] = IdleCall]
    /\ UNCHANGED <<syncs, now, precedes>>

\* A request fails, a transaction is rolled back, or the process ends.
End(c) ==
    /\ call[c].at # "idle"
    /\ call' = [call EXCEPT ![c] = IdleCall]
    /\ UNCHANGED <<evidence, syncs, now, statements, precedes>>

Init ==
    /\ evidence = {} /\ syncs = {}
    /\ call = [c \in Calls |-> IdleCall]
    /\ now = 1
    /\ statements = {} /\ precedes = {}

Next ==
    \E c \in Calls :
        \/ SynchronizeSecurity(c) \/ CreateSync(c) \/ SetTechnicianStatus(c) \/ SupersedeOthers(c)
        \/ InsertStatement(c) \/ End(c)

Spec == Init /\ [][Next]_vars

--------------------------------------------------------------------------------
(* What is shown *)

Latest(rows) == {e \in rows : \A f \in rows : f.at <= e.at}

\* listEffectiveSecurityEvidence: the latest of each source.
EffectiveEvidence(control) ==
    UNION {Latest({e \in evidence : e.control = control /\ e.source = s}) : s \in Source}

\* Mutant: the latest evidence is in effect, whoever it comes from.
LatestOfAll(control) == Latest(EffectiveEvidence(control))

\* effectiveControls: what a technician has stated, or else what was read last.
EffectiveControl(control) ==
    LET all == EffectiveEvidence(control)
        stated == {e \in all : e.source = "technician"}
    IN  IF stated # {} THEN stated ELSE Latest(all)

\* listPortfolioStatus: technicians first, then by time.
PortfolioStatus(control) ==
    LET all == {e \in evidence : e.control = control}
        before(e, f) == \/ e.source = "technician" /\ f.source # "technician"
                        \/ (e.source = "technician" <=> f.source = "technician") /\ e.at >= f.at
    IN  {e \in all : \A f \in all : before(e, f)}

\* latestSecuritySyncAt.
CheckedAt == {t \in syncs : \A u \in syncs : u <= t}

--------------------------------------------------------------------------------
(* What is promised of it *)

\* Evidence and calls have the shape of their tables and of the code.
SecurityTypeOK ==
    /\ evidence \subseteq Evidence /\ syncs \subseteq Times /\ now \in 1 .. MaxTime + 1
    /\ call \in [Calls -> [at : {"idle", "sync", "supersede", "insert"}, time : Times,
                           rows : SUBSET Evidence, replaced : SUBSET Evidence]]
    /\ statements \subseteq Evidence /\ precedes \subseteq statements \X Evidence

\* Site and portfolio show the same, though they work it out from different queries.
ViewsAgree == \A control \in Controls : EffectiveControl(control) = PortfolioStatus(control)

\* What technicians have stated holds against every synchronization, and a statement
\* begun after another was stored replaces it for good; statements that overlap may
\* leave two rows, of which the one begun last is shown.
StatementsHold ==
    \A control \in Controls :
        LET stated == {e \in statements : e.control = control} IN
        stated # {} => /\ EffectiveControl(control) \subseteq stated
                       /\ \A e \in EffectiveControl(control), f \in stated : <<e, f>> \notin precedes

\* What is shown of a control was read at the time that is shown with it.
ShownAsOfCheck ==
    \A control \in Controls, t \in CheckedAt :
        \A e \in EffectiveControl(control) : e.source # "technician" => e.at = t

\* The state of the settings is shown as it was read or stated last.
ControlsSound == SecurityTypeOK /\ ViewsAgree /\ StatementsHold /\ ShownAsOfCheck

================================================================================
