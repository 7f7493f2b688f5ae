----------------------------- MODULE HostingSource -----------------------------
(* The source that backups of one site are made from: the row                 *)
(* hosting_connections, which an administrator saves with the backup policy,  *)
(* a plugin check-in fills with what it detected and a connection test writes *)
(* back, each as a whole after reading it, and the jobs that are planned from *)
(* it and read it again when they run.  The encrypted SSH key is a column of  *)
(* the row that is read by a query of its own.                                *)
EXTENDS Naturals

CONSTANTS
    Calls,          \* requests and backup workers under way at once
    Remotes,        \* remote places: host, port, user and WordPress root
    None,           \* an empty field
    Forms,          \* the forms administrators submit
    MaxKeys,        \* bound: SSH private keys submitted
    MaxCalls        \* bound: calls

Types == {"ssh-sftp", "database-credentials", "local-vps", "other"}

\* A directory of the worker below an allowed base, or any other path.
Paths == {"allowed", "elsewhere"}

Keys == 0 .. MaxKeys            \* 0: SQL NULL

Form == [type : Types, remote : Remotes \cup {None}, hostKey : Remotes \cup {None},
         local : Paths \cup {None}, database : BOOLEAN]

SourceAssumption ==
    /\ None \notin Remotes \cup Paths
    /\ Forms \subseteq Form
    /\ MaxKeys \in Nat /\ MaxCalls \in Nat

VARIABLES
    source,         \* the row hosting_connections, its key included
    planned,        \* the queued backup: what it is to include
    access,         \* where each call is, what it was given and has read
    keys,           \* private keys submitted so far
    accesses,       \* calls made so far
    tested,         \* ghost: remote places and keys that passed a test
    used,           \* ghost: what backups used, and what had vouched for it
    archived,       \* ghost: the local paths that backups archived files of
    torn            \* ghost: a row was written with a key read at another time

vars == <<source, planned, access, keys, accesses, tested, used, archived, torn>>

Voucher == {"nobody", "test", "check-in"}

\* vouched is a ghost: what made the status ready.
Source == [type : Types \cup {"absent"}, remote : Remotes \cup {None}, hostKey : Remotes \cup {None},
           local : Paths \cup {None}, database : BOOLEAN, ssh : BOOLEAN, credential : BOOLEAN,
           status : {"not-tested", "ready", "failed", "quarantined"},
           vouched : Voucher, key : Keys]

NoSource == [type |-> "absent", remote |-> None, hostKey |-> None, local |-> None, database |-> FALSE,
             ssh |-> FALSE, credential |-> FALSE, status |-> "not-tested", vouched |-> "nobody", key |-> 0]

Job == [files : BOOLEAN, database : BOOLEAN]

NoJob == [files |-> FALSE, database |-> FALSE]

Access == [at : {"idle", "save", "detect", "test", "run"}, got : SUBSET {"row", "key"},
           form : Forms \cup {None}, fresh : BOOLEAN, row : Source, key : Keys]

IdleAccess == [at |-> "idle", got |-> {}, form |-> None, fresh |-> FALSE, row |-> NoSource, key |-> 0]

--------------------------------------------------------------------------------
(* What the adapters make of a row *)

Complete(s) == s.remote # None /\ s.ssh /\ s.credential

SshReady(s) == s.type = "ssh-sftp" /\ Complete(s) /\ s.status = "ready"

\* backupFiles and backupDatabase; a local path is judged by where it is.
GivesFiles(s) == SshReady(s) \/ (s.type = "local-vps" /\ s.local = "allowed")

GivesDatabase(s) ==
    \/ SshReady(s)
    \/ s.type = "database-credentials" /\ s.database /\ s.status = "ready"
    \/ s.type = "local-vps" /\ s.database

--------------------------------------------------------------------------------
(* Reads and writes *)

Begin(c, value) ==
    /\ access[c].at = "idle"
    /\ accesses < MaxCalls
    /\ accesses' = accesses + 1
    /\ access' = [access EXCEPT ![c] = value]

Finish(c) == access' = [access EXCEPT ![c] = IdleAccess]

\* savePolicyAndConnection and saveConnection write every column; without a new key,
\* that of the row is to be the one its own query read.
Write(c, row) ==
    /\ source' = row
    /\ torn' = (torn \/ (row.key # access[c].row.key /\ ~access[c].fresh))
    /\ Finish(c)

--------------------------------------------------------------------------------
(* updatePolicy *)

UpdatePolicy(c) ==
    /\ \E f \in Forms, fresh \in {b \in BOOLEAN : b => keys < MaxKeys} :
          Begin(c, [IdleAccess EXCEPT !.at = "save", !.form = f, !.fresh = fresh])
    /\ UNCHANGED <<source, planned, keys, tested, used, archived, torn>>

\* The row and its key are read at once, by two queries.
ReadRow(c) ==
    /\ access[c].at = "save" /\ "row" \notin access[c].got
    /\ access' = [access EXCEPT ![c].got = @ \cup {"row"}, ![c].row = source]
    /\ UNCHANGED <<source, planned, keys, accesses, tested, used, archived, torn>>

\* Check-ins, tests and jobs read the row first and the key when they need it.
ReadKey(c) ==
    /\ access[c].at # "idle" /\ "key" \notin access[c].got
    /\ access' = [access EXCEPT ![c].got = @ \cup {"key"}, ![c].key = source.key]
    /\ UNCHANGED <<source, planned, keys, accesses, tested, used, archived, torn>>

Has(c, what) == access[c].at = what /\ access[c].got = {"row", "key"}

\* Mutant: a new remote place leaves the status as it is.
KeyChangedOnly(c) == access[c].fresh

\* A missing row differs from any form.
SourceChanged(c) ==
    \/ access[c].fresh
    \/ access[c].row.type = "absent"
    \/ access[c].form.remote # access[c].row.remote
    \/ access[c].form.hostKey # access[c].row.hostKey

SavePolicy(c) ==
    LET f == access[c].form
        was == access[c].row
        key == IF access[c].fresh THEN keys' ELSE access[c].key
        status == CASE f.type = "local-vps" -> "quarantined"
                    [] f.type # "local-vps" /\ SourceChanged(c) -> "not-tested"
                    [] OTHER -> was.status
    IN  /\ Has(c, "save")
        /\ f.type = "local-vps" => f.local # "elsewhere"
        /\ keys' = IF access[c].fresh THEN keys + 1 ELSE keys
        /\ keys' \in Keys
        /\ Write(c, [type |-> f.type, remote |-> f.remote, hostKey |-> f.hostKey, local |-> f.local,
                     database |-> f.database, ssh |-> f.type = "ssh-sftp", credential |-> key # 0,
                     status |-> status, key |-> key,
                     vouched |-> IF status = "ready" THEN was.vouched ELSE "nobody"])
        /\ UNCHANGED <<planned, accesses, tested, used, archived>>

--------------------------------------------------------------------------------
(* recordDetectedBackupSource *)

\* An SSH source that is ready is left alone.
RecordDetectedSource(c) ==
    /\ ~(source.type = "ssh-sftp" /\ source.status = "ready")
    /\ Begin(c, [IdleAccess EXCEPT !.at = "detect", !.row = source, !.got = {"row"}])
    /\ UNCHANGED <<source, planned, keys, tested, used, archived, torn>>

\* The remote place and the key stay in the row.  Complete credentials count as ready.
SaveDetected(c) ==
    /\ Has(c, "detect")
    /\ UNCHANGED keys
    /\ \E found \in BOOLEAN, path \in Paths \cup {None} :
          Write(c, [access[c].row EXCEPT !.type = "database-credentials", !.local = path,
                                         !.database = found, !.key = access[c].key,
                                         !.status = IF found THEN "ready" ELSE "not-tested",
                                         !.vouched = IF found THEN "check-in" ELSE "nobody"])
    /\ UNCHANGED <<planned, accesses, tested, used, archived>>

--------------------------------------------------------------------------------
(* testHostingConnection *)

\* Only an SSH source is tested.
TestHostingConnection(c) ==
    /\ source.type = "ssh-sftp"
    /\ Begin(c, [IdleAccess EXCEPT !.at = "test", !.row = source, !.got = {"row"}])
    /\ UNCHANGED <<source, planned, keys, tested, used, archived, torn>>

\* A remote place answers with its own host key; one that is pinned must be it.
TestPassed(c) ==
    LET s == access[c].row IN
    /\ Has(c, "test") /\ access[c].key # 0
    /\ s.remote # None /\ s.hostKey \in {None, s.remote}
    /\ UNCHANGED keys
    /\ tested' = tested \cup {<<s.remote, access[c].key>>}
    /\ Write(c, [s EXCEPT !.hostKey = s.remote, !.status = "ready", !.vouched = "test",
                          !.key = access[c].key])
    /\ UNCHANGED <<planned, accesses, used, archived>>

TestFailed(c) ==
    /\ Has(c, "test") /\ access[c].key # 0
    /\ UNCHANGED keys
    /\ Write(c, [access[c].row EXCEPT !.status = "failed", !.vouched = "nobody", !.key = access[c].key])
    /\ UNCHANGED <<planned, accesses, tested, used, archived>>

--------------------------------------------------------------------------------
(* Jobs *)

\* A scheduled backup takes all and needs all; a manual one takes what the policy
\* selects of it.
PlanBackup ==
    /\ planned = NoJob
    /\ \E j \in Job \ {NoJob} :
          /\ j.files => GivesFiles(source)
          /\ j.database => GivesDatabase(source)
          /\ planned' = j
    /\ UNCHANGED <<source, access, keys, accesses, tested, used, archived, torn>>

\* runNext reads the row again; what the job includes was settled when it was planned.
RunJob(c) ==
    /\ planned # NoJob /\ source.type = "ssh-sftp" /\ source.status = "ready"
    /\ Begin(c, [IdleAccess EXCEPT !.at = "run", !.row = source, !.got = {"row"}])
    /\ planned' = NoJob
    /\ UNCHANGED <<source, keys, tested, used, archived, torn>>

\* downloadWordPress and exportDatabase, unless the key is missing.
UseRemote(c) ==
    /\ Has(c, "run") /\ access[c].key # 0
    /\ used' = used \cup {<<access[c].row.remote, access[c].key, access[c].row.vouched>>}
    /\ torn' = (torn \/ access[c].key # access[c].row.key)
    /\ Finish(c)
    /\ UNCHANGED <<source, planned, keys, accesses, tested, archived>>

\* A path is validated for local-vps only; with database credentials the files of
\* the path the plugin reported are archived if the worker has them.
RunLocalJob ==
    /\ planned # NoJob /\ source.type \in {"local-vps", "database-credentials"}
    /\ planned.files => IF source.type = "local-vps" THEN source.local = "allowed" ELSE source.local # None
    /\ archived' = IF planned.files THEN archived \cup {source.local} ELSE archived
    /\ planned' = NoJob
    /\ UNCHANGED <<source, access, keys, accesses, tested, used, torn>>

\* A source that is not ready, has no adapter or no files fails the job.
FailJob ==
    /\ planned # NoJob
    /\ planned' = NoJob
    /\ UNCHANGED <<source, access, keys, accesses, tested, used, archived, torn>>

\* A call is refused or fails, or its process ends, before it writes.
End(c) ==
    /\ access[c].at # "idle"
    /\ Finish(c)
    /\ UNCHANGED <<source, planned, keys, accesses, tested, used, archived, torn>>

Init ==
    /\ source = NoSource
    /\ planned = NoJob
    /\ access = [c \in Calls |-> IdleAccess]
    /\ keys = 0
    /\ accesses = 0
    /\ tested = {} /\ used = {} /\ archived = {}
    /\ torn = FALSE

Next ==
    \/ PlanBackup \/ RunLocalJob \/ FailJob
    \/ \E c \in Calls :
          \/ UpdatePolicy(c) \/ ReadRow(c) \/ ReadKey(c) \/ SavePolicy(c)
          \/ RecordDetectedSource(c) \/ SaveDetected(c)
          \/ TestHostingConnection(c) \/ TestPassed(c) \/ TestFailed(c)
          \/ RunJob(c) \/ UseRemote(c) \/ End(c)

Spec == Init /\ [][Next]_vars

--------------------------------------------------------------------------------
(* What is promised of a source *)

\* Rows, jobs and calls have the shape of their columns and of the code.
SourceTypeOK ==
    /\ source \in Source /\ planned \in Job /\ access \in [Calls -> Access]
    /\ keys \in Keys /\ accesses \in 0 .. MaxCalls
    /\ tested \subseteq Remotes \X Keys /\ used \subseteq (Remotes \cup {None}) \X Keys \X Voucher
    /\ archived \subseteq Paths \cup {None} /\ torn \in BOOLEAN

\* However saves, check-ins and tests overlap and write back rows that are out of
\* date, a test vouches only for the place and the key it was made with, and backups
\* use no other, as long as no key is paired with a row that was read at another time.
TestVouchesForSource ==
    ~torn => /\ source.vouched = "test" => <<source.remote, source.key>> \in tested
             /\ \A u \in used : u[3] = "test" => <<u[1], u[2]>> \in tested

\* A source is ready only because a test or a check-in said so.
ReadyIsVouched == source.status = "ready" => source.vouched # "nobody"

\* Rows keep their shape, and what is ready has been vouched for.
SourceIsVouched == SourceTypeOK /\ TestVouchesForSource /\ ReadyIsVouched

\* SshSftpConnection: details "must pass a connection test before backup execution".
ReadyWasTested ==
    SshReady(source) => <<source.remote, source.key>> \in tested

\* recordDetectedBackupSource: the reported path "is informational and is not readable
\* by the remote backup worker".
ReportedPathUnread == archived \subseteq {"allowed"}

================================================================================
