------------------------------- MODULE Registry --------------------------------
(* Clients, their managed sites and the storage folder of each client: whole  *)
(* rows that are read and written back by administrators at once, and folders *)
(* that the first backup of any site of a client creates.                     *)
EXTENDS Naturals, FiniteSets

CONSTANTS
    Calls,          \* requests under way at once
    Clients, Sites,
    NoClient,       \* the site is not registered
    Names,          \* names of sites, after which folders are named, and their addresses
    MaxOperations   \* bound: requests begun

RegistryAssumption ==
    /\ NoClient \notin Clients /\ Clients # {} /\ Names # {} /\ MaxOperations \in Nat

VARIABLES
    clients,        \* client_accounts
    sites,          \* sites: name, address, status
    owner,          \* site_client_accounts
    folders,        \* backup_client_folders: at most one row of a client
    backups,        \* backup_artifacts: site and client_folder
    call,           \* what each request has read
    operations,     \* requests begun
    decided,        \* ghost: the status administrators gave a client last
    disabled,       \* ghost: sites that were disabled
    contended       \* ghost: sites of which two requests held the row at once

vars == <<clients, sites, owner, folders, backups, call, operations, decided, disabled, contended>>

Client == [name : Names, status : {"active", "suspended"}]

Site == [name : Names, url : Names, status : {"active", "disabled"}]

\* A folder is the name of the site that was backed up first, or this name and the
\* client's id when another client has it.
Folder == Names \X (Clients \cup {NoClient})

Idle == [at |-> "idle"]

Registered == {s \in Sites : owner[s] # NoClient}

Goto(a, value) == call' = [call EXCEPT ![a] = value]

Begin(a) == call[a].at = "idle" /\ operations < MaxOperations /\ operations' = operations + 1

--------------------------------------------------------------------------------
(* Registration: one transaction *)

\* SiteService.create
NewSite(name, url) == [name |-> name, url |-> url, status |-> "active"]

\* The URL is unique, the client a real one; assignment and plan come with the site.
RegisterManagedSite(a) ==
    /\ Begin(a)
    /\ \E s \in Sites \ Registered, c \in Clients, name \in Names, url \in Names :
          /\ \A t \in Registered : sites[t].url # url
          /\ sites' = [sites EXCEPT ![s] = NewSite(name, url)]
          /\ owner' = [owner EXCEPT ![s] = c]
    /\ UNCHANGED <<clients, folders, backups, call, decided, disabled, contended>>

AssignSite(a) ==
    /\ Begin(a)
    /\ \E s \in Registered, c \in Clients : owner' = [owner EXCEPT ![s] = c]
    /\ UNCHANGED <<clients, sites, folders, backups, call, decided, disabled, contended>>

--------------------------------------------------------------------------------
(* A site's row is read, changed and written as a whole, without a lock *)

ReadSite(a, change) ==
    /\ Begin(a)
    /\ \E s \in Registered :
          /\ Goto(a, [at |-> change, site |-> s, row |-> sites[s]])
          /\ contended' = IF \E b \in Calls \ {a} : call[b].at \in {"update", "disable"} /\ call[b].site = s
                          THEN contended \cup {s} ELSE contended
    /\ UNCHANGED <<clients, sites, owner, folders, backups, decided, disabled>>

\* Mutant: what is edited is put in service.
Reenabled(row, name, url) == [name |-> name, url |-> url, status |-> "active"]

\* "{ ...site, name, url, ... }"
Edited(row, name, url) == [row EXCEPT !.name = name, !.url = url]

UpdateSite(a) ==
    /\ call[a].at = "update"
    /\ \E name \in Names, url \in Names :
          /\ \A t \in Registered \ {call[a].site} : sites[t].url # url
          /\ sites' = [sites EXCEPT ![call[a].site] = Edited(call[a].row, name, url)]
    /\ Goto(a, Idle)
    /\ UNCHANGED <<clients, owner, folders, backups, operations, decided, disabled, contended>>

DisableSite(a) ==
    /\ call[a].at = "disable"
    /\ \A t \in Registered \ {call[a].site} : sites[t].url # call[a].row.url
    /\ sites' = [sites EXCEPT ![call[a].site] = [call[a].row EXCEPT !.status = "disabled"]]
    /\ disabled' = disabled \cup {call[a].site}
    /\ Goto(a, Idle)
    /\ UNCHANGED <<clients, owner, folders, backups, operations, decided, contended>>

--------------------------------------------------------------------------------
(* A client's row, read FOR UPDATE *)

\* Mutant: read without the lock.
Unlocked(c) == TRUE

\* No other transaction has the row of this client.
Free(c) == \A b \in Calls : call[b].at \in {"rename", "folder"} => call[b].client # c

ReadClient(a) ==
    /\ Begin(a)
    /\ \E c \in Clients : Free(c) /\ Goto(a, [at |-> "rename", client |-> c, row |-> clients[c]])
    /\ UNCHANGED <<clients, sites, owner, folders, backups, decided, disabled, contended>>

RenameClient(a) ==
    /\ call[a].at = "rename"
    /\ \E name \in Names : clients' = [clients EXCEPT ![call[a].client] = [call[a].row EXCEPT !.name = name]]
    /\ Goto(a, Idle)
    /\ UNCHANGED <<sites, owner, folders, backups, operations, decided, disabled, contended>>

\* The transaction of EntitlementService: waits for the row, and reads and writes it.
ChangeClientStatus(a) ==
    /\ Begin(a)
    /\ \E c \in Clients, status \in {"active", "suspended"} :
          /\ Free(c) /\ clients[c].status # status
          /\ clients' = [clients EXCEPT ![c].status = status]
          /\ decided' = [decided EXCEPT ![c] = status]
    /\ UNCHANGED <<sites, owner, folders, backups, call, disabled, contended>>

--------------------------------------------------------------------------------
(* The folder of a backup *)

\* The overview is read before the transaction: the folder bears the name the site had.
PrepareBackup(a) ==
    /\ Begin(a)
    /\ \E s \in Registered : Goto(a, [at |-> "prepare", site |-> s, proposed |-> sites[s].name])
    /\ UNCHANGED <<clients, sites, owner, folders, backups, decided, disabled, contended>>

\* Mutant: a folder of this name, whoever has it.
FolderNamed(c, name) == {row \in folders : row.folder = <<name, NoClient>>}

\* WHERE client_account_id = $1
FolderOf(c, name) == {row \in folders : row.client = c}

\* The id of the client is added when the name is taken.
FolderName(c, name) ==
    IF \E row \in folders : row.folder = <<name, NoClient>> THEN <<name, c>> ELSE <<name, NoClient>>

\* The client is locked and found to have a folder, or one is chosen.
LookForFolder(a) ==
    /\ call[a].at = "prepare"
    /\ LET c == owner[call[a].site]
           mine == FolderOf(c, call[a].proposed) IN
       /\ Free(c)
       /\ \/ \E row \in mine : Goto(a, [at |-> "create", site |-> call[a].site, client |-> c, folder |-> row.folder])
          \/ /\ mine = {}
             /\ Goto(a, [at |-> "folder", site |-> call[a].site, client |-> c,
                         folder |-> FolderName(c, call[a].proposed)])
    /\ UNCHANGED <<clients, sites, owner, folders, backups, operations, decided, disabled, contended>>

\* INSERT; the primary key and the UNIQUE name make it fail, and the request with it.
InsertFolder(a) ==
    /\ call[a].at = "folder"
    /\ LET row == [client |-> call[a].client, folder |-> call[a].folder] IN
       IF \E other \in folders : other.client = row.client \/ other.folder = row.folder
       THEN Goto(a, Idle) /\ UNCHANGED folders
       ELSE Goto(a, [call[a] EXCEPT !.at = "create"]) /\ folders' = folders \cup {row}
    /\ UNCHANGED <<clients, sites, owner, backups, operations, decided, disabled, contended>>

\* client: who the site belonged to when the folder was chosen (not a column).
CreateBackup(a) ==
    /\ call[a].at = "create"
    /\ backups' = backups \cup {[site |-> call[a].site, client |-> call[a].client, folder |-> call[a].folder]}
    /\ Goto(a, Idle)
    /\ UNCHANGED <<clients, sites, owner, folders, operations, decided, disabled, contended>>

\* Any request may end before its next step; a transaction is rolled back.
Abandon(a) ==
    /\ call[a].at # "idle"
    /\ Goto(a, Idle)
    /\ UNCHANGED <<clients, sites, owner, folders, backups, operations, decided, disabled, contended>>

Init ==
    /\ \E name \in Names : clients = [c \in Clients |-> [name |-> name, status |-> "active"]]
    /\ sites = [s \in Sites |-> NewSite(CHOOSE n \in Names : TRUE, CHOOSE n \in Names : TRUE)]
    /\ owner = [s \in Sites |-> NoClient]
    /\ folders = {} /\ backups = {}
    /\ call = [a \in Calls |-> Idle] /\ operations = 0
    /\ decided = [c \in Clients |-> "active"] /\ disabled = {} /\ contended = {}

Next ==
    \E a \in Calls :
       \/ RegisterManagedSite(a) \/ AssignSite(a)
       \/ ReadSite(a, "update") \/ UpdateSite(a) \/ ReadSite(a, "disable") \/ DisableSite(a)
       \/ ReadClient(a) \/ RenameClient(a) \/ ChangeClientStatus(a)
       \/ PrepareBackup(a) \/ LookForFolder(a) \/ InsertFolder(a) \/ CreateBackup(a) \/ Abandon(a)

Spec == Init /\ [][Next]_vars

--------------------------------------------------------------------------------
(* What is promised of it *)

\* The rows have the shape of their tables.
RegistryTypeOK ==
    /\ clients \in [Clients -> Client] /\ sites \in [Sites -> Site]
    /\ owner \in [Sites -> Clients \cup {NoClient}]
    /\ \A row \in folders : row.client \in Clients /\ row.folder \in Folder

\* A client that is renamed while it is suspended or reactivated keeps the status that
\* was decided.
RenameKeepsStatus == \A c \in Clients : clients[c].status = decided[c]

\* Nothing puts a disabled site back in service, except a request that held the row
\* while it was disabled.
StaysDisabled == \A s \in disabled \ contended : sites[s].status = "disabled"

\* Backups of one client, of whichever of its sites, lie in one folder, and those of
\* two clients never do, however clients and sites are renamed or change hands.
FolderPerClient == \A x, y \in backups : x.folder = y.folder <=> x.client = y.client

\* Rows written back whole and folders named once keep what others decided.
RegistrySound == RegistryTypeOK /\ RenameKeepsStatus /\ StaysDisabled /\ FolderPerClient

================================================================================
