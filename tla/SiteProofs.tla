------------------------------ MODULE SiteProofs -------------------------------
(* What MCSite asks of its parts holds for any number of actors and things    *)
(* and any bounds: the inductive invariant of a part is kept by the steps of  *)
(* MCSite, since a behaviour runs one part and every step of it is a step of  *)
(* that part.                                                                 *)
EXTENDS MCSite, Integers, FiniteSetTheorems, SequenceTheorems, WellFoundedInduction, TLAPS

--------------------------------------------------------------------------------
(* Plans: the invariants of EntitlementsProofs *)

PlansInv == part = "plans" => Plans!IInv /\ Plans!FollowInv

LEMMA StepOfPlans ==
    ASSUME part = "plans", [Next]_vars
    PROVE  part' = part /\ [Plans!Next]_(Plans!vars)
BY DEF Next, vars, plans, Plans!vars, Plans!tables

LEMMA PlansKept ==
    /\ Init => PlansInv
    /\ PlansInv /\ [Next]_vars => PlansInv'
<1>1. Plans!EntitlementAssumption
  BY SiteAssumption
<1>2. Init => PlansInv
  BY <1>1, Plans!InitIInv, Plans!InitFollows DEF Init, PlansInv
<1>3. ASSUME PlansInv, [Next]_vars PROVE PlansInv'
  <2>1. CASE part = "plans"
    BY <1>1, <1>3, <2>1, StepOfPlans, Plans!NextKeepsIInv, Plans!NextKeepsFollowInv DEF PlansInv
  <2>2. CASE part # "plans"
    BY <1>3, <2>2 DEF Next, vars, PlansInv
  <2> QED
    BY <2>1, <2>2
<1> QED
  BY <1>2, <1>3

\* What waits for a site fits its plan, two exceptions never apply together, and what
\* an evaluation grants was in effect at some moment since it began.
THEOREM PlansAreSound == Spec => []PlansSound
<1>1. Plans!EntitlementAssumption
  BY SiteAssumption
<1>2. ASSUME PlansInv, part = "plans"
      PROVE  Plans!WaitingFitsPlan /\ Plans!OneExceptionAtATime /\ Plans!GrantWasInEffect
  <2>1. Plans!IInv /\ Plans!FollowInv
    BY <1>2 DEF PlansInv
  <2>2. Plans!WaitingFitsPlan /\ Plans!OneExceptionAtATime
    BY <1>1, <2>1, Plans!IInvHolds
  <2> QED
    BY <1>1, <2>1, <2>2, Plans!GrantsFollow
<1>3. PlansInv => PlansSound
  BY <1>2 DEF PlansSound
<1> QED
  BY <1>3, PlansKept, PTL DEF Spec

--------------------------------------------------------------------------------
(* Registry.  A request that is about to rename a client has its row as it    *)
(* is, for the row is locked; a request that is about to write a site back    *)
(* has a row from before the site was disabled only if another had it too;    *)
(* and folders and clients belong to each other one to one.                   *)

\* What a request has read still holds.
RegistryRequest(q) ==
    /\ q.at \in {"idle", "update", "disable", "rename", "prepare", "folder", "create"}
    /\ q.at \in {"update", "disable"} => q.site \in Things /\ owner[q.site] # nobody /\ q.row \in Register!Site
    /\ q.at = "rename" => q.client \in Clients /\ q.row = clients[q.client]
    /\ q.at = "prepare" => q.site \in Things /\ owner[q.site] # nobody /\ q.proposed \in Names
    /\ q.at \in {"folder", "create"} => q.client \in Clients /\ q.folder \in Register!Folder
    /\ q.at = "create" => \E entry \in folders : entry.client = q.client /\ entry.folder = q.folder

\* Two requests do not lock one client, and know when they have one site in hand.
RequestsApart ==
    \A a, b \in Actors : a # b =>
        /\ asked[a].at \in {"rename", "folder"} /\ asked[b].at \in {"rename", "folder"} =>
              asked[a].client # asked[b].client
        /\ asked[a].at \in {"update", "disable"} /\ asked[b].at \in {"update", "disable"}
              /\ asked[a].site = asked[b].site => asked[a].site \in contended

\* A disabled site is registered, and is about to be written back as disabled.
DisabledStay ==
    /\ \A s \in disabled : s \in Things /\ owner[s] # nobody
    /\ Register!StaysDisabled
    /\ \A a \in Actors : asked[a].at = "update" /\ asked[a].site \in disabled \ contended =>
          asked[a].row.status = "disabled"

FoldersApart ==
    /\ \A x, y \in folders : x.client = y.client <=> x.folder = y.folder
    /\ \A x \in backups : \E entry \in folders : entry.client = x.client /\ entry.folder = x.folder

\* What administrators decided of each client is in its row.
StatusDecided == decided = [c \in Clients |-> clients[c].status]

RegistryInv ==
    /\ Register!RegistryTypeOK /\ StatusDecided
    /\ asked = [a \in Actors |-> asked[a]]
    /\ \A a \in Actors : RegistryRequest(asked[a])
    /\ RequestsApart /\ DisabledStay /\ FoldersApart

LEMMA RegistryFacts ==
    /\ nobody \notin Clients /\ Clients # {} /\ Names # {} /\ MaxOperations \in Nat
BY SiteAssumption DEF Register!RegistryAssumption

LEMMA RegistryTypes ==
    ASSUME RegistryInv
    PROVE  /\ clients \in [Clients -> Register!Client] /\ sites \in [Things -> Register!Site]
           /\ owner \in [Things -> Clients \cup {nobody}]
           /\ \A entry \in folders : entry.client \in Clients /\ entry.folder \in Register!Folder
           /\ asked = [a \in Actors |-> asked[a]]
           /\ \A a \in Actors : RegistryRequest(asked[a])
BY DEF RegistryInv, Register!RegistryTypeOK

\* Registration and folders add to what a request has read; a rename needs its client.
LEMMA RequestStays ==
    ASSUME NEW q, RegistryRequest(q),
           \A s \in Things : owner[s] # nobody => owner'[s] # nobody, folders \subseteq folders',
           q.at = "rename" => clients'[q.client] = clients[q.client]
    PROVE  RegistryRequest(q)'
BY DEF RegistryRequest

\* A request goes on, and no row that another relies on changes.
LEMMA RequestGoesOn ==
    ASSUME RegistryInv, NEW a \in Actors, NEW q, asked' = [asked EXCEPT ![a] = q], RegistryRequest(q)',
           \A s \in Things : owner[s] # nobody => owner'[s] # nobody, folders \subseteq folders',
           \A b \in Actors \ {a} : asked[b].at = "rename" => clients'[asked[b].client] = clients[asked[b].client]
    PROVE  /\ asked' = [b \in Actors |-> asked'[b]]
           /\ asked'[a] = q /\ \A b \in Actors \ {a} : asked'[b] = asked[b]
           /\ \A b \in Actors : RegistryRequest(asked[b])'
<1>1. asked' = [b \in Actors |-> asked'[b]] /\ asked'[a] = q /\ \A b \in Actors \ {a} : asked'[b] = asked[b]
  BY RegistryTypes
<1>2. ASSUME NEW b \in Actors PROVE RegistryRequest(asked[b])'
  <2>1. PICK r : r = asked'[b]
    OBVIOUS
  <2>2. CASE b = a
    BY <1>1, <2>1, <2>2 DEF RegistryRequest
  <2>3. CASE b # a
    <3>1. r = asked[b] /\ RegistryRequest(r) /\ (r.at = "rename" => clients'[r.client] = clients[r.client])
      BY <1>1, <2>1, <2>3, RegistryTypes
    <3>2. RegistryRequest(r)'
      BY <3>1, RequestStays
    <3> QED
      BY <2>1, <3>2 DEF RegistryRequest
  <2> QED
    BY <2>2, <2>3
<1> QED
  BY <1>1, <1>2

\* A request leaves off, or reads a client, a site for its folder, or chooses a folder:
\* no row is written.
LEMMA ReadingKeepsRegistry ==
    ASSUME RegistryInv, NEW a \in Actors, NEW q, asked' = [asked EXCEPT ![a] = q], RegistryRequest(q)',
           q.at \notin {"update", "disable"},
           q.at \in {"rename", "folder"} =>
              \A b \in Actors \ {a} : asked[b].at \in {"rename", "folder"} => asked[b].client # q.client,
           UNCHANGED <<clients, sites, owner, folders, backups, decided, disabled, contended>>
    PROVE  RegistryInv'
<1>1. /\ asked' = [b \in Actors |-> asked'[b]]
      /\ asked'[a] = q /\ \A b \in Actors \ {a} : asked'[b] = asked[b]
      /\ \A b \in Actors : RegistryRequest(asked[b])'
  BY RequestGoesOn
<1>2. Register!RegistryTypeOK' /\ StatusDecided'
  BY DEF RegistryInv, Register!RegistryTypeOK, StatusDecided
<1>3. RequestsApart'
  BY <1>1 DEF RegistryInv, RequestsApart
<1>4. DisabledStay'
  BY <1>1 DEF RegistryInv, DisabledStay, Register!StaysDisabled
<1>5. FoldersApart'
  BY DEF RegistryInv, FoldersApart
<1> QED
  BY <1>1, <1>2, <1>3, <1>4, <1>5 DEF RegistryInv

LEMMA IdleIsRequest == RegistryRequest(Register!Idle)' /\ Register!Idle.at = "idle"
BY DEF RegistryRequest, Register!Idle

LEMMA ReadingStepKeepsRegistry ==
    ASSUME RegistryInv, NEW a \in Actors,
           Register!ReadClient(a) \/ Register!PrepareBackup(a) \/ Register!LookForFolder(a) \/ Register!Abandon(a)
    PROVE  RegistryInv'
<1>1. UNCHANGED <<clients, sites, owner, folders, backups, decided, disabled, contended>>
  BY DEF Register!ReadClient, Register!PrepareBackup, Register!LookForFolder, Register!Abandon
<1>2. CASE Register!ReadClient(a)
  <2>1. PICK c \in Clients : /\ Register!Free(c)
                             /\ asked' = [asked EXCEPT ![a] = [at |-> "rename", client |-> c, row |-> clients[c]]]
    BY <1>2 DEF Register!ReadClient, Register!Goto
  <2>2. PICK q : q = [at |-> "rename", client |-> c, row |-> clients[c]]
    OBVIOUS
  <2>3. q.at = "rename" /\ q.client = c /\ RegistryRequest(q)'
    BY <1>1, <2>2 DEF RegistryRequest
  <2>4. asked' = [asked EXCEPT ![a] = q]
    BY <2>1, <2>2
  <2>5. \A b \in Actors \ {a} : asked[b].at \in {"rename", "folder"} => asked[b].client # q.client
    BY <2>1, <2>3 DEF Register!Free
  <2> QED
    BY <1>1, <2>3, <2>4, <2>5, ReadingKeepsRegistry
<1>3. CASE Register!PrepareBackup(a)
  <2>1. PICK s \in Things :
           /\ owner[s] # nobody
           /\ asked' = [asked EXCEPT ![a] = [at |-> "prepare", site |-> s, proposed |-> sites[s].name]]
    BY <1>3 DEF Register!PrepareBackup, Register!Goto, Register!Registered
  <2>2. PICK q : q = [at |-> "prepare", site |-> s, proposed |-> sites[s].name]
    OBVIOUS
  <2>3. sites[s].name \in Names
    BY RegistryTypes DEF Register!Site
  <2>4. q.at = "prepare" /\ RegistryRequest(q)'
    BY <1>1, <2>1, <2>2, <2>3 DEF RegistryRequest
  <2>5. asked' = [asked EXCEPT ![a] = q]
    BY <2>1, <2>2
  <2> QED
    BY <1>1, <2>4, <2>5, ReadingKeepsRegistry
<1>4. CASE Register!LookForFolder(a)
  <2>1. asked[a].at = "prepare" /\ Register!Free(owner[asked[a].site])
    BY <1>4 DEF Register!LookForFolder
  <2>2. PICK s, name : s = asked[a].site /\ name = asked[a].proposed
    OBVIOUS
  <2>3. s \in Things /\ owner[s] \in Clients /\ name \in Names
    BY <2>1, <2>2, RegistryTypes DEF RegistryRequest
  <2>4. PICK c \in Clients : c = owner[s]
    BY <2>3
  <2>5. CASE \E entry \in Register!FolderOf(c, name) :
                asked' = [asked EXCEPT ![a] = [at |-> "create", site |-> s, client |-> c, folder |-> entry.folder]]
    <3>1. PICK entry \in folders :
             /\ entry.client = c
             /\ asked' = [asked EXCEPT ![a] = [at |-> "create", site |-> s, client |-> c, folder |-> entry.folder]]
      BY <2>5 DEF Register!FolderOf
    <3>2. PICK q : q = [at |-> "create", site |-> s, client |-> c, folder |-> entry.folder]
      OBVIOUS
    <3>3. q.at = "create" /\ RegistryRequest(q)'
      BY <1>1, <3>1, <3>2, RegistryTypes DEF RegistryRequest
    <3>4. asked' = [asked EXCEPT ![a] = q]
      BY <3>1, <3>2
    <3> QED
      BY <1>1, <3>3, <3>4, ReadingKeepsRegistry
  <2>6. CASE asked' = [asked EXCEPT ![a] = [at |-> "folder", site |-> s, client |-> c,
                                            folder |-> Register!FolderName(c, name)]]
    <3>1. PICK q : q = [at |-> "folder", site |-> s, client |-> c, folder |-> Register!FolderName(c, name)]
      OBVIOUS
    <3>2. Register!FolderName(c, name) \in Register!Folder
      BY <2>3 DEF Register!FolderName, Register!Folder
    <3>3. q.at = "folder" /\ q.client = c /\ RegistryRequest(q)'
      BY <3>1, <3>2 DEF RegistryRequest
    <3>4. asked' = [asked EXCEPT ![a] = q]
      BY <2>6, <3>1
    <3>5. \A b \in Actors \ {a} : asked[b].at \in {"rename", "folder"} => asked[b].client # q.client
      BY <2>1, <2>2, <2>4, <3>3 DEF Register!Free
    <3> QED
      BY <1>1, <3>3, <3>4, <3>5, ReadingKeepsRegistry
  <2> QED
    BY <1>4, <2>2, <2>4, <2>5, <2>6 DEF Register!LookForFolder, Register!Goto
<1>5. CASE Register!Abandon(a)
  BY <1>1, <1>5, IdleIsRequest, ReadingKeepsRegistry DEF Register!Abandon, Register!Goto
<1> QED
  BY <1>2, <1>3, <1>4, <1>5

LEMMA RegisteringKeepsRegistry ==
    ASSUME RegistryInv, NEW a \in Actors, Register!RegisterManagedSite(a) \/ Register!AssignSite(a)
    PROVE  RegistryInv'
<1>1. /\ UNCHANGED <<clients, folders, backups, decided, disabled, contended>> /\ asked' = asked
      /\ owner' \in [Things -> Clients \cup {nobody}] /\ sites' \in [Things -> Register!Site]
      /\ \A s \in Things : owner[s] # nobody => owner'[s] # nobody /\ sites'[s] = sites[s]
  <2>1. CASE Register!RegisterManagedSite(a)
    <3>1. PICK s \in Things, c \in Clients :
             /\ owner[s] = nobody /\ owner' = [owner EXCEPT ![s] = c]
             /\ \E name \in Names, url \in Names : sites' = [sites EXCEPT ![s] = Register!NewSite(name, url)]
      BY <2>1 DEF Register!RegisterManagedSite, Register!Registered
    <3>2. PICK name \in Names, url \in Names : sites' = [sites EXCEPT ![s] = Register!NewSite(name, url)]
      BY <3>1
    <3>3. Register!NewSite(name, url) \in Register!Site
      BY DEF Register!NewSite, Register!Site
    <3> QED
      BY <2>1, <3>1, <3>2, <3>3, RegistryTypes, RegistryFacts DEF Register!RegisterManagedSite
  <2>2. CASE Register!AssignSite(a)
    BY <2>2, RegistryTypes, RegistryFacts DEF Register!AssignSite, Register!Registered
  <2> QED
    BY <2>1, <2>2
<1>2. ASSUME NEW b \in Actors PROVE RegistryRequest(asked[b])'
  <2>1. PICK q : q = asked[b]
    OBVIOUS
  <2>2. RegistryRequest(q)'
    BY <1>1, <2>1, RegistryTypes, RequestStays
  <2> QED
    BY <1>1, <2>1, <2>2 DEF RegistryRequest
<1>3. Register!RegistryTypeOK' /\ StatusDecided'
  BY <1>1 DEF RegistryInv, Register!RegistryTypeOK, StatusDecided
<1>4. RequestsApart'
  BY <1>1 DEF RegistryInv, RequestsApart
<1>5. DisabledStay'
  BY <1>1 DEF RegistryInv, DisabledStay, Register!StaysDisabled
<1>6. FoldersApart'
  BY <1>1 DEF RegistryInv, FoldersApart
<1> QED
  BY <1>1, <1>2, <1>3, <1>4, <1>5, <1>6 DEF RegistryInv

LEMMA ReadSiteKeepsRegistry ==
    ASSUME RegistryInv, NEW a \in Actors, NEW change \in {"update", "disable"}, Register!ReadSite(a, change)
    PROVE  RegistryInv'
<1>1. PICK s \in Things :
         /\ owner[s] # nobody
         /\ asked' = [asked EXCEPT ![a] = [at |-> change, site |-> s, row |-> sites[s]]]
         /\ contended' = IF \E b \in Actors \ {a} : asked[b].at \in {"update", "disable"} /\ asked[b].site = s
                         THEN contended \cup {s} ELSE contended
  BY DEF Register!ReadSite, Register!Goto, Register!Registered
<1>2. UNCHANGED <<clients, sites, owner, folders, backups, decided, disabled>>
  BY DEF Register!ReadSite
<1>3. PICK q : q = [at |-> change, site |-> s, row |-> sites[s]]
  OBVIOUS
<1>4. q.at = change /\ q.site = s /\ q.row = sites[s] /\ q.row \in Register!Site
  BY <1>3, RegistryTypes
<1>5. RegistryRequest(q)'
  BY <1>1, <1>2, <1>4 DEF RegistryRequest
<1>6. asked' = [asked EXCEPT ![a] = q]
  BY <1>1, <1>3
<1>7. /\ asked' = [b \in Actors |-> asked'[b]]
      /\ asked'[a] = q /\ \A b \in Actors \ {a} : asked'[b] = asked[b]
      /\ \A b \in Actors : RegistryRequest(asked[b])'
  BY <1>2, <1>5, <1>6, RequestGoesOn
<1>8. Register!RegistryTypeOK' /\ StatusDecided'
  BY <1>2 DEF RegistryInv, Register!RegistryTypeOK, StatusDecided
<1>9. contended \subseteq contended'
  BY <1>1
<1>10. RequestsApart'
  <2> SUFFICES ASSUME NEW b \in Actors, NEW d \in Actors, b # d
               PROVE  /\ asked'[b].at \in {"rename", "folder"} /\ asked'[d].at \in {"rename", "folder"} =>
                            asked'[b].client # asked'[d].client
                      /\ asked'[b].at \in {"update", "disable"} /\ asked'[d].at \in {"update", "disable"}
                            /\ asked'[b].site = asked'[d].site => asked'[b].site \in contended'
    BY DEF RequestsApart
  <2>1. CASE b # a /\ d # a
    BY <1>7, <1>9, <2>1 DEF RegistryInv, RequestsApart
  <2>2. CASE b = a \/ d = a
    BY <1>1, <1>4, <1>7, <2>2
  <2> QED
    BY <2>1, <2>2
<1>11. DisabledStay'
  <2>1. Register!StaysDisabled'
    BY <1>2, <1>9 DEF RegistryInv, DisabledStay, Register!StaysDisabled
  <2>2. ASSUME NEW b \in Actors, asked'[b].at = "update", asked'[b].site \in disabled' \ contended'
        PROVE  asked'[b].row.status = "disabled"
    <3>1. CASE b = a
      BY <1>2, <1>4, <1>7, <1>9, <2>2, <3>1 DEF RegistryInv, DisabledStay, Register!StaysDisabled
    <3>2. CASE b # a
      BY <1>2, <1>7, <1>9, <2>2, <3>2 DEF RegistryInv, DisabledStay
    <3> QED
      BY <3>1, <3>2
  <2> QED
    BY <1>2, <2>1, <2>2 DEF RegistryInv, DisabledStay
<1>12. FoldersApart'
  BY <1>2 DEF RegistryInv, FoldersApart
<1> QED
  BY <1>7, <1>8, <1>10, <1>11, <1>12 DEF RegistryInv

LEMMA WriteSiteKeepsRegistry ==
    ASSUME RegistryInv, NEW a \in Actors, Register!UpdateSite(a) \/ Register!DisableSite(a)
    PROVE  RegistryInv'
<1>1. PICK s : s = asked[a].site
  OBVIOUS
<1>2. /\ asked[a].at \in {"update", "disable"} /\ s \in Things /\ owner[s] # nobody
      /\ asked[a].row \in Register!Site
  BY <1>1, RegistryTypes DEF Register!UpdateSite, Register!DisableSite, RegistryRequest
<1>3. /\ asked' = [asked EXCEPT ![a] = Register!Idle]
      /\ UNCHANGED <<clients, owner, folders, backups, decided, contended>>
  BY DEF Register!UpdateSite, Register!DisableSite, Register!Goto
<1>4. PICK entry \in Register!Site :
         /\ sites' = [sites EXCEPT ![s] = entry]
         /\ \/ asked[a].at = "update" /\ entry.status = asked[a].row.status /\ disabled' = disabled
            \/ entry.status = "disabled" /\ disabled' = disabled \cup {s}
  <2>1. CASE Register!UpdateSite(a)
    <3>1. PICK name \in Names, url \in Names : sites' = [sites EXCEPT ![s] = Register!Edited(asked[a].row, name, url)]
      BY <1>1, <2>1 DEF Register!UpdateSite
    <3>2. PICK entry : entry = Register!Edited(asked[a].row, name, url)
      OBVIOUS
    <3>3. entry \in Register!Site /\ entry.status = asked[a].row.status
      BY <1>2, <3>2 DEF Register!Edited, Register!Site
    <3> QED
      BY <2>1, <3>1, <3>2, <3>3 DEF Register!UpdateSite
  <2>2. CASE Register!DisableSite(a)
    <3>1. PICK entry : entry = [asked[a].row EXCEPT !.status = "disabled"]
      OBVIOUS
    <3>2. entry \in Register!Site /\ entry.status = "disabled"
      BY <1>2, <3>1 DEF Register!Site
    <3> QED
      BY <1>1, <2>2, <3>1, <3>2 DEF Register!DisableSite
  <2> QED
    BY <2>1, <2>2
<1>5. /\ asked' = [b \in Actors |-> asked'[b]]
      /\ asked'[a] = Register!Idle /\ \A b \in Actors \ {a} : asked'[b] = asked[b]
      /\ \A b \in Actors : RegistryRequest(asked[b])'
  BY <1>3, IdleIsRequest, RequestGoesOn
<1>6. sites' \in [Things -> Register!Site] /\ sites'[s] = entry /\ \A t \in Things \ {s} : sites'[t] = sites[t]
  BY <1>2, <1>4, RegistryTypes
<1>7. Register!RegistryTypeOK' /\ StatusDecided'
  BY <1>3, <1>6 DEF RegistryInv, Register!RegistryTypeOK, StatusDecided
<1>8. RequestsApart'
  BY <1>3, <1>5, IdleIsRequest DEF RegistryInv, RequestsApart
<1>9. DisabledStay'
  <2>1. Register!StaysDisabled'
    BY <1>1, <1>3, <1>4, <1>6 DEF RegistryInv, DisabledStay, Register!StaysDisabled
  <2>2. ASSUME NEW b \in Actors, asked'[b].at = "update", asked'[b].site \in disabled' \ contended'
        PROVE  asked'[b].row.status = "disabled"
    <3>1. b # a /\ asked'[b] = asked[b]
      BY <1>5, <2>2, IdleIsRequest
    <3>2. asked[b].site # s
      BY <1>1, <1>2, <1>3, <2>2, <3>1 DEF RegistryInv, RequestsApart
    <3> QED
      BY <1>3, <1>4, <2>2, <3>1, <3>2 DEF RegistryInv, DisabledStay
  <2> QED
    BY <1>2, <1>3, <1>4, <2>1, <2>2 DEF RegistryInv, DisabledStay
<1>10. FoldersApart'
  BY <1>3 DEF RegistryInv, FoldersApart
<1> QED
  BY <1>5, <1>7, <1>8, <1>9, <1>10 DEF RegistryInv

LEMMA RenameKeepsRegistry ==
    ASSUME RegistryInv, NEW a \in Actors, Register!RenameClient(a)
    PROVE  RegistryInv'
<1>1. /\ asked[a].at = "rename" /\ asked[a].client \in Clients /\ asked[a].row = clients[asked[a].client]
      /\ asked' = [asked EXCEPT ![a] = Register!Idle]
      /\ UNCHANGED <<sites, owner, folders, backups, decided, disabled, contended>>
  BY RegistryTypes DEF Register!RenameClient, Register!Goto, RegistryRequest
<1>2. PICK c \in Clients : c = asked[a].client
  BY <1>1
<1>3. PICK name \in Names : clients' = [clients EXCEPT ![c] = [clients[c] EXCEPT !.name = name]]
  BY <1>1, <1>2 DEF Register!RenameClient
<1>4. clients[c] \in Register!Client
  BY RegistryTypes
<1>5. PICK entry : entry = [clients[c] EXCEPT !.name = name]
  OBVIOUS
<1>6. entry \in Register!Client /\ entry.status = clients[c].status
  BY <1>4, <1>5 DEF Register!Client
<1>7. /\ clients' \in [Clients -> Register!Client] /\ clients'[c] = entry
      /\ \A d \in Clients \ {c} : clients'[d] = clients[d]
  BY <1>3, <1>5, <1>6, RegistryTypes
<1>8. \A b \in Actors \ {a} : asked[b].at = "rename" => clients'[asked[b].client] = clients[asked[b].client]
  BY <1>1, <1>2, <1>7, RegistryTypes DEF RegistryInv, RequestsApart, RegistryRequest
<1>9. /\ asked' = [b \in Actors |-> asked'[b]]
      /\ asked'[a] = Register!Idle /\ \A b \in Actors \ {a} : asked'[b] = asked[b]
      /\ \A b \in Actors : RegistryRequest(asked[b])'
  BY <1>1, <1>8, IdleIsRequest, RequestGoesOn
<1>10. Register!RegistryTypeOK' /\ StatusDecided'
  BY <1>1, <1>6, <1>7 DEF RegistryInv, Register!RegistryTypeOK, StatusDecided
<1>11. RequestsApart'
  BY <1>1, <1>9, IdleIsRequest DEF RegistryInv, RequestsApart
<1>12. DisabledStay'
  BY <1>1, <1>9, IdleIsRequest DEF RegistryInv, DisabledStay, Register!StaysDisabled
<1>13. FoldersApart'
  BY <1>1 DEF RegistryInv, FoldersApart
<1> QED
  BY <1>9, <1>10, <1>11, <1>12, <1>13 DEF RegistryInv

LEMMA StatusKeepsRegistry ==
    ASSUME RegistryInv, NEW a \in Actors, Register!ChangeClientStatus(a)
    PROVE  RegistryInv'
<1>1. PICK c \in Clients, status \in {"active", "suspended"} :
         /\ Register!Free(c)
         /\ clients' = [clients EXCEPT ![c].status = status] /\ decided' = [decided EXCEPT ![c] = status]
  BY DEF Register!ChangeClientStatus
<1>2. UNCHANGED <<sites, owner, folders, backups, asked, disabled, contended>>
  BY DEF Register!ChangeClientStatus
<1>3. clients[c] \in Register!Client
  BY RegistryTypes
<1>4. PICK entry : entry = [clients[c] EXCEPT !.status = status]
  OBVIOUS
<1>5. entry \in Register!Client /\ entry.status = status
  BY <1>3, <1>4 DEF Register!Client
<1>6. /\ clients' \in [Clients -> Register!Client] /\ clients'[c] = entry
      /\ \A d \in Clients \ {c} : clients'[d] = clients[d]
  BY <1>1, <1>4, <1>5, RegistryTypes
<1>7. ASSUME NEW b \in Actors PROVE RegistryRequest(asked[b])'
  <2>1. PICK q : q = asked[b]
    OBVIOUS
  <2>2. q.at = "rename" => q.client # c /\ q.client \in Clients
    BY <1>1, <2>1, RegistryTypes DEF Register!Free, RegistryRequest
  <2>3. RegistryRequest(q)'
    BY <1>2, <1>6, <2>1, <2>2, RegistryTypes, RequestStays
  <2> QED
    BY <1>2, <2>1, <2>3 DEF RegistryRequest
<1>8. Register!RegistryTypeOK'
  BY <1>2, <1>6 DEF RegistryInv, Register!RegistryTypeOK
<1>9. StatusDecided'
  BY <1>1, <1>5, <1>6 DEF RegistryInv, StatusDecided
<1>10. RequestsApart' /\ DisabledStay' /\ FoldersApart'
  BY <1>2 DEF RegistryInv, RequestsApart, DisabledStay, FoldersApart, Register!StaysDisabled
<1> QED
  BY <1>2, <1>7, <1>8, <1>9, <1>10 DEF RegistryInv, StatusDecided

LEMMA InsertKeepsRegistry ==
    ASSUME RegistryInv, NEW a \in Actors, Register!InsertFolder(a)
    PROVE  RegistryInv'
<1>1. /\ asked[a].at = "folder" /\ asked[a].client \in Clients /\ asked[a].folder \in Register!Folder
      /\ UNCHANGED <<clients, sites, owner, backups, decided, disabled, contended>>
  BY RegistryTypes DEF Register!InsertFolder, RegistryRequest
<1>2. PICK entry : entry = [client |-> asked[a].client, folder |-> asked[a].folder]
  OBVIOUS
<1>3. entry.client = asked[a].client /\ entry.folder = asked[a].folder
  BY <1>2
<1>4. CASE \E other \in folders : other.client = entry.client \/ other.folder = entry.folder
  <2>1. asked' = [asked EXCEPT ![a] = Register!Idle] /\ folders' = folders
    BY <1>2, <1>4 DEF Register!InsertFolder, Register!Goto
  <2> QED
    BY <1>1, <2>1, IdleIsRequest, ReadingKeepsRegistry
<1>5. CASE ~\E other \in folders : other.client = entry.client \/ other.folder = entry.folder
  <2>1. asked' = [asked EXCEPT ![a] = [asked[a] EXCEPT !.at = "create"]] /\ folders' = folders \cup {entry}
    BY <1>2, <1>5 DEF Register!InsertFolder, Register!Goto
  <2>2. PICK q : q = [asked[a] EXCEPT !.at = "create"]
    OBVIOUS
  <2>3. RegistryRequest(q)' /\ q.at # "idle" /\ q.at \notin {"rename", "folder", "update", "disable"}
    BY <1>1, <1>3, <2>1, <2>2 DEF RegistryRequest
  <2>4. asked' = [asked EXCEPT ![a] = q]
    BY <2>1, <2>2
  <2>5. /\ asked' = [b \in Actors |-> asked'[b]]
        /\ asked'[a] = q /\ \A b \in Actors \ {a} : asked'[b] = asked[b]
        /\ \A b \in Actors : RegistryRequest(asked[b])'
    BY <1>1, <2>1, <2>3, <2>4, RequestGoesOn
  <2>6. Register!RegistryTypeOK' /\ StatusDecided'
    BY <1>1, <1>3, <2>1 DEF RegistryInv, Register!RegistryTypeOK, StatusDecided
  <2>7. RequestsApart'
    BY <1>1, <2>3, <2>5 DEF RegistryInv, RequestsApart
  <2>8. DisabledStay'
    BY <1>1, <2>3, <2>5 DEF RegistryInv, DisabledStay, Register!StaysDisabled
  <2>9. FoldersApart'
    BY <1>1, <1>5, <2>1 DEF RegistryInv, FoldersApart
  <2> QED
    BY <2>5, <2>6, <2>7, <2>8, <2>9 DEF RegistryInv
<1> QED
  BY <1>4, <1>5

LEMMA BackupKeepsRegistry ==
    ASSUME RegistryInv, NEW a \in Actors, Register!CreateBackup(a)
    PROVE  RegistryInv'
<1>1. PICK backup : backup = [site |-> asked[a].site, client |-> asked[a].client, folder |-> asked[a].folder]
  OBVIOUS
<1>2. /\ backups' = backups \cup {backup} /\ backup.client = asked[a].client /\ backup.folder = asked[a].folder
      /\ asked[a].at = "create" /\ asked' = [asked EXCEPT ![a] = Register!Idle]
      /\ UNCHANGED <<clients, sites, owner, folders, decided, disabled, contended>>
  BY <1>1 DEF Register!CreateBackup, Register!Goto
<1>3. \E entry \in folders : entry.client = backup.client /\ entry.folder = backup.folder
  BY <1>2, RegistryTypes DEF RegistryRequest
<1>4. /\ asked' = [b \in Actors |-> asked'[b]]
      /\ asked'[a] = Register!Idle /\ \A b \in Actors \ {a} : asked'[b] = asked[b]
      /\ \A b \in Actors : RegistryRequest(asked[b])'
  BY <1>2, IdleIsRequest, RequestGoesOn
<1>5. Register!RegistryTypeOK' /\ StatusDecided'
  BY <1>2 DEF RegistryInv, Register!RegistryTypeOK, StatusDecided
<1>6. RequestsApart'
  BY <1>2, <1>4, IdleIsRequest DEF RegistryInv, RequestsApart
<1>7. DisabledStay'
  BY <1>2, <1>4, IdleIsRequest DEF RegistryInv, DisabledStay, Register!StaysDisabled
<1>8. FoldersApart'
  BY <1>2, <1>3 DEF RegistryInv, FoldersApart
<1> QED
  BY <1>4, <1>5, <1>6, <1>7, <1>8 DEF RegistryInv

LEMMA RegistryFollows == RegistryInv => Register!RegistrySound
<1> SUFFICES ASSUME RegistryInv PROVE Register!RegistrySound
  OBVIOUS
<1>1. Register!RegistryTypeOK /\ Register!StaysDisabled
  BY DEF RegistryInv, DisabledStay
<1>2. Register!RenameKeepsStatus
  BY DEF RegistryInv, StatusDecided, Register!RenameKeepsStatus
<1>3. Register!FolderPerClient
  BY DEF RegistryInv, FoldersApart, Register!FolderPerClient
<1> QED
  BY <1>1, <1>2, <1>3 DEF Register!RegistrySound

LEMMA RegistryStarts == Register!Init => RegistryInv
<1> SUFFICES ASSUME Register!Init PROVE RegistryInv
  OBVIOUS
<1>1. PICK name \in Names : clients = [c \in Clients |-> [name |-> name, status |-> "active"]]
  BY DEF Register!Init
<1>2. (CHOOSE n \in Names : TRUE) \in Names
  BY RegistryFacts
<1>3. Register!RegistryTypeOK
  BY <1>1, <1>2 DEF Register!Init, Register!RegistryTypeOK, Register!Client, Register!Site, Register!NewSite
<1>4. StatusDecided
  BY <1>1 DEF Register!Init, StatusDecided
<1>5. \A a \in Actors : RegistryRequest(asked[a]) /\ asked[a].at = "idle"
  BY DEF Register!Init, RegistryRequest, Register!Idle
<1>6. asked = [a \in Actors |-> asked[a]]
  BY DEF Register!Init
<1>7. RequestsApart /\ DisabledStay /\ FoldersApart
  BY <1>5 DEF Register!Init, RequestsApart, DisabledStay, FoldersApart, Register!StaysDisabled
<1> QED
  BY <1>3, <1>4, <1>5, <1>6, <1>7 DEF RegistryInv

RegistersInv == part = "registry" => RegistryInv

LEMMA RegistersKept == (Init => RegistersInv) /\ (RegistersInv /\ [Next]_vars => RegistersInv')
<1>1. Init => RegistersInv
  BY RegistryStarts DEF Init, RegistersInv
<1>2. ASSUME RegistersInv, [Next]_vars PROVE RegistersInv'
  <2>1. part' = part
    BY <1>2 DEF Next, vars
  <2>2. SUFFICES ASSUME part = "registry", RegistryInv PROVE RegistryInv'
    BY <1>2, <2>1 DEF RegistersInv
  <2>3. CASE Register!Next
    BY <2>2, <2>3, RegisteringKeepsRegistry, ReadSiteKeepsRegistry, WriteSiteKeepsRegistry,
       ReadingStepKeepsRegistry, RenameKeepsRegistry, StatusKeepsRegistry, InsertKeepsRegistry,
       BackupKeepsRegistry DEF Register!Next
  <2>4. CASE UNCHANGED registry
    <3>1. UNCHANGED <<clients, sites, owner, folders, backups, asked, operations, decided, disabled, contended>>
      BY <2>4 DEF registry
    <3> QED
      BY <2>2, <3>1 DEF RegistryInv, Register!RegistryTypeOK, StatusDecided, RegistryRequest, RequestsApart,
         DisabledStay, FoldersApart, Register!StaysDisabled
  <2> QED
    BY <1>2, <2>2, <2>3, <2>4 DEF Next, vars
<1> QED
  BY <1>1, <1>2

--------------------------------------------------------------------------------
(* Hosting accounts.  While the listing does not move, the pages that were    *)
(* read are its beginning, and a whole listing has every website it had when  *)
(* the synchronization began.  One synchronization at a time copies a row as  *)
(* it is before it marks it.                                                  *)

\* The websites on the pages that were read, and on all of them, are listed.
PagesListed(r) ==
    /\ r.at = "websites" => r.page \in Nat \ {0}
    /\ r.at = "websites" /\ ~r.shifted =>
          /\ r.steady \subseteq Hosting!Listing
          /\ \A i \in DOMAIN websites : i <= (r.page - 1) * PageSize => websites[i] \in r.listed
    /\ r.at \in {"installations", "save"} /\ ~r.shifted => r.steady \subseteq r.listed

DetailsKept ==
    ~tangled =>
        /\ \A c, d \in Actors : c # d => sync[c].at = "idle" \/ sync[d].at = "idle"
        /\ \A s \in Things :
              /\ row[s].website = known[s].website /\ row[s].installation = known[s].installation
              /\ row[s].availability = "available" => row[s] = known[s]
        /\ \A c \in Actors : sync[c].at = "unavailable" => \A s \in sync[c].sites : sync[c].copy = row[s]

PortfolioInv ==
    /\ row \in [Things -> Hosting!Row] /\ known \in [Things -> Hosting!Row]
    /\ active \subseteq Things /\ websites \in Seq(Things) /\ installations \subseteq Things
    /\ syncs \in 0 .. MaxSyncs /\ moves \in 0 .. MaxMoves
    /\ sync \in [Actors -> Hosting!Sync]
    /\ \A c \in Actors : PagesListed(sync[c])
    /\ missed = {} /\ DetailsKept /\ tangled \in BOOLEAN

LEMMA PortfolioFacts ==
    /\ PageSize \in Nat \ {0} /\ MaxPages \in Nat \ {0} /\ MaxSyncs \in Nat /\ MaxMoves \in Nat
    /\ IsFiniteSet(Things)
    /\ Hosting!NotSynchronized \in Hosting!Row /\ Hosting!IdleSync \in Hosting!Sync
    /\ Hosting!IdleSync.at = "idle"
    /\ \A r : r \in Hosting!Sync =>
          /\ r.at \in {"idle", "websites", "installations", "save", "read", "unavailable"}
          /\ r.number \in 0 .. MaxSyncs /\ r.sites \subseteq Things /\ r.todo \subseteq Things /\ r.page \in Nat
          /\ r.listed \subseteq Things /\ r.installed \subseteq Things
          /\ r.reason \in {"not-configured", "provider-error"} /\ r.copy \in Hosting!Row
          /\ r.steady \subseteq Things /\ r.shifted \in BOOLEAN
<1>1. /\ PageSize \in Nat \ {0} /\ MaxPages \in Nat \ {0} /\ MaxSyncs \in Nat /\ MaxMoves \in Nat
      /\ IsFiniteSet(Things)
  BY SiteAssumption DEF Hosting!PortfolioAssumption, IsFiniteSet, Hosting!IsFiniteSet
<1>2. Hosting!NotSynchronized \in Hosting!Row
  BY <1>1 DEF Hosting!NotSynchronized, Hosting!Row
<1>3. Hosting!IdleSync \in Hosting!Sync /\ Hosting!IdleSync.at = "idle"
  BY <1>1, <1>2 DEF Hosting!IdleSync, Hosting!Sync
<1> QED
  BY <1>1, <1>2, <1>3 DEF Hosting!Sync

LEMMA PortfolioTypes ==
    ASSUME PortfolioInv
    PROVE  /\ row \in [Things -> Hosting!Row] /\ known \in [Things -> Hosting!Row]
           /\ active \subseteq Things /\ websites \in Seq(Things) /\ installations \subseteq Things
           /\ syncs \in 0 .. MaxSyncs /\ moves \in 0 .. MaxMoves
           /\ sync \in [Actors -> Hosting!Sync] /\ missed = {} /\ tangled \in BOOLEAN
           /\ \A c \in Actors : PagesListed(sync[c])
BY DEF PortfolioInv

\* A synchronization goes on; no row is saved and nothing moves at the provider.
LEMMA SyncGoesOn ==
    ASSUME PortfolioInv, NEW c \in Actors, NEW r \in Hosting!Sync, sync' = [sync EXCEPT ![c] = r],
           PagesListed(r), syncs' \in 0 .. MaxSyncs, tangled' \in BOOLEAN,
           UNCHANGED <<active, websites, installations, row, moves, known, missed>>,
           tangled => tangled',
           ~tangled' => sync[c].at # "idle" \/ r.at = "idle" \/ \A d \in Actors \ {c} : sync[d].at = "idle",
           r.at = "unavailable" => \A s \in r.sites : r.copy = row[s]
    PROVE  PortfolioInv'
<1>1. /\ sync' \in [Actors -> Hosting!Sync] /\ sync'[c] = r
      /\ \A d \in Actors \ {c} : sync'[d] = sync[d]
  BY PortfolioTypes
<1>2. ASSUME NEW d \in Actors PROVE PagesListed(sync[d])'
  <2>1. PICK q : q = sync'[d]
    OBVIOUS
  <2>2. PagesListed(q)
    BY <1>1, <2>1, PortfolioTypes
  <2> QED
    BY <2>1, <2>2 DEF PagesListed, Hosting!Listing
<1>3. DetailsKept'
  BY <1>1 DEF PortfolioInv, DetailsKept
<1> QED
  BY <1>1, <1>2, <1>3 DEF PortfolioInv

\* It goes on, having been under way.
LEMMA ReadingKeepsPortfolio ==
    ASSUME PortfolioInv, NEW c \in Actors, NEW r \in Hosting!Sync, sync' = [sync EXCEPT ![c] = r],
           PagesListed(r), sync[c].at # "idle",
           UNCHANGED <<active, websites, installations, row, syncs, moves, known, missed, tangled>>,
           r.at = "unavailable" => \A s \in r.sites : r.copy = row[s]
    PROVE  PortfolioInv'
<1>1. syncs' \in 0 .. MaxSyncs /\ UNCHANGED <<active, websites, installations, row, moves, known, missed>>
  BY PortfolioTypes
<1>2. tangled' \in BOOLEAN
  BY PortfolioTypes
<1>3. tangled => tangled'
  OBVIOUS
<1> QED
  BY <1>1, <1>2, <1>3, SyncGoesOn

LEMMA SynchronizeKeepsPortfolio ==
    ASSUME PortfolioInv, NEW c \in Actors, Hosting!Synchronize(c)
    PROVE  PortfolioInv'
<1>1. PICK r : r = [Hosting!IdleSync EXCEPT !.at = "websites", !.number = syncs + 1, !.sites = active,
                                            !.todo = active, !.steady = Hosting!Listing]
  OBVIOUS
<1>2. /\ sync' = [sync EXCEPT ![c] = r] /\ syncs < MaxSyncs /\ syncs' = syncs + 1
      /\ tangled' = (tangled \/ \E d \in Actors : sync[d].at # "idle")
      /\ UNCHANGED <<active, websites, installations, row, moves, known, missed>>
  BY <1>1 DEF Hosting!Synchronize, Hosting!Goto
<1>3. syncs + 1 \in 0 .. MaxSyncs
  BY <1>2, PortfolioTypes, PortfolioFacts
<1>4. Hosting!Listing \subseteq Things
  BY PortfolioTypes DEF Hosting!Listing
<1>5. /\ r \in Hosting!Sync /\ r.at = "websites" /\ r.page = 1 /\ r.steady = Hosting!Listing
  BY <1>1, <1>3, <1>4, PortfolioTypes, PortfolioFacts DEF Hosting!Sync, Hosting!IdleSync
<1>6. \A i \in DOMAIN websites : ~(i <= (r.page - 1) * PageSize)
  BY <1>5, PortfolioTypes, PortfolioFacts
<1>7. PagesListed(r)
  BY <1>5, <1>6 DEF PagesListed
<1>8. ~tangled' => \A d \in Actors \ {c} : sync[d].at = "idle"
  BY <1>2
<1>9. tangled' \in BOOLEAN
  BY <1>2
<1>10. tangled => tangled'
  BY <1>2
<1> QED
  BY <1>2, <1>3, <1>5, <1>7, <1>8, <1>9, <1>10, SyncGoesOn

LEMMA FetchPageKeepsPortfolio ==
    ASSUME PortfolioInv, NEW c \in Actors, Hosting!FetchPage(c)
    PROVE  PortfolioInv'
<1>1. PICK old : old = sync[c]
  OBVIOUS
<1>2. PICK n : n = old.page * PageSize
  OBVIOUS
<1>3. PICK found : found = {websites[i] : i \in {j \in DOMAIN websites : (old.page - 1) * PageSize < j /\ j <= n}}
  OBVIOUS
<1>4. PICK last : last = Hosting!LastPage(old.page, Len(websites))
  OBVIOUS
<1>5. PICK r : r = [old EXCEPT !.listed = old.listed \cup found,
                               !.shifted = old.shifted \/ (old.page = MaxPages /\ n < Len(websites)),
                               !.at = IF last THEN "installations" ELSE old.at,
                               !.page = IF last THEN 1 ELSE old.page + 1]
  OBVIOUS
<1>6. /\ old.at = "websites" /\ sync' = [sync EXCEPT ![c] = r]
      /\ UNCHANGED <<active, websites, installations, row, syncs, moves, known, missed, tangled>>
  BY <1>1, <1>2, <1>3, <1>4, <1>5 DEF Hosting!FetchPage, Hosting!Goto
<1>7. old \in Hosting!Sync /\ old.page \in Nat \ {0} /\ PagesListed(old)
  BY <1>1, <1>6, PortfolioTypes DEF PagesListed
<1>8. found \subseteq Things
  BY <1>3, PortfolioTypes
<1>9. /\ r \in Hosting!Sync /\ r.listed = old.listed \cup found /\ r.steady = old.steady
      /\ r.at = (IF last THEN "installations" ELSE "websites")
      /\ r.page = (IF last THEN 1 ELSE old.page + 1)
  <2>1. old.page + 1 \in Nat /\ 1 \in Nat
    BY <1>7
  <2> QED
    BY <1>5, <1>6, <1>7, <1>8, <2>1, PortfolioFacts DEF Hosting!Sync
<1>10. ~r.shifted => ~old.shifted /\ ~(old.page = MaxPages /\ n < Len(websites))
  BY <1>5, <1>7, PortfolioFacts DEF Hosting!Sync
<1>11. n \in Int /\ Len(websites) \in Nat /\ DOMAIN websites = 1 .. Len(websites)
  BY <1>2, <1>7, PortfolioTypes, PortfolioFacts
<1>12. ~r.shifted => \A i \in DOMAIN websites : i <= n => websites[i] \in r.listed
  <2>1. PICK m : m = (old.page - 1) * PageSize
    OBVIOUS
  <2>2. m \in Int
    BY <1>7, <2>1, PortfolioFacts
  <2>3. ~old.shifted => \A i \in DOMAIN websites : i <= m => websites[i] \in old.listed
    BY <1>6, <1>7, <2>1 DEF PagesListed
  <2>4. \A i \in DOMAIN websites : m < i /\ i <= n => websites[i] \in found
    BY <1>3, <2>1
  <2>5. \A i \in DOMAIN websites : i <= m \/ m < i
    BY <1>11, <2>2
  <2> QED
    BY <1>9, <1>10, <2>3, <2>4, <2>5
<1>13. CASE last
  <2>1. ~r.shifted => Len(websites) <= n
    <3>1. last <=> n >= Len(websites) \/ old.page = MaxPages
      BY <1>2, <1>4 DEF Hosting!LastPage
    <3> QED
      BY <1>10, <1>11, <1>13, <3>1
  <2>2. ~r.shifted => Hosting!Listing \subseteq r.listed
    BY <1>11, <1>12, <2>1 DEF Hosting!Listing
  <2>3. PagesListed(r)
    BY <1>6, <1>7, <1>9, <1>10, <1>13, <2>2 DEF PagesListed
  <2> QED
    BY <1>1, <1>6, <1>9, <1>13, <2>3, ReadingKeepsPortfolio
<1>14. CASE ~last
  <2>1. r.page = old.page + 1 /\ r.page - 1 = old.page /\ r.page \in Nat \ {0} /\ r.at = "websites"
    BY <1>7, <1>9, <1>14
  <2>2. PagesListed(r)
    BY <1>2, <1>6, <1>7, <1>9, <1>10, <1>12, <2>1 DEF PagesListed
  <2> QED
    BY <1>1, <1>6, <1>9, <2>1, <2>2, ReadingKeepsPortfolio
<1> QED
  BY <1>13, <1>14

\* A failure, or the end of one, leaves nothing of the listing.
LEMMA UnavailableKeepsPortfolio ==
    ASSUME PortfolioInv, NEW c \in Actors, Hosting!ListingFails(c) \/ Hosting!SaveFails(c)
    PROVE  PortfolioInv'
<1>1. PICK reason \in {"not-configured", "provider-error"} :
         /\ sync[c].at # "idle" /\ sync' = [sync EXCEPT ![c] = Hosting!Unavailable(c, reason)]
         /\ UNCHANGED <<active, websites, installations, row, syncs, moves, known, missed, tangled>>
  BY DEF Hosting!ListingFails, Hosting!SaveFails, Hosting!Goto
<1>2. PICK r : r = Hosting!Unavailable(c, reason)
  OBVIOUS
<1>3. sync[c] \in Hosting!Sync
  BY PortfolioTypes
<1>4. sync[c].number \in 0 .. MaxSyncs /\ sync[c].sites \subseteq Things
  BY <1>3, PortfolioFacts
<1>5. r \in Hosting!Sync /\ r.at = "read"
  BY <1>2, <1>4, PortfolioFacts DEF Hosting!Unavailable, Hosting!Sync
<1>6. PagesListed(r)
  BY <1>5 DEF PagesListed
<1> QED
  BY <1>1, <1>2, <1>5, <1>6, ReadingKeepsPortfolio

LEMMA InstallationsKeepPortfolio ==
    ASSUME PortfolioInv, NEW c \in Actors, Hosting!FetchInstallations(c)
    PROVE  PortfolioInv'
<1>1. PICK some \in {installations, {}} :
         /\ sync[c].at = "installations"
         /\ sync' = [sync EXCEPT ![c] = [sync[c] EXCEPT !.at = "save", !.installed = some]]
         /\ UNCHANGED <<active, websites, installations, row, syncs, moves, known, missed, tangled>>
  BY DEF Hosting!FetchInstallations, Hosting!Goto
<1>2. PICK r : r = [sync[c] EXCEPT !.at = "save", !.installed = some]
  OBVIOUS
<1>3. sync[c] \in Hosting!Sync /\ some \subseteq Things /\ PagesListed(sync[c])
  BY PortfolioTypes
<1>4. /\ r \in Hosting!Sync /\ r.at = "save" /\ r.steady = sync[c].steady /\ r.listed = sync[c].listed
      /\ r.shifted = sync[c].shifted
  BY <1>2, <1>3 DEF Hosting!Sync
<1>5. PagesListed(r)
  BY <1>1, <1>3, <1>4 DEF PagesListed
<1> QED
  BY <1>1, <1>2, <1>4, <1>5, ReadingKeepsPortfolio

LEMMA EndingKeepsPortfolio ==
    ASSUME PortfolioInv, NEW c \in Actors, Hosting!End(c) \/ Hosting!Crash(c)
    PROVE  PortfolioInv'
<1>1. /\ sync[c].at # "idle" /\ sync' = [sync EXCEPT ![c] = Hosting!IdleSync]
      /\ UNCHANGED <<active, websites, installations, row, syncs, moves, known, missed, tangled>>
  BY DEF Hosting!End, Hosting!Crash, Hosting!Goto
<1>2. PagesListed(Hosting!IdleSync)
  BY PortfolioFacts DEF PagesListed
<1> QED
  BY <1>1, <1>2, PortfolioFacts, ReadingKeepsPortfolio

LEMMA ReadExistingKeepsPortfolio ==
    ASSUME PortfolioInv, NEW c \in Actors, Hosting!ReadExisting(c)
    PROVE  PortfolioInv'
<1>1. PICK s \in sync[c].todo :
         /\ sync[c].at = "read"
         /\ sync' = [sync EXCEPT ![c] = [sync[c] EXCEPT !.at = "unavailable", !.copy = row[s], !.sites = {s},
                                                        !.todo = sync[c].todo \ {s}]]
         /\ UNCHANGED <<active, websites, installations, row, syncs, moves, known, missed, tangled>>
  BY DEF Hosting!ReadExisting, Hosting!Goto
<1>2. PICK r : r = [sync[c] EXCEPT !.at = "unavailable", !.copy = row[s], !.sites = {s},
                                   !.todo = sync[c].todo \ {s}]
  OBVIOUS
<1>3. sync[c] \in Hosting!Sync /\ s \in Things /\ row[s] \in Hosting!Row /\ sync[c].todo \subseteq Things
  BY <1>1, PortfolioTypes, PortfolioFacts
<1>4. r \in Hosting!Sync /\ r.at = "unavailable" /\ r.sites = {s} /\ r.copy = row[s]
  BY <1>2, <1>3 DEF Hosting!Sync
<1>5. PagesListed(r)
  BY <1>4 DEF PagesListed
<1> QED
  BY <1>1, <1>2, <1>4, <1>5, ReadingKeepsPortfolio

\* A site is saved, in the row and in what is known, or marked.
LEMMA SavingKeepsPortfolio ==
    ASSUME PortfolioInv, NEW c \in Actors, NEW r \in Hosting!Sync, NEW s \in Things,
           NEW saved_ \in Hosting!Row, NEW said \in Hosting!Row,
           sync' = [sync EXCEPT ![c] = r], PagesListed(r), sync[c].at # "idle", r.at # "unavailable",
           row' = [row EXCEPT ![s] = saved_], known' = [known EXCEPT ![s] = said], missed' = {},
           UNCHANGED <<active, websites, installations, syncs, moves, tangled>>,
           ~tangled => /\ saved_.website = said.website /\ saved_.installation = said.installation
                       /\ saved_.availability = "available" => saved_ = said
    PROVE  PortfolioInv'
<1>1. /\ sync' \in [Actors -> Hosting!Sync] /\ sync'[c] = r
      /\ \A d \in Actors \ {c} : sync'[d] = sync[d]
  BY PortfolioTypes
<1>2. ASSUME NEW d \in Actors PROVE PagesListed(sync[d])'
  <2>1. PICK q : q = sync'[d]
    OBVIOUS
  <2>2. PagesListed(q)
    BY <1>1, <2>1, PortfolioTypes
  <2> QED
    BY <2>1, <2>2 DEF PagesListed, Hosting!Listing
<1>3. /\ row' \in [Things -> Hosting!Row] /\ row'[s] = saved_ /\ \A t \in Things \ {s} : row'[t] = row[t]
      /\ known' \in [Things -> Hosting!Row] /\ known'[s] = said /\ \A t \in Things \ {s} : known'[t] = known[t]
  BY PortfolioTypes
<1>4. DetailsKept'
  <2> SUFFICES ASSUME ~tangled
               PROVE  /\ \A b, d \in Actors : b # d => sync'[b].at = "idle" \/ sync'[d].at = "idle"
                      /\ \A t \in Things :
                            /\ row'[t].website = known'[t].website /\ row'[t].installation = known'[t].installation
                            /\ row'[t].availability = "available" => row'[t] = known'[t]
                      /\ \A d \in Actors : sync'[d].at = "unavailable" => \A t \in sync'[d].sites : sync'[d].copy = row'[t]
    BY DEF DetailsKept
  <2>1. /\ \A b, d \in Actors : b # d => sync[b].at = "idle" \/ sync[d].at = "idle"
        /\ \A t \in Things :
              /\ row[t].website = known[t].website /\ row[t].installation = known[t].installation
              /\ row[t].availability = "available" => row[t] = known[t]
    BY DEF PortfolioInv, DetailsKept
  <2>2. \A b, d \in Actors : b # d => sync'[b].at = "idle" \/ sync'[d].at = "idle"
    BY <1>1, <2>1
  <2>3. \A t \in Things :
           /\ row'[t].website = known'[t].website /\ row'[t].installation = known'[t].installation
           /\ row'[t].availability = "available" => row'[t] = known'[t]
    BY <1>3, <2>1
  <2>4. \A d \in Actors : sync'[d].at # "unavailable"
    BY <1>1, <2>1
  <2> QED
    BY <2>2, <2>3, <2>4
<1> QED
  BY <1>1, <1>2, <1>3, <1>4, PortfolioTypes DEF PortfolioInv

LEMMA SaveSiteKeepsPortfolio ==
    ASSUME PortfolioInv, NEW c \in Actors, Hosting!SaveSite(c)
    PROVE  PortfolioInv'
<1>1. PICK old : old = sync[c]
  OBVIOUS
<1>2. old \in Hosting!Sync /\ PagesListed(old) /\ old.at = "save"
  BY <1>1, PortfolioTypes DEF Hosting!SaveSite
<1>3. PICK s \in old.todo :
         LET saved_ == [availability |-> IF Hosting!Available(c, s) THEN "available" ELSE "not-found",
                        website |-> s \in old.listed, installation |-> s \in old.installed,
                        lastSyncedAt |-> old.number]
         IN  /\ row' = [row EXCEPT ![s] = saved_]
             /\ known' = [known EXCEPT ![s] = saved_]
             /\ missed' = IF saved_.availability = "not-found" /\ s \in old.steady /\ ~old.shifted
                          THEN missed \cup {s} ELSE missed
             /\ sync' = [sync EXCEPT ![c] =
                            IF old.todo = {s} THEN Hosting!Saved(c) ELSE [old EXCEPT !.todo = old.todo \ {s}]]
  BY <1>1 DEF Hosting!SaveSite, Hosting!Goto
<1>4. PICK saved_ : saved_ = [availability |-> IF Hosting!Available(c, s) THEN "available" ELSE "not-found",
                              website |-> s \in old.listed, installation |-> s \in old.installed,
                              lastSyncedAt |-> old.number]
  OBVIOUS
<1>5. s \in Things /\ old.number \in 0 .. MaxSyncs /\ old.sites \subseteq Things /\ old.todo \subseteq Things
  BY <1>2, PortfolioFacts
<1>6. saved_ \in Hosting!Row /\ (saved_.availability = "not-found" => s \notin old.listed)
  BY <1>1, <1>4, <1>5 DEF Hosting!Row, Hosting!Available
<1>7. saved_.availability = "not-found" /\ s \in old.steady => old.shifted
  BY <1>2, <1>6 DEF PagesListed
<1>8. row' = [row EXCEPT ![s] = saved_] /\ known' = [known EXCEPT ![s] = saved_]
  BY <1>3, <1>4
<1>9. missed' = {}
  BY <1>3, <1>4, <1>7, PortfolioTypes
<1>10. PICK r : r = IF old.todo = {s} THEN Hosting!Saved(c) ELSE [old EXCEPT !.todo = old.todo \ {s}]
  OBVIOUS
<1>11. r \in Hosting!Sync /\ r.at = "save" /\ PagesListed(r)
  <2>1. CASE old.todo = {s}
    <3>1. r = [Hosting!IdleSync EXCEPT !.at = "save", !.number = old.number, !.sites = old.sites]
      BY <1>1, <1>10, <2>1 DEF Hosting!Saved
    <3>2. r \in Hosting!Sync /\ r.at = "save" /\ r.steady = {}
      BY <1>5, <3>1, PortfolioFacts DEF Hosting!Sync, Hosting!IdleSync
    <3> QED
      BY <3>2 DEF PagesListed
  <2>2. CASE old.todo # {s}
    <3>1. r = [old EXCEPT !.todo = old.todo \ {s}]
      BY <1>10, <2>2
    <3>2. /\ r \in Hosting!Sync /\ r.at = "save" /\ r.steady = old.steady /\ r.listed = old.listed
          /\ r.shifted = old.shifted
      BY <1>2, <1>5, <3>1 DEF Hosting!Sync
    <3> QED
      BY <1>2, <3>2 DEF PagesListed
  <2> QED
    BY <2>1, <2>2
<1>12. sync' = [sync EXCEPT ![c] = r]
  BY <1>3, <1>10
<1>13. UNCHANGED <<active, websites, installations, syncs, moves, tangled>>
  BY DEF Hosting!SaveSite
<1>14. sync[c].at # "idle" /\ r.at # "unavailable"
  BY <1>1, <1>2, <1>11
<1> QED
  BY <1>5, <1>6, <1>8, <1>9, <1>11, <1>12, <1>13, <1>14, SavingKeepsPortfolio

LEMMA MarkKeepsPortfolio ==
    ASSUME PortfolioInv, NEW c \in Actors, Hosting!SaveUnavailable(c)
    PROVE  PortfolioInv'
<1>1. PICK old : old = sync[c]
  OBVIOUS
<1>2. old \in Hosting!Sync /\ old.at = "unavailable"
  BY <1>1, PortfolioTypes DEF Hosting!SaveUnavailable
<1>3. PICK s \in old.sites : row' = [row EXCEPT ![s] = Hosting!Marked(c)]
  BY <1>1 DEF Hosting!SaveUnavailable
<1>4. PICK mark : mark = [old.copy EXCEPT !.availability = old.reason, !.lastSyncedAt = old.number]
  OBVIOUS
<1>5. s \in Things /\ old.copy \in Hosting!Row /\ old.number \in 0 .. MaxSyncs /\ old.todo \subseteq Things
      /\ old.reason \in {"not-configured", "provider-error"}
  BY <1>2, PortfolioFacts
<1>6. /\ mark \in Hosting!Row /\ mark.website = old.copy.website /\ mark.installation = old.copy.installation
      /\ mark.availability # "available"
  BY <1>4, <1>5 DEF Hosting!Row
<1>7. row' = [row EXCEPT ![s] = mark]
  BY <1>1, <1>3, <1>4 DEF Hosting!Marked
<1>8. PICK said \in Hosting!Row : said = known[s]
  BY <1>5, PortfolioTypes
<1>9. ~tangled => mark.website = said.website /\ mark.installation = said.installation
  BY <1>1, <1>2, <1>5, <1>6, <1>8 DEF PortfolioInv, DetailsKept
<1>10. known' = [known EXCEPT ![s] = said] /\ missed' = {}
  BY <1>5, <1>8, PortfolioTypes DEF Hosting!SaveUnavailable
<1>11. PICK r : r = IF old.todo = {} THEN Hosting!IdleSync
                    ELSE [old EXCEPT !.at = "read", !.sites = {}, !.copy = Hosting!NotSynchronized]
  OBVIOUS
<1>12. r \in Hosting!Sync /\ r.at \in {"idle", "read"}
  BY <1>2, <1>11, PortfolioFacts DEF Hosting!Sync
<1>13. PagesListed(r) /\ sync[c].at # "idle" /\ r.at # "unavailable"
  BY <1>1, <1>2, <1>12 DEF PagesListed
<1>14. sync' = [sync EXCEPT ![c] = r]
  BY <1>1, <1>11 DEF Hosting!SaveUnavailable, Hosting!Goto
<1>15. UNCHANGED <<active, websites, installations, syncs, moves, tangled>>
  BY DEF Hosting!SaveUnavailable
<1> QED
  BY <1>5, <1>6, <1>7, <1>8, <1>9, <1>10, <1>12, <1>13, <1>14, <1>15, SavingKeepsPortfolio

\* Whatever moves at the provider, a synchronization that reads pages has noted it.
LEMMA MoveKeepsPortfolio ==
    ASSUME PortfolioInv, Hosting!MoveWebsite
    PROVE  PortfolioInv'
<1>1. PICK s \in Things :
         /\ \/ s \notin Hosting!Listing /\ websites' = Append(websites, s)
            \/ \E i \in DOMAIN websites :
                  websites' = SubSeq(websites, 1, i - 1) \o SubSeq(websites, i + 1, Len(websites))
         /\ sync' = [c \in Actors |-> IF sync[c].at = "websites"
                                      THEN [sync[c] EXCEPT !.steady = sync[c].steady \ {s}, !.shifted = TRUE]
                                      ELSE sync[c]]
         /\ installations' \in {installations, installations \cup {s}, installations \ {s}}
  BY DEF Hosting!MoveWebsite
<1>2. moves < MaxMoves /\ moves' = moves + 1 /\ UNCHANGED <<active, row, syncs, known, missed, tangled>>
  BY DEF Hosting!MoveWebsite
<1>3. websites' \in Seq(Things)
  <2>1. ASSUME NEW i \in DOMAIN websites
        PROVE  SubSeq(websites, 1, i - 1) \o SubSeq(websites, i + 1, Len(websites)) \in Seq(Things)
    <3>1. i \in 1 .. Len(websites) /\ Len(websites) \in Nat
      BY PortfolioTypes
    <3>2. SubSeq(websites, 1, i - 1) \in Seq(Things)
      <4>1. \A j \in 1 .. i - 1 : websites[j] \in Things
        BY <3>1, PortfolioTypes
      <4> QED
        BY <3>1, <4>1, PortfolioTypes, SubSeqProperties
    <3>3. SubSeq(websites, i + 1, Len(websites)) \in Seq(Things)
      <4>1. \A j \in i + 1 .. Len(websites) : websites[j] \in Things
        BY <3>1, PortfolioTypes
      <4> QED
        BY <3>1, <4>1, PortfolioTypes, SubSeqProperties
    <3> QED
      BY <3>2, <3>3, ConcatProperties
  <2>2. Append(websites, s) \in Seq(Things)
    BY PortfolioTypes
  <2> QED
    BY <1>1, <2>1, <2>2
<1>4. installations' \subseteq Things
  BY <1>1, PortfolioTypes
<1>5. moves' \in 0 .. MaxMoves
  BY <1>2, PortfolioTypes, PortfolioFacts
<1>6. ASSUME NEW c \in Actors
      PROVE  /\ sync'[c] \in Hosting!Sync /\ PagesListed(sync[c])'
             /\ sync'[c].at = sync[c].at /\ sync'[c].sites = sync[c].sites /\ sync'[c].copy = sync[c].copy
  <2>1. PICK old : old = sync[c]
    OBVIOUS
  <2>2. PICK r : r = sync'[c]
    OBVIOUS
  <2>3. old \in Hosting!Sync /\ PagesListed(old)
    BY <2>1, PortfolioTypes
  <2>4. CASE old.at = "websites"
    <3>1. r = [old EXCEPT !.steady = old.steady \ {s}, !.shifted = TRUE]
      BY <1>1, <2>1, <2>2, <2>4
    <3>2. /\ r \in Hosting!Sync /\ r.at = old.at /\ r.sites = old.sites /\ r.copy = old.copy
          /\ r.shifted = TRUE /\ r.page = old.page
      BY <2>3, <3>1 DEF Hosting!Sync
    <3>3. PagesListed(r)'
      BY <2>3, <2>4, <3>2 DEF PagesListed
    <3> QED
      BY <2>1, <2>2, <3>2, <3>3 DEF PagesListed, Hosting!Listing
  <2>5. CASE old.at # "websites"
    <3>1. r = old
      BY <1>1, <2>1, <2>2, <2>5
    <3>2. PagesListed(r)'
      BY <2>3, <2>5, <3>1 DEF PagesListed
    <3> QED
      BY <2>1, <2>2, <2>3, <3>1, <3>2 DEF PagesListed, Hosting!Listing
  <2> QED
    BY <2>4, <2>5
<1>7. sync' \in [Actors -> Hosting!Sync]
  BY <1>1, <1>6
<1>8. DetailsKept'
  BY <1>2, <1>6 DEF PortfolioInv, DetailsKept
<1> QED
  BY <1>2, <1>3, <1>4, <1>5, <1>6, <1>7, <1>8 DEF PortfolioInv

LEMMA PauseKeepsPortfolio ==
    ASSUME PortfolioInv, Hosting!PauseOrResume
    PROVE  PortfolioInv'
<1>1. /\ active' \subseteq Things /\ moves' \in 0 .. MaxMoves
      /\ UNCHANGED <<websites, installations, row, sync, syncs, known, missed, tangled>>
  BY PortfolioTypes, PortfolioFacts DEF Hosting!PauseOrResume
<1>2. \A c \in Actors : PagesListed(sync[c])'
  BY <1>1, PortfolioTypes DEF PagesListed, Hosting!Listing
<1> QED
  BY <1>1, <1>2 DEF PortfolioInv, DetailsKept

LEMMA PortfolioFollows == PortfolioInv => Hosting!PortfolioSound
<1> SUFFICES ASSUME PortfolioInv PROVE Hosting!PortfolioSound
  OBVIOUS
<1>1. Hosting!PortfolioTypeOK
  <2>1. Hosting!Listing \subseteq Things
    BY PortfolioTypes DEF Hosting!Listing
  <2>2. \A c \in Actors : sync[c].todo \subseteq Things /\ sync[c].copy \in Hosting!Row
    BY PortfolioTypes, PortfolioFacts
  <2> QED
    BY <2>1, <2>2, PortfolioTypes DEF Hosting!PortfolioTypeOK
<1>2. Hosting!NotFoundIsTrue
  BY PortfolioTypes DEF Hosting!NotFoundIsTrue
<1>3. Hosting!FailureKeepsDetails
  BY DEF PortfolioInv, DetailsKept, Hosting!FailureKeepsDetails
<1> QED
  BY <1>1, <1>2, <1>3 DEF Hosting!PortfolioSound

LEMMA PortfolioStarts == Hosting!Init => PortfolioInv
<1> SUFFICES ASSUME Hosting!Init PROVE PortfolioInv
  OBVIOUS
<1>1. websites \in Seq(Things)
  <2>1. PICK some \in SUBSET Things : websites \in [1 .. Cardinality(some) -> some]
    BY DEF Hosting!Init, Hosting!Orders, Cardinality, Hosting!Cardinality
  <2>2. Cardinality(some) \in Nat
    BY PortfolioFacts, FS_Subset, FS_CardinalityType
  <2> QED
    BY <2>1, <2>2
<1>2. /\ row \in [Things -> Hosting!Row] /\ known \in [Things -> Hosting!Row]
      /\ \A s \in Things : row[s].availability = "not-synchronized"
  BY PortfolioFacts DEF Hosting!Init, Hosting!NotSynchronized
<1>3. sync \in [Actors -> Hosting!Sync] /\ \A c \in Actors : sync[c].at = "idle"
  BY PortfolioFacts DEF Hosting!Init
<1>4. syncs \in 0 .. MaxSyncs /\ moves \in 0 .. MaxMoves
  BY PortfolioFacts DEF Hosting!Init
<1>5. \A c \in Actors : PagesListed(sync[c])
  BY <1>3 DEF PagesListed
<1>6. DetailsKept
  BY <1>2, <1>3 DEF Hosting!Init, DetailsKept
<1>7. tangled \in BOOLEAN
  BY DEF Hosting!Init
<1> QED
  BY <1>1, <1>2, <1>3, <1>4, <1>5, <1>6, <1>7 DEF Hosting!Init, PortfolioInv

PortfoliosInv == part = "hosting" => PortfolioInv

LEMMA PortfoliosKept == (Init => PortfoliosInv) /\ (PortfoliosInv /\ [Next]_vars => PortfoliosInv')
<1>1. Init => PortfoliosInv
  BY PortfolioStarts DEF Init, PortfoliosInv
<1>2. ASSUME PortfoliosInv, [Next]_vars PROVE PortfoliosInv'
  <2>1. part' = part
    BY <1>2 DEF Next, vars
  <2>2. SUFFICES ASSUME part = "hosting", PortfolioInv PROVE PortfolioInv'
    BY <1>2, <2>1 DEF PortfoliosInv
  <2>3. CASE Hosting!Next
    BY <2>2, <2>3, SynchronizeKeepsPortfolio, FetchPageKeepsPortfolio, UnavailableKeepsPortfolio,
       InstallationsKeepPortfolio, EndingKeepsPortfolio, ReadExistingKeepsPortfolio, SaveSiteKeepsPortfolio,
       MarkKeepsPortfolio, MoveKeepsPortfolio, PauseKeepsPortfolio DEF Hosting!Next
  <2>4. CASE UNCHANGED hosting
    <3>1. UNCHANGED <<active, websites, installations, row, sync, syncs, moves, known, missed, tangled>>
      BY <2>4 DEF hosting
    <3> QED
      BY <2>2, <3>1 DEF PortfolioInv, PagesListed, DetailsKept, Hosting!Listing
  <2> QED
    BY <1>2, <2>2, <2>3, <2>4 DEF Next, vars
<1> QED
  BY <1>1, <1>2

\* For any clients, sites and requests, and any listing: a site is not found only if the
\* listing did not show it, a failure hides nothing that was known, a client keeps the status
\* decided for it, a disabled site stays so and a folder belongs to one client, but for the
\* overlaps that are recorded (HostingerPortfolioService, SiteService, resolveClientFolder).
THEOREM SitesAreSound == Spec => []SitesSound
<1>1. PortfoliosInv /\ RegistersInv => SitesSound
  BY PortfolioFollows, RegistryFollows DEF PortfoliosInv, RegistersInv, SitesSound
<1> QED
  BY <1>1, PortfoliosKept, RegistersKept, PTL DEF Spec

LEMMA LeastNatural ==
    ASSUME NEW S \in SUBSET Nat, S # {}
    PROVE  \E n \in S : \A m \in S : n <= m
<1>1. PICK R : R = {ss \in Nat \X Nat : ss[1] < ss[2]}
  OBVIOUS
<1>2. IsWellFoundedOn(R, Nat)
  BY <1>1, NatLessThanWellFounded DEF OpToRel
<1>3. PICK n \in S : \A m \in S : ~ (<<m, n>> \in R)
  BY <1>2, WFMin
<1>4. ASSUME NEW m \in S PROVE n <= m
  <2>1. m \in Nat /\ n \in Nat /\ ~ (<<m, n>> \in R)
    BY <1>3
  <2>2. <<m, n>> \in Nat \X Nat /\ <<m, n>>[1] = m /\ <<m, n>>[2] = n
    BY <2>1
  <2>3. ~ (m < n)
    BY <1>1, <2>1, <2>2
  <2> QED
    BY <2>1, <2>3
<1> QED
  BY <1>4

--------------------------------------------------------------------------------
(* Inventory.  The offers of WordPress change with the time they are fetched, *)
(* so reports in the order they were collected are in the order of            *)
(* checked_at, and those of one moment say the same.  What a refresh waits    *)
(* for was collected after it was asked for, as was all that is newer.  While *)
(* no report overtakes another, the newest one received is the newest one     *)
(* collected, and it is the one whose health was recorded last.               *)

Snapshots(places) == {report[r].of : r \in {q \in Actors : report[q].at \in places}}

Reported == snapshots \cup Snapshots({"sent", "received", "healthy", "recorded"})

Arrived == snapshots \cup Snapshots({"received", "healthy"})

Stored == snapshots \cup Snapshots({"healthy"})

CheckIn ==
    [at : {"idle", "sent", "received", "healthy", "recorded"}, of : Inventory!Snapshot, awaited : BOOLEAN]

InventoryTypes ==
    /\ installed \in 1 .. released /\ released \in Inventory!Versions /\ now \in 0 .. MaxSiteClock
    /\ cache \in [offer : Inventory!Versions, checked : 0 .. MaxSiteClock, of : Inventory!Versions]
    /\ report \in [Actors -> CheckIn]
    /\ collected \in 0 .. MaxReports /\ received \in Nat
    /\ snapshots \subseteq Inventory!Snapshot /\ health \in Inventory!Health
    /\ refresh \in [at : {"idle", "requested", "reporting", "verifying"}, requestedAt : Nat,
                    since : SUBSET Inventory!Versions]
    /\ torn \in BOOLEAN /\ reordered \in BOOLEAN

\* What a report says that is collected without asking WordPress again.
Offered == [installed |-> cache.of, available |-> IF cache.offer > cache.of THEN cache.offer ELSE 0]

InOrder ==
    /\ cache.checked <= now /\ (cache.of # installed => cache.checked < now)
    /\ \A x \in Reported : /\ x.collected <= collected /\ x.checkedAt <= cache.checked
                           /\ x.checkedAt = cache.checked => x.content = Offered
    /\ \A x, y \in Reported : /\ x.collected <= y.collected => x.checkedAt <= y.checkedAt
                              /\ x.checkedAt = y.checkedAt => x.content = y.content

\* A time of receipt is that of one report.
ReceivedApart ==
    /\ \A x \in Arrived : x.receivedAt \in 1 .. received
    /\ \A s, t \in snapshots : s.receivedAt = t.receivedAt => s = t
    /\ \A r \in Actors : report[r].at \in {"received", "healthy"} =>
          /\ \A s \in snapshots : s.receivedAt # report[r].of.receivedAt
          /\ \A q \in Actors \ {r} : report[q].at \in {"received", "healthy"} =>
                report[q].of.receivedAt # report[r].of.receivedAt
    /\ \A r \in Actors : report[r].at = "recorded" => report[r].of \in snapshots

\* Whatever was collected since a snapshot shows a version the site had since the request.
SaysSince(s) == \A x \in Reported : x.collected >= s.collected => x.content.installed \in refresh.since

RefreshKnows ==
    /\ refresh.at # "idle" => installed \in refresh.since
    /\ \A r \in Actors : report[r].awaited =>
          /\ report[r].at # "idle" /\ refresh.at = "reporting" /\ SaysSince(report[r].of)
          /\ \A q \in Actors \ {r} : ~report[q].awaited
    /\ refresh.at = "verifying" => \E s \in snapshots : SaysSince(s)

HealthFollows ==
    ~torn /\ ~reordered =>
        /\ \A x, y \in Arrived : x.receivedAt < y.receivedAt => x.collected <= y.collected
        /\ \A x \in Stored : x.receivedAt <= health.createdAt
        /\ \/ Stored = {} /\ health.createdAt = 0 /\ ~health.pending
           \/ \E h \in Stored : /\ h.receivedAt = health.createdAt
                                /\ health.pending = Inventory!Pending(h.content)

NeverOutdated == outdated = FALSE

InventoryInv == InventoryTypes /\ InOrder /\ ReceivedApart /\ RefreshKnows /\ HealthFollows /\ NeverOutdated

\* A report is marked with the time of its receipt, and says what it said.
Alike(x, y) == x.content = y.content /\ x.checkedAt = y.checkedAt /\ x.collected = y.collected

LEMMA InventoryFacts ==
    /\ LastVersion \in Nat \ {0} /\ Throttle \in Nat \ {0} /\ MaxSiteClock \in Nat /\ MaxReports \in Nat
    /\ Inventory!Versions \subseteq Nat
    /\ Inventory!NoSnapshot \in Inventory!Snapshot
    /\ Inventory!IdleReport \in CheckIn /\ Inventory!IdleReport.at = "idle" /\ Inventory!IdleReport.awaited = FALSE
    /\ \A x \in Inventory!Snapshot :
          /\ x.content \in Inventory!Content /\ x.content.installed \in Inventory!Versions
          /\ x.checkedAt \in 0 .. MaxSiteClock /\ x.receivedAt \in Nat /\ x.collected \in 0 .. MaxReports
    /\ \A c \in CheckIn : /\ c.at \in {"idle", "sent", "received", "healthy", "recorded"}
                          /\ c.of \in Inventory!Snapshot /\ c.awaited \in BOOLEAN
<1>1. /\ LastVersion \in Nat \ {0} /\ Throttle \in Nat \ {0} /\ MaxSiteClock \in Nat /\ MaxReports \in Nat
  BY SiteAssumption DEF Inventory!InventoryAssumption
<1>2. Inventory!Versions \subseteq Nat
  BY <1>1 DEF Inventory!Versions
<1>3. Inventory!NoSnapshot \in Inventory!Snapshot
  BY <1>1 DEF Inventory!NoSnapshot, Inventory!Snapshot, Inventory!Content, Inventory!Versions
<1>4. /\ Inventory!IdleReport \in CheckIn /\ Inventory!IdleReport.at = "idle"
      /\ Inventory!IdleReport.awaited = FALSE
  BY <1>3 DEF Inventory!IdleReport, CheckIn
<1>5. \A x \in Inventory!Snapshot :
         /\ x.content \in Inventory!Content /\ x.content.installed \in Inventory!Versions
         /\ x.checkedAt \in 0 .. MaxSiteClock /\ x.receivedAt \in Nat /\ x.collected \in 0 .. MaxReports
  BY DEF Inventory!Snapshot, Inventory!Content
<1> QED
  BY <1>1, <1>2, <1>3, <1>4, <1>5 DEF CheckIn

\* The reports there are, those that arrived and those whose health is recorded.
LEMMA ReportsThereAre ==
    /\ \A x : x \in Reported <=>
          x \in snapshots \/ \E r \in Actors : /\ report[r].at \in {"sent", "received", "healthy", "recorded"}
                                               /\ x = report[r].of
    /\ \A x : x \in Arrived <=>
          x \in snapshots \/ \E r \in Actors : report[r].at \in {"received", "healthy"} /\ x = report[r].of
    /\ \A x : x \in Stored <=>
          x \in snapshots \/ \E r \in Actors : report[r].at = "healthy" /\ x = report[r].of
<1>1. /\ \A x : x \in Snapshots({"sent", "received", "healthy", "recorded"}) <=>
            \E r \in Actors : report[r].at \in {"sent", "received", "healthy", "recorded"} /\ x = report[r].of
      /\ \A x : x \in Snapshots({"received", "healthy"}) <=>
            \E r \in Actors : report[r].at \in {"received", "healthy"} /\ x = report[r].of
      /\ \A x : x \in Snapshots({"healthy"}) <=>
            \E r \in Actors : report[r].at = "healthy" /\ x = report[r].of
  BY DEF Snapshots
<1> QED
  BY <1>1 DEF Reported, Arrived, Stored

LEMMA ReportsThereWillBe ==
    /\ \A x : x \in Reported' <=>
          x \in snapshots' \/ \E r \in Actors : /\ report'[r].at \in {"sent", "received", "healthy", "recorded"}
                                                /\ x = report'[r].of
    /\ \A x : x \in Arrived' <=>
          x \in snapshots' \/ \E r \in Actors : report'[r].at \in {"received", "healthy"} /\ x = report'[r].of
    /\ \A x : x \in Stored' <=>
          x \in snapshots' \/ \E r \in Actors : report'[r].at = "healthy" /\ x = report'[r].of
<1>1. /\ \A x : x \in Snapshots({"sent", "received", "healthy", "recorded"})' <=>
            \E r \in Actors : report'[r].at \in {"sent", "received", "healthy", "recorded"} /\ x = report'[r].of
      /\ \A x : x \in Snapshots({"received", "healthy"})' <=>
            \E r \in Actors : report'[r].at \in {"received", "healthy"} /\ x = report'[r].of
      /\ \A x : x \in Snapshots({"healthy"})' <=>
            \E r \in Actors : report'[r].at = "healthy" /\ x = report'[r].of
  BY DEF Snapshots
<1> QED
  BY <1>1 DEF Reported, Arrived, Stored

LEMMA InventoryTyped ==
    ASSUME InventoryInv
    PROVE  /\ installed \in Nat /\ released \in Nat /\ now \in Nat /\ collected \in Nat /\ received \in Nat
           /\ installed \in Inventory!Versions
           /\ cache.checked \in Nat /\ cache.offer \in Nat /\ cache.of \in Inventory!Versions
           /\ report \in [Actors -> CheckIn] /\ snapshots \subseteq Inventory!Snapshot
           /\ Reported \subseteq Inventory!Snapshot
           /\ Stored \subseteq Arrived /\ Arrived \subseteq Reported
           /\ health.createdAt \in Nat /\ health.pending \in BOOLEAN
           /\ \A x \in Reported : x.collected \in Nat /\ x.checkedAt \in Nat /\ x.receivedAt \in Nat
<1>1. /\ installed \in Nat /\ released \in Nat /\ now \in Nat /\ collected \in Nat /\ received \in Nat
      /\ installed \in Inventory!Versions
      /\ cache.checked \in Nat /\ cache.offer \in Nat /\ cache.of \in Inventory!Versions
  BY InventoryFacts DEF InventoryInv, InventoryTypes, Inventory!Versions
<1>2. report \in [Actors -> CheckIn] /\ snapshots \subseteq Inventory!Snapshot
  BY DEF InventoryInv, InventoryTypes
<1>3. Reported \subseteq Inventory!Snapshot
  BY <1>2, ReportsThereAre, InventoryFacts
<1>4. Stored \subseteq Arrived /\ Arrived \subseteq Reported
  BY ReportsThereAre
<1>5. health.createdAt \in Nat /\ health.pending \in BOOLEAN
  BY DEF InventoryInv, InventoryTypes, Inventory!Health
<1>6. \A x \in Reported : x.collected \in Nat /\ x.checkedAt \in Nat /\ x.receivedAt \in Nat
  BY <1>3, InventoryFacts
<1> QED
  BY <1>1, <1>2, <1>3, <1>4, <1>5, <1>6

\* What was said in order stays in order while every report is one that was there.
LEMMA OrderStays ==
    ASSUME InventoryInv, \A x \in Reported' : \E y \in Reported : Alike(x, y),
           UNCHANGED <<installed, cache, now, collected>>
    PROVE  InOrder'
<1>1. Offered' = Offered
  BY DEF Offered
<1>2. ASSUME NEW x \in Reported'
      PROVE  /\ x.collected <= collected /\ x.checkedAt <= cache.checked
             /\ x.checkedAt = cache.checked => x.content = Offered
  BY <1>2 DEF Alike, InventoryInv, InOrder
<1>3. ASSUME NEW x \in Reported', NEW y \in Reported'
      PROVE  /\ x.collected <= y.collected => x.checkedAt <= y.checkedAt
             /\ x.checkedAt = y.checkedAt => x.content = y.content
  <2>1. PICK xx \in Reported : Alike(x, xx)
    OBVIOUS
  <2>2. PICK yy \in Reported : Alike(y, yy)
    OBVIOUS
  <2> QED
    BY <2>1, <2>2 DEF Alike, InventoryInv, InOrder
<1> QED
  BY <1>1, <1>2, <1>3 DEF InventoryInv, InOrder

\* What a refresh may rely on stays while every report is one that was there.
LEMMA SaysStill ==
    ASSUME NEW s, NEW t, s.collected = t.collected, SaysSince(s),
           \A x \in Reported' : \E y \in Reported : Alike(x, y), refresh.since \subseteq refresh'.since
    PROVE  SaysSince(t)'
<1>1. ASSUME NEW x \in Reported', x.collected >= t.collected PROVE x.content.installed \in refresh'.since
  <2>1. PICK y \in Reported : Alike(x, y)
    OBVIOUS
  <2> QED
    BY <1>1, <2>1 DEF Alike, SaysSince
<1> QED
  BY <1>1 DEF SaysSince

\* A check-in goes on or is over.
LEMMA CheckInGoesOn ==
    ASSUME InventoryInv, NEW r \in Actors, NEW q \in CheckIn, report' = [report EXCEPT ![r] = q],
           q.at = "idle" \/ (report[r].at # "idle" /\ Alike(q.of, report[r].of)),
           \A s \in snapshots' : s \in snapshots \/ (report[r].at # "idle" /\ s = report[r].of)
    PROVE  /\ report' \in [Actors -> CheckIn] /\ report'[r] = q
           /\ \A d \in Actors \ {r} : report'[d] = report[d]
           /\ \A x \in Reported' : \E y \in Reported : Alike(x, y)
<1>1. /\ report' \in [Actors -> CheckIn] /\ report'[r] = q
      /\ \A d \in Actors \ {r} : report'[d] = report[d]
  BY InventoryTyped
<1>2. ASSUME NEW x \in Reported' PROVE \E y \in Reported : Alike(x, y)
  <2>1. report[r].at # "idle" => report[r].of \in Reported
    BY ReportsThereAre, InventoryTyped, InventoryFacts
  <2>2. CASE x \in snapshots'
    BY <2>1, <2>2, ReportsThereAre DEF Alike
  <2>3. CASE \E d \in Actors : report'[d].at \in {"sent", "received", "healthy", "recorded"} /\ x = report'[d].of
    <3>1. PICK d \in Actors : report'[d].at \in {"sent", "received", "healthy", "recorded"} /\ x = report'[d].of
      BY <2>3
    <3>2. CASE d = r
      BY <1>1, <2>1, <3>1, <3>2
    <3>3. CASE d # r
      <4>1. x \in Reported
        BY <1>1, <3>1, <3>3, ReportsThereAre
      <4> QED
        BY <4>1 DEF Alike
    <3> QED
      BY <3>2, <3>3
  <2> QED
    BY <2>2, <2>3, ReportsThereWillBe
<1> QED
  BY <1>1, <1>2

\* The refresh knows what it knew, while the report it waits for is the same.
LEMMA RefreshStays ==
    ASSUME InventoryInv, \A x \in Reported' : \E y \in Reported : Alike(x, y),
           UNCHANGED <<installed, refresh>>, snapshots \subseteq snapshots',
           \A d \in Actors : report'[d].awaited =>
              /\ report[d].awaited /\ report'[d].at # "idle" /\ report'[d].of.collected = report[d].of.collected
    PROVE  RefreshKnows'
<1>1. \A s, t : s.collected = t.collected /\ SaysSince(s) => SaysSince(t)'
  BY SaysStill
<1>2. ASSUME NEW d \in Actors, report'[d].awaited
      PROVE  /\ report'[d].at # "idle" /\ refresh'.at = "reporting" /\ SaysSince(report[d].of)'
             /\ \A e \in Actors \ {d} : ~report'[e].awaited
  <2>1. /\ refresh.at = "reporting" /\ SaysSince(report[d].of)
        /\ \A e \in Actors \ {d} : ~report[e].awaited
    BY <1>2 DEF InventoryInv, RefreshKnows
  <2>2. PICK s, t : s = report[d].of /\ t = report'[d].of
    OBVIOUS
  <2>3. SaysSince(t)'
    BY <1>1, <1>2, <2>1, <2>2
  <2> QED
    BY <1>2, <2>1, <2>2, <2>3 DEF SaysSince
<1>3. refresh'.at = "verifying" => \E s \in snapshots' : SaysSince(s)'
  BY <1>1 DEF InventoryInv, RefreshKnows
<1> QED
  BY <1>2, <1>3 DEF InventoryInv, RefreshKnows

LEMMA CreateCheckInKeepsInventory ==
    ASSUME InventoryInv, NEW r \in Actors, Inventory!CreateCheckIn(r)
    PROVE  InventoryInv'
<1>1. PICK q : q = [report[r] EXCEPT !.at = "received", !.of.receivedAt = received + 1]
  OBVIOUS
<1>2. /\ q \in CheckIn /\ q.at = "received" /\ q.awaited = report[r].awaited
      /\ Alike(q.of, report[r].of) /\ q.of.receivedAt = received + 1
  <2>1. PICK o : o = [report[r].of EXCEPT !.receivedAt = received + 1]
    OBVIOUS
  <2>2. report[r] \in CheckIn /\ report[r].of \in Inventory!Snapshot /\ received + 1 \in Nat
    BY InventoryTyped, InventoryFacts
  <2>3. o \in Inventory!Snapshot /\ Alike(o, report[r].of) /\ o.receivedAt = received + 1
    BY <2>1, <2>2 DEF Alike, Inventory!Snapshot
  <2>4. q = [report[r] EXCEPT !.at = "received", !.of = o]
    BY <1>1, <2>1, <2>2 DEF CheckIn
  <2> QED
    BY <2>2, <2>3, <2>4 DEF CheckIn
<1>3. /\ report' = [report EXCEPT ![r] = q] /\ report[r].at = "sent" /\ received' = received + 1
      /\ UNCHANGED <<installed, released, cache, now, collected, snapshots, health, refresh, torn, outdated>>
      /\ reordered' = (reordered \/ \/ \E s \in snapshots : s.collected > report[r].of.collected
                                    \/ \E d \in Actors : /\ report[d].at \in {"received", "healthy"}
                                                         /\ report[d].of.collected > report[r].of.collected)
  BY <1>1 DEF Inventory!CreateCheckIn, Inventory!Goto
<1>4. /\ report' \in [Actors -> CheckIn] /\ report'[r] = q
      /\ \A d \in Actors \ {r} : report'[d] = report[d]
      /\ \A x \in Reported' : \E y \in Reported : Alike(x, y)
  <2>1. q.at = "idle" \/ (report[r].at # "idle" /\ Alike(q.of, report[r].of))
    BY <1>2, <1>3
  <2>2. \A s \in snapshots' : s \in snapshots \/ (report[r].at # "idle" /\ s = report[r].of)
    <3>1. snapshots' = snapshots
      BY <1>3
    <3> QED
      BY <3>1
  <2>3. report' = [report EXCEPT ![r] = q]
    BY <1>3
  <2> QED
    BY <1>2, <2>1, <2>2, <2>3, CheckInGoesOn
<1>5. InventoryTypes'
  BY <1>3, <1>4, InventoryTyped DEF InventoryInv, InventoryTypes
<1>6. InOrder'
  BY <1>3, <1>4, OrderStays
<1>7. \A x \in Arrived' : x \in Arrived \/ x = q.of
  BY <1>2, <1>3, <1>4, ReportsThereAre, ReportsThereWillBe
<1>8. ReceivedApart'
  <2>1. \A x \in Arrived' : x.receivedAt \in 1 .. received'
    BY <1>2, <1>3, <1>7, InventoryTyped DEF InventoryInv, ReceivedApart
  <2>2. \A d \in Actors \ {r} : report[d].at \in {"received", "healthy"} => report[d].of \in Arrived
    BY ReportsThereAre
  <2>3. snapshots \subseteq Arrived
    BY ReportsThereAre
  <2>4. \A x \in Arrived : x.receivedAt # received + 1
    BY InventoryTyped DEF InventoryInv, ReceivedApart
  <2> QED
    BY <1>2, <1>3, <1>4, <2>1, <2>2, <2>3, <2>4 DEF InventoryInv, ReceivedApart
<1>9. RefreshKnows'
  <2>1. \A d \in Actors : report'[d].awaited =>
           /\ report[d].awaited /\ report'[d].at # "idle" /\ report'[d].of.collected = report[d].of.collected
    BY <1>2, <1>3, <1>4 DEF Alike, InventoryInv, RefreshKnows
  <2>2. UNCHANGED <<installed, refresh>> /\ snapshots \subseteq snapshots'
    BY <1>3
  <2> QED
    BY <1>4, <2>1, <2>2, RefreshStays
<1>10. HealthFollows'
  <2>1. SUFFICES ASSUME ~torn', ~reordered' PROVE HealthFollows'
    BY DEF HealthFollows
  <2>2. ~torn /\ ~reordered
    BY <1>3, <2>1 DEF InventoryInv, InventoryTypes
  <2>3. ASSUME NEW x \in Arrived PROVE x.collected <= q.of.collected
    <3>1. ~ (x.collected > report[r].of.collected)
      <4>1. /\ \A s \in snapshots : ~ (s.collected > report[r].of.collected)
            /\ \A d \in Actors : report[d].at \in {"received", "healthy"} =>
                  ~ (report[d].of.collected > report[r].of.collected)
        BY <1>3, <2>1, Zenon
      <4> QED
        BY <4>1, ReportsThereAre
    <3>2. report[r].of \in Reported /\ x \in Reported
      BY <1>3, ReportsThereAre, InventoryTyped
    <3>3. x.collected \in Nat /\ report[r].of.collected \in Nat
      BY <3>2, InventoryTyped
    <3> QED
      BY <1>2, <3>1, <3>3 DEF Alike
  <2>4. \A x \in Arrived : x.receivedAt < q.of.receivedAt
    BY <1>2, InventoryTyped DEF InventoryInv, ReceivedApart
  <2>5. \A x, y \in Arrived' : x.receivedAt < y.receivedAt => x.collected <= y.collected
    <3>1. \A x, y \in Arrived : x.receivedAt < y.receivedAt => x.collected <= y.collected
      BY <2>2 DEF InventoryInv, HealthFollows
    <3>2. \A x \in Arrived : x.receivedAt \in Nat /\ x.collected \in Nat
      BY InventoryTyped
    <3>3. q.of.receivedAt \in Nat /\ q.of.collected \in Nat
      BY <1>2, InventoryFacts
    <3> QED
      BY <1>7, <2>3, <2>4, <3>1, <3>2, <3>3
  <2>6. Stored' = Stored
    <3>1. \A x : x \in Stored' <=> x \in Stored
      BY <1>2, <1>3, <1>4, ReportsThereAre, ReportsThereWillBe
    <3> QED
      BY <3>1
  <2> QED
    BY <1>3, <2>2, <2>5, <2>6 DEF InventoryInv, HealthFollows
<1> QED
  BY <1>3, <1>5, <1>6, <1>8, <1>9, <1>10 DEF InventoryInv, NeverOutdated

LEMMA CreateHealthSnapshotKeepsInventory ==
    ASSUME InventoryInv, NEW r \in Actors, Inventory!CreateHealthSnapshot(r)
    PROVE  InventoryInv'
<1>1. PICK q : q = [report[r] EXCEPT !.at = "healthy"]
  OBVIOUS
<1>2. q \in CheckIn /\ q.at = "healthy" /\ q.awaited = report[r].awaited /\ q.of = report[r].of
  BY <1>1, InventoryTyped DEF CheckIn
<1>3. /\ report' = [report EXCEPT ![r] = q] /\ report[r].at = "received"
      /\ health' = IF report[r].of.receivedAt > health.createdAt
                   THEN [createdAt |-> report[r].of.receivedAt, pending |-> Inventory!Pending(report[r].of.content)]
                   ELSE health
      /\ UNCHANGED <<installed, released, cache, now, collected, received, snapshots, refresh,
                     torn, reordered, outdated>>
  BY <1>1 DEF Inventory!CreateHealthSnapshot, Inventory!Goto
<1>4. /\ report' \in [Actors -> CheckIn] /\ report'[r] = q
      /\ \A d \in Actors \ {r} : report'[d] = report[d]
      /\ \A x \in Reported' : \E y \in Reported : Alike(x, y)
  <2>1. q.at = "idle" \/ (report[r].at # "idle" /\ Alike(q.of, report[r].of))
    BY <1>2, <1>3 DEF Alike
  <2>2. \A s \in snapshots' : s \in snapshots \/ (report[r].at # "idle" /\ s = report[r].of)
    BY <1>3
  <2>3. report' = [report EXCEPT ![r] = q]
    BY <1>3
  <2> QED
    BY <1>2, <2>1, <2>2, <2>3, CheckInGoesOn
<1>5. report[r].of \in Arrived /\ report[r].of.receivedAt \in 1 .. received
  BY <1>3, ReportsThereAre DEF InventoryInv, ReceivedApart
<1>6. health' \in Inventory!Health
  BY <1>3, <1>5, InventoryTyped DEF Inventory!Health, Inventory!Pending, InventoryInv, InventoryTypes
<1>7. InventoryTypes'
  BY <1>3, <1>4, <1>6 DEF InventoryInv, InventoryTypes
<1>8. InOrder'
  BY <1>3, <1>4, OrderStays
<1>9. Arrived' = Arrived
  <2>1. \A x : x \in Arrived' <=> x \in Arrived
    BY <1>2, <1>3, <1>4, ReportsThereAre, ReportsThereWillBe
  <2> QED
    BY <2>1
<1>10. ReceivedApart'
  BY <1>2, <1>3, <1>4, <1>9 DEF InventoryInv, ReceivedApart
<1>11. RefreshKnows'
  <2>1. \A d \in Actors : report'[d].awaited =>
           /\ report[d].awaited /\ report'[d].at # "idle" /\ report'[d].of.collected = report[d].of.collected
    BY <1>2, <1>3, <1>4 DEF InventoryInv, RefreshKnows
  <2>2. UNCHANGED <<installed, refresh>> /\ snapshots \subseteq snapshots'
    BY <1>3
  <2> QED
    BY <1>4, <2>1, <2>2, RefreshStays
<1>12. HealthFollows'
  <2>1. SUFFICES ASSUME ~torn, ~reordered
                 PROVE  /\ \A x \in Stored' : x.receivedAt <= health'.createdAt
                        /\ \E h \in Stored' : /\ h.receivedAt = health'.createdAt
                                              /\ health'.pending = Inventory!Pending(h.content)
    BY <1>3, <1>9 DEF InventoryInv, HealthFollows
  <2>2. \A x : x \in Stored' <=> x \in Stored \/ x = report[r].of
    BY <1>2, <1>3, <1>4, ReportsThereAre, ReportsThereWillBe
  <2>3. \A x \in Stored : x.receivedAt <= health.createdAt /\ x.receivedAt \in Nat
    BY <2>1, InventoryTyped DEF InventoryInv, HealthFollows
  <2>4. CASE report[r].of.receivedAt > health.createdAt
    <3>1. /\ health'.createdAt = report[r].of.receivedAt
          /\ health'.pending = Inventory!Pending(report[r].of.content)
      BY <1>3, <2>4
    <3> QED
      BY <1>5, <2>2, <2>3, <2>4, <3>1, InventoryTyped
  <2>5. CASE ~ (report[r].of.receivedAt > health.createdAt)
    <3>1. health' = health /\ health.createdAt > 0 /\ report[r].of.receivedAt <= health.createdAt
      BY <1>3, <1>5, <2>5, InventoryTyped
    <3>2. \E h \in Stored : /\ h.receivedAt = health.createdAt
                            /\ health.pending = Inventory!Pending(h.content)
      BY <2>1, <3>1 DEF InventoryInv, HealthFollows
    <3> QED
      BY <2>2, <2>3, <3>1, <3>2
  <2> QED
    BY <2>4, <2>5
<1> QED
  BY <1>3, <1>7, <1>8, <1>10, <1>11, <1>12 DEF InventoryInv, NeverOutdated

LEMMA RecordUpdatesKeepsInventory ==
    ASSUME InventoryInv, NEW r \in Actors, Inventory!RecordUpdates(r)
    PROVE  InventoryInv'
<1>1. PICK q : q = [report[r] EXCEPT !.at = "recorded"]
  OBVIOUS
<1>2. q \in CheckIn /\ q.at = "recorded" /\ q.awaited = report[r].awaited /\ q.of = report[r].of
  BY <1>1, InventoryTyped DEF CheckIn
<1>3. /\ report' = [report EXCEPT ![r] = q] /\ report[r].at = "healthy"
      /\ snapshots' = snapshots \cup {report[r].of}
      /\ UNCHANGED <<installed, released, cache, now, collected, received, health, refresh,
                     torn, reordered, outdated>>
  BY <1>1 DEF Inventory!RecordUpdates, Inventory!Goto
<1>4. /\ report' \in [Actors -> CheckIn] /\ report'[r] = q
      /\ \A d \in Actors \ {r} : report'[d] = report[d]
      /\ \A x \in Reported' : \E y \in Reported : Alike(x, y)
  <2>1. q.at = "idle" \/ (report[r].at # "idle" /\ Alike(q.of, report[r].of))
    BY <1>2, <1>3 DEF Alike
  <2>2. \A s \in snapshots' : s \in snapshots \/ (report[r].at # "idle" /\ s = report[r].of)
    BY <1>3
  <2>3. report' = [report EXCEPT ![r] = q]
    BY <1>3
  <2> QED
    BY <1>2, <2>1, <2>2, <2>3, CheckInGoesOn
<1>5. snapshots' \subseteq Inventory!Snapshot
  BY <1>3, InventoryTyped, InventoryFacts
<1>6. InventoryTypes'
  BY <1>3, <1>4, <1>5 DEF InventoryInv, InventoryTypes
<1>7. InOrder'
  BY <1>3, <1>4, OrderStays
<1>8. Arrived' = Arrived
  <2>1. \A x : x \in Arrived' <=> x \in Arrived
    BY <1>2, <1>3, <1>4, ReportsThereAre, ReportsThereWillBe
  <2> QED
    BY <2>1
<1>9. Stored' = Stored
  <2>1. \A x : x \in Stored' <=> x \in Stored
    BY <1>2, <1>3, <1>4, ReportsThereAre, ReportsThereWillBe
  <2> QED
    BY <2>1
<1>10. ReceivedApart'
  BY <1>2, <1>3, <1>4, <1>8 DEF InventoryInv, ReceivedApart
<1>11. RefreshKnows'
  <2>1. \A d \in Actors : report'[d].awaited =>
           /\ report[d].awaited /\ report'[d].at # "idle" /\ report'[d].of.collected = report[d].of.collected
    BY <1>2, <1>3, <1>4 DEF InventoryInv, RefreshKnows
  <2>2. UNCHANGED <<installed, refresh>> /\ snapshots \subseteq snapshots'
    BY <1>3
  <2> QED
    BY <1>4, <2>1, <2>2, RefreshStays
<1>12. HealthFollows'
  BY <1>3, <1>8, <1>9 DEF InventoryInv, HealthFollows
<1> QED
  BY <1>3, <1>6, <1>7, <1>10, <1>11, <1>12 DEF InventoryInv, NeverOutdated

\* A check-in is over: answered, or it failed.
LEMMA EndingKeepsInventory ==
    ASSUME InventoryInv, NEW r \in Actors, report' = [report EXCEPT ![r] = Inventory!IdleReport],
           report[r].at # "idle",
           torn => torn', torn' \in BOOLEAN, ~torn' => report[r].at \in {"sent", "recorded"},
           UNCHANGED <<installed, released, cache, now, collected, received, snapshots, health,
                       reordered, outdated>>,
           \/ refresh' = refresh /\ ~report[r].awaited
           \/ refresh' = Inventory!IdleRefresh /\ report[r].awaited
           \/ /\ refresh' = [refresh EXCEPT !.at = "verifying"] /\ report[r].awaited
              /\ report[r].at = "recorded"
    PROVE  InventoryInv'
<1>1. PICK q : q = Inventory!IdleReport
  OBVIOUS
<1>2. q \in CheckIn /\ q.at = "idle" /\ q.awaited = FALSE
  BY <1>1, InventoryFacts
<1>3. /\ report' \in [Actors -> CheckIn] /\ report'[r] = q
      /\ \A d \in Actors \ {r} : report'[d] = report[d]
      /\ \A x \in Reported' : \E y \in Reported : Alike(x, y)
  <2>1. q.at = "idle" \/ (report[r].at # "idle" /\ Alike(q.of, report[r].of))
    BY <1>2
  <2>2. \A s \in snapshots' : s \in snapshots \/ (report[r].at # "idle" /\ s = report[r].of)
    OBVIOUS
  <2>3. report' = [report EXCEPT ![r] = q]
    BY <1>1
  <2> QED
    BY <1>2, <2>1, <2>2, <2>3, CheckInGoesOn
<1>4. refresh' \in [at : {"idle", "requested", "reporting", "verifying"}, requestedAt : Nat,
                    since : SUBSET Inventory!Versions]
  BY DEF Inventory!IdleRefresh, InventoryInv, InventoryTypes
<1>5. InventoryTypes'
  BY <1>3, <1>4 DEF InventoryInv, InventoryTypes
<1>6. InOrder'
  BY <1>3, OrderStays
<1>7. Arrived' \subseteq Arrived
  <2>1. \A x : x \in Arrived' => x \in Arrived
    BY <1>2, <1>3, ReportsThereAre, ReportsThereWillBe
  <2> QED
    BY <2>1
<1>8. ReceivedApart'
  BY <1>2, <1>3, <1>7 DEF InventoryInv, ReceivedApart
<1>9. RefreshKnows'
  <2>1. CASE refresh' = refresh /\ ~report[r].awaited
    <3>1. \A d \in Actors : report'[d].awaited =>
             /\ report[d].awaited /\ report'[d].at # "idle" /\ report'[d].of.collected = report[d].of.collected
      BY <1>2, <1>3 DEF InventoryInv, RefreshKnows
    <3>2. UNCHANGED <<installed, refresh>> /\ snapshots \subseteq snapshots'
      BY <2>1
    <3> QED
      BY <1>3, <3>1, <3>2, RefreshStays
  <2>2. CASE refresh' # refresh \/ report[r].awaited
    <3>1. report[r].awaited
      BY <2>2
    <3>2. /\ refresh.at = "reporting" /\ SaysSince(report[r].of)
          /\ \A e \in Actors \ {r} : ~report[e].awaited
      BY <3>1 DEF InventoryInv, RefreshKnows
    <3>3. \A d \in Actors : ~report'[d].awaited
      BY <1>2, <1>3, <3>2
    <3>4. CASE refresh' = Inventory!IdleRefresh
      BY <3>3, <3>4 DEF RefreshKnows, Inventory!IdleRefresh
    <3>5. CASE refresh' = [refresh EXCEPT !.at = "verifying"] /\ report[r].at = "recorded"
      <4>1. refresh'.since = refresh.since /\ refresh'.at = "verifying"
        BY <3>5 DEF InventoryInv, InventoryTypes
      <4>2. PICK s : s = report[r].of
        OBVIOUS
      <4>3. s \in snapshots' /\ SaysSince(s)
        BY <3>2, <3>5, <4>2 DEF InventoryInv, ReceivedApart
      <4>4. SaysSince(s)'
        BY <1>3, <4>1, <4>3, SaysStill
      <4>5. installed \in refresh'.since
        BY <3>2, <4>1 DEF InventoryInv, RefreshKnows
      <4> QED
        BY <3>3, <4>1, <4>3, <4>4, <4>5 DEF RefreshKnows
    <3> QED
      BY <3>1, <3>4, <3>5
  <2> QED
    BY <2>1, <2>2
<1>10. HealthFollows'
  <2>1. SUFFICES ASSUME ~torn', ~reordered' PROVE HealthFollows'
    BY DEF HealthFollows
  <2>2. ~torn /\ ~reordered /\ report[r].at \in {"sent", "recorded"}
    BY <2>1 DEF InventoryInv, InventoryTypes
  <2>3. Arrived' = Arrived
    <3>1. \A x : x \in Arrived' <=> x \in Arrived
      BY <1>2, <1>3, <2>2, ReportsThereAre, ReportsThereWillBe
    <3> QED
      BY <3>1
  <2>4. Stored' = Stored
    <3>1. \A x : x \in Stored' <=> x \in Stored
      BY <1>2, <1>3, <2>2, ReportsThereAre, ReportsThereWillBe
    <3> QED
      BY <3>1
  <2> QED
    BY <2>2, <2>3, <2>4 DEF InventoryInv, HealthFollows
<1> QED
  BY <1>5, <1>6, <1>8, <1>9, <1>10 DEF InventoryInv, NeverOutdated

LEMMA AnswerKeepsInventory ==
    ASSUME InventoryInv, NEW r \in Actors, Inventory!Answer(r)
    PROVE  InventoryInv'
<1>1. /\ report' = [report EXCEPT ![r] = Inventory!IdleReport] /\ report[r].at = "recorded"
      /\ refresh' = IF report[r].awaited THEN [refresh EXCEPT !.at = "verifying"] ELSE refresh
      /\ UNCHANGED <<installed, released, cache, now, collected, received, snapshots, health,
                     torn, reordered, outdated>>
  BY DEF Inventory!Answer, Inventory!Answered, Inventory!Goto
<1>2. torn' = torn /\ torn' \in BOOLEAN
  BY <1>1 DEF InventoryInv, InventoryTypes
<1>3. UNCHANGED <<installed, released, cache, now, collected, received, snapshots, health, reordered, outdated>>
  BY <1>1
<1>4. \/ refresh' = refresh /\ ~report[r].awaited
      \/ refresh' = Inventory!IdleRefresh /\ report[r].awaited
      \/ /\ refresh' = [refresh EXCEPT !.at = "verifying"] /\ report[r].awaited
         /\ report[r].at = "recorded"
  BY <1>1
<1>5. report[r].at # "idle" /\ (~torn' => report[r].at \in {"sent", "recorded"}) /\ (torn => torn')
  BY <1>1, <1>2
<1> QED
  BY <1>1, <1>2, <1>3, <1>4, <1>5, EndingKeepsInventory

LEMMA FailKeepsInventory ==
    ASSUME InventoryInv, NEW r \in Actors, Inventory!Fail(r)
    PROVE  InventoryInv'
<1>1. /\ report' = [report EXCEPT ![r] = Inventory!IdleReport]
      /\ report[r].at \in {"sent", "received", "healthy", "recorded"}
      /\ refresh' = IF report[r].awaited THEN Inventory!IdleRefresh ELSE refresh
      /\ torn' = (torn \/ report[r].at \in {"received", "healthy"})
      /\ UNCHANGED <<installed, released, cache, now, collected, received, snapshots, health,
                     reordered, outdated>>
  BY DEF Inventory!Fail, Inventory!Goto
<1>2. torn' \in BOOLEAN /\ (torn => torn')
  BY <1>1 DEF InventoryInv, InventoryTypes
<1>3. ~torn' => report[r].at \in {"sent", "recorded"}
  BY <1>1
<1>4. \/ refresh' = refresh /\ ~report[r].awaited
      \/ refresh' = Inventory!IdleRefresh /\ report[r].awaited
      \/ /\ refresh' = [refresh EXCEPT !.at = "verifying"] /\ report[r].awaited
         /\ report[r].at = "recorded"
  BY <1>1
<1>5. UNCHANGED <<installed, released, cache, now, collected, received, snapshots, health, reordered, outdated>>
  BY <1>1
<1>6. report[r].at # "idle"
  BY <1>1
<1> QED
  BY <1>1, <1>2, <1>3, <1>4, <1>5, <1>6, EndingKeepsInventory

\* WordPress is asked again a while later, or once what is installed has changed.
LEMMA CollectKeepsInventory ==
    ASSUME InventoryInv, NEW r \in Actors, NEW awaited \in BOOLEAN, Inventory!Collect(r, awaited)
    PROVE  InventoryInv'
<1>1. PICK fetched : fetched = Inventory!Checked
  OBVIOUS
<1>2. PICK content : content = [installed |-> installed,
                                available |-> IF fetched.offer > installed THEN fetched.offer ELSE 0]
  OBVIOUS
<1>3. PICK x : x = [Inventory!NoSnapshot EXCEPT !.content = content, !.checkedAt = fetched.checked,
                                                !.collected = collected + 1]
  OBVIOUS
<1>4. PICK q : q = [at |-> "sent", awaited |-> awaited, of |-> x]
  OBVIOUS
<1>5. /\ report[r].at = "idle" /\ collected < MaxReports /\ (refresh.at = "requested" \/ ~awaited)
      /\ cache' = fetched /\ collected' = collected + 1 /\ report' = [report EXCEPT ![r] = q]
      /\ refresh' = IF awaited THEN [refresh EXCEPT !.at = "reporting"] ELSE refresh
      /\ UNCHANGED <<installed, released, now, received, snapshots, health, torn, reordered, outdated>>
  BY <1>1, <1>2, <1>3, <1>4 DEF Inventory!Collect, Inventory!Goto
<1>6. /\ fetched \in [offer : Inventory!Versions, checked : 0 .. MaxSiteClock, of : Inventory!Versions]
      /\ fetched.of = installed
      /\ fetched = cache \/ (cache.checked < fetched.checked /\ fetched.checked = now)
  <2>1. CASE now >= cache.checked + Throttle \/ cache.of # installed
    <3>1. fetched = [offer |-> released, checked |-> now, of |-> installed]
      BY <1>1, <2>1 DEF Inventory!Checked
    <3>2. cache.checked < now
      BY <2>1, InventoryTyped, InventoryFacts DEF InventoryInv, InOrder
    <3> QED
      BY <3>1, <3>2, InventoryTyped DEF InventoryInv, InventoryTypes
  <2>2. CASE ~ (now >= cache.checked + Throttle \/ cache.of # installed)
    <3>1. fetched = cache /\ cache.of = installed
      BY <1>1, <2>2 DEF Inventory!Checked
    <3> QED
      BY <3>1 DEF InventoryInv, InventoryTypes
  <2> QED
    BY <2>1, <2>2
<1>7. content \in Inventory!Content /\ content.installed = installed
  BY <1>2, <1>6, InventoryTyped DEF Inventory!Content
<1>8. /\ x \in Inventory!Snapshot /\ x.content = content /\ x.checkedAt = fetched.checked
      /\ x.collected = collected + 1
  <2>1. x = [content |-> content, checkedAt |-> fetched.checked, receivedAt |-> 0,
             collected |-> collected + 1]
    BY <1>3 DEF Inventory!NoSnapshot
  <2>2. fetched.checked \in 0 .. MaxSiteClock /\ collected + 1 \in 0 .. MaxReports
    BY <1>5, <1>6, InventoryTyped, InventoryFacts
  <2> QED
    BY <1>7, <2>1, <2>2 DEF Inventory!Snapshot
<1>9. q \in CheckIn /\ q.at = "sent" /\ q.awaited = awaited /\ q.of = x
  BY <1>4, <1>8 DEF CheckIn
<1>10. /\ report' \in [Actors -> CheckIn] /\ report'[r] = q
       /\ \A d \in Actors \ {r} : report'[d] = report[d]
  BY <1>5, <1>9, InventoryTyped
<1>11. \A y : y \in Reported' <=> y \in Reported \/ y = x
  BY <1>5, <1>9, <1>10, ReportsThereAre, ReportsThereWillBe
<1>12. Arrived' = Arrived
  <2>1. \A y : y \in Arrived' <=> y \in Arrived
    BY <1>5, <1>9, <1>10, ReportsThereAre, ReportsThereWillBe
  <2> QED
    BY <2>1
<1>13. Stored' = Stored
  <2>1. \A y : y \in Stored' <=> y \in Stored
    BY <1>5, <1>9, <1>10, ReportsThereAre, ReportsThereWillBe
  <2> QED
    BY <2>1
<1>14. refresh' \in [at : {"idle", "requested", "reporting", "verifying"}, requestedAt : Nat,
                     since : SUBSET Inventory!Versions]
  BY <1>5 DEF InventoryInv, InventoryTypes
<1>15. InventoryTypes'
  BY <1>5, <1>6, <1>10, <1>14, InventoryFacts DEF InventoryInv, InventoryTypes
<1>16. InOrder'
  <2>1. Offered' = content
    BY <1>2, <1>5, <1>6 DEF Offered
  <2>2. /\ cache.checked <= fetched.checked /\ fetched.checked <= now
        /\ \A y \in Reported : y.collected <= collected /\ y.checkedAt <= cache.checked
    BY <1>6, InventoryTyped DEF InventoryInv, InOrder
  <2>3. \A y \in Reported : y.checkedAt = fetched.checked => y.content = content
    <3>1. CASE fetched = cache
      BY <1>2, <1>6, <3>1 DEF InventoryInv, InOrder, Offered
    <3>2. CASE cache.checked < fetched.checked
      BY <2>2, <3>2, <1>6, InventoryTyped
    <3> QED
      BY <1>6, <3>1, <3>2
  <2>4. \A y \in Reported' : /\ y.collected <= collected' /\ y.checkedAt <= fetched.checked
                             /\ y.checkedAt = fetched.checked => y.content = content
    BY <1>5, <1>6, <1>8, <1>11, <2>2, <2>3, InventoryTyped
  <2>5. ASSUME NEW y \in Reported', NEW z \in Reported'
        PROVE  /\ y.collected <= z.collected => y.checkedAt <= z.checkedAt
               /\ y.checkedAt = z.checkedAt => y.content = z.content
    <3>1. CASE y = x /\ z = x
      BY <1>6, <1>8, <3>1
    <3>2. CASE y = x /\ z \in Reported
      BY <1>5, <1>6, <1>8, <2>2, <2>3, <3>2, InventoryTyped
    <3>3. CASE y \in Reported /\ z = x
      BY <1>5, <1>6, <1>8, <2>2, <2>3, <3>3, InventoryTyped
    <3>4. CASE y \in Reported /\ z \in Reported
      BY <3>4 DEF InventoryInv, InOrder
    <3> QED
      BY <1>11, <2>5, <3>1, <3>2, <3>3, <3>4
  <2>6. cache'.checked <= now' /\ (cache'.of # installed' => cache'.checked < now')
    BY <1>5, <1>6, <2>2
  <2> QED
    BY <1>5, <2>1, <2>4, <2>5, <2>6 DEF InOrder
<1>17. ReceivedApart'
  BY <1>5, <1>9, <1>10, <1>12 DEF InventoryInv, ReceivedApart
<1>18. RefreshKnows'
  <2>1. refresh'.since = refresh.since /\ (refresh'.at = refresh.at \/ (awaited /\ refresh'.at = "reporting"))
    BY <1>5 DEF InventoryInv, InventoryTypes
  <2>2. refresh.at # "idle" => x.content.installed \in refresh.since
    BY <1>7, <1>8 DEF InventoryInv, RefreshKnows
  <2>3. ASSUME NEW s, refresh.at # "idle", SaysSince(s) PROVE SaysSince(s)'
    BY <1>11, <2>1, <2>2, <2>3 DEF SaysSince
  <2>4. ASSUME NEW s, refresh.at # "idle", s.collected = collected + 1 PROVE SaysSince(s)'
    <3>1. \A y \in Reported : y.collected <= collected /\ y.collected \in Nat
      BY InventoryTyped DEF InventoryInv, InOrder
    <3> QED
      BY <1>11, <2>1, <2>2, <2>4, <3>1, InventoryTyped DEF SaysSince
  <2>5. CASE awaited
    <3>1. refresh.at = "requested" /\ refresh'.at = "reporting"
      BY <1>5, <2>5 DEF InventoryInv, InventoryTypes
    <3>2. \A d \in Actors : ~report[d].awaited
      BY <3>1 DEF InventoryInv, RefreshKnows
    <3>3. \A d \in Actors \ {r} : ~report'[d].awaited
      BY <1>10, <3>2
    <3>4. SaysSince(x)'
      BY <1>8, <2>4, <3>1
    <3>5. SaysSince(report[r].of)'
      BY <1>9, <1>10, <3>4 DEF SaysSince
    <3>6. installed' \in refresh'.since
      BY <1>5, <2>1, <3>1 DEF InventoryInv, RefreshKnows
    <3>7. report'[r].at # "idle"
      BY <1>9, <1>10
    <3> QED
      BY <3>1, <3>3, <3>5, <3>6, <3>7 DEF RefreshKnows
  <2>6. CASE ~awaited
    <3>1. refresh' = refresh
      BY <1>5, <2>6
    <3>2. ASSUME NEW d \in Actors, report'[d].awaited
          PROVE  /\ report'[d].at # "idle" /\ refresh'.at = "reporting" /\ SaysSince(report[d].of)'
                 /\ \A e \in Actors \ {d} : ~report'[e].awaited
      <4>1. d # r /\ report'[d] = report[d]
        BY <1>9, <1>10, <2>6, <3>2
      <4>2. /\ report[d].at # "idle" /\ refresh.at = "reporting" /\ SaysSince(report[d].of)
            /\ \A e \in Actors \ {d} : ~report[e].awaited
        BY <3>2, <4>1 DEF InventoryInv, RefreshKnows
      <4>3. PICK s : s = report[d].of
        OBVIOUS
      <4>4. SaysSince(s)'
        BY <2>3, <4>2, <4>3
      <4>5. SaysSince(report[d].of)'
        BY <4>1, <4>3, <4>4 DEF SaysSince
      <4>6. \A e \in Actors \ {d} : ~report'[e].awaited
        BY <1>9, <1>10, <2>6, <4>2
      <4> QED
        BY <3>1, <4>1, <4>2, <4>5, <4>6
    <3>3. refresh'.at = "verifying" => \E s \in snapshots' : SaysSince(s)'
      BY <1>5, <2>3, <3>1 DEF InventoryInv, RefreshKnows
    <3>4. refresh'.at # "idle" => installed' \in refresh'.since
      BY <1>5, <3>1 DEF InventoryInv, RefreshKnows
    <3> QED
      BY <3>2, <3>3, <3>4 DEF RefreshKnows
  <2> QED
    BY <2>5, <2>6
<1>19. HealthFollows'
  BY <1>5, <1>12, <1>13 DEF InventoryInv, HealthFollows
<1> QED
  BY <1>5, <1>15, <1>16, <1>17, <1>18, <1>19 DEF InventoryInv, NeverOutdated

\* Nothing is reported or received: time goes by, a version comes out or is installed, the
\* refresh is asked for or given up.
LEMMA SiteStepKeepsInventory ==
    ASSUME InventoryInv,
           installed' \in 1 .. released', released' \in Inventory!Versions, now' \in 0 .. MaxSiteClock,
           now <= now', installed' = installed \/ now < now',
           refresh' \in [at : {"idle", "requested", "reporting", "verifying"}, requestedAt : Nat,
                         since : SUBSET Inventory!Versions],
           refresh'.at # "idle" => installed' \in refresh'.since,
           \/ report' = report /\ refresh'.at = refresh.at /\ refresh.since \subseteq refresh'.since
           \/ /\ report' = [r \in Actors |-> [report[r] EXCEPT !.awaited = FALSE]]
              /\ refresh'.at = "idle"
           \/ report' = report /\ refresh'.at \notin {"reporting", "verifying"} /\ refresh.at # "reporting",
           UNCHANGED <<cache, collected, received, snapshots, health, torn, reordered, outdated>>
    PROVE  InventoryInv'
<1>1. /\ report' \in [Actors -> CheckIn]
      /\ \A r \in Actors : /\ report'[r].at = report[r].at /\ report'[r].of = report[r].of
                           /\ report'[r].awaited => report[r].awaited
  <2>1. CASE report' = report
    BY <2>1, InventoryTyped
  <2>2. CASE report' = [r \in Actors |-> [report[r] EXCEPT !.awaited = FALSE]]
    <3>1. ASSUME NEW r \in Actors
          PROVE  /\ report'[r] \in CheckIn /\ report'[r].at = report[r].at
                 /\ report'[r].of = report[r].of /\ report'[r].awaited = FALSE
      <4>1. report'[r] = [report[r] EXCEPT !.awaited = FALSE] /\ report[r] \in CheckIn
        BY <2>2, InventoryTyped
      <4> QED
        BY <4>1 DEF CheckIn
    <3> QED
      BY <2>2, <3>1
  <2> QED
    BY <2>1, <2>2
<1>2. Reported' = Reported /\ Arrived' = Arrived /\ Stored' = Stored
  <2>1. /\ \A x : x \in Reported' <=> x \in Reported
        /\ \A x : x \in Arrived' <=> x \in Arrived
        /\ \A x : x \in Stored' <=> x \in Stored
    BY <1>1, ReportsThereAre, ReportsThereWillBe
  <2> QED
    BY <2>1
<1>3. InventoryTypes'
  BY <1>1 DEF InventoryInv, InventoryTypes
<1>4. InOrder'
  <2>1. Offered' = Offered
    BY DEF Offered
  <2>2. now \in Nat /\ now' \in Nat /\ cache.checked \in Nat
    BY InventoryTyped, InventoryFacts
  <2>3. cache.checked <= now' /\ (cache.of # installed' => cache.checked < now')
    BY <2>2 DEF InventoryInv, InOrder
  <2> QED
    BY <1>2, <2>1, <2>3 DEF InventoryInv, InOrder
<1>5. ReceivedApart'
  BY <1>1, <1>2 DEF InventoryInv, ReceivedApart
<1>6. RefreshKnows'
  <2>1. CASE report' = report /\ refresh'.at = refresh.at /\ refresh.since \subseteq refresh'.since
    <3>1. \A s : SaysSince(s) => SaysSince(s)'
      BY <1>2, <2>1 DEF SaysSince
    <3>2. ASSUME NEW d \in Actors, report'[d].awaited
          PROVE  /\ report'[d].at # "idle" /\ refresh'.at = "reporting" /\ SaysSince(report[d].of)'
                 /\ \A e \in Actors \ {d} : ~report'[e].awaited
      <4>1. /\ report[d].at # "idle" /\ refresh.at = "reporting" /\ SaysSince(report[d].of)
            /\ \A e \in Actors \ {d} : ~report[e].awaited
        BY <2>1, <3>2 DEF InventoryInv, RefreshKnows
      <4>2. PICK s : s = report[d].of
        OBVIOUS
      <4>3. SaysSince(s)'
        BY <3>1, <4>1, <4>2
      <4>4. SaysSince(report[d].of)'
        BY <2>1, <4>2, <4>3 DEF SaysSince
      <4> QED
        BY <2>1, <4>1, <4>4
    <3>3. refresh'.at = "verifying" => \E s \in snapshots' : SaysSince(s)'
      BY <2>1, <3>1 DEF InventoryInv, RefreshKnows
    <3> QED
      BY <3>2, <3>3 DEF RefreshKnows
  <2>2. CASE /\ report' = [r \in Actors |-> [report[r] EXCEPT !.awaited = FALSE]]
             /\ refresh'.at = "idle"
    <3>1. \A r \in Actors : ~report'[r].awaited
      BY <2>2, InventoryTyped DEF CheckIn
    <3> QED
      BY <2>2, <3>1 DEF RefreshKnows
  <2>3. CASE report' = report /\ refresh'.at \notin {"reporting", "verifying"} /\ refresh.at # "reporting"
    <3>1. \A r \in Actors : ~report'[r].awaited
      BY <2>3 DEF InventoryInv, RefreshKnows
    <3> QED
      BY <2>3, <3>1 DEF RefreshKnows
  <2> QED
    BY <2>1, <2>2, <2>3
<1>7. HealthFollows'
  BY <1>2 DEF InventoryInv, HealthFollows
<1> QED
  BY <1>3, <1>4, <1>5, <1>6, <1>7 DEF InventoryInv, NeverOutdated

LEMMA InstallKeepsInventory == InventoryInv /\ Inventory!Install => InventoryInv'
<1>1. SUFFICES ASSUME InventoryInv, Inventory!Install PROVE InventoryInv'
  OBVIOUS
<1>2. PICK v \in (1 .. released) \ {installed} :
         /\ installed' = v
         /\ refresh' = IF refresh.at = "idle" THEN refresh ELSE [refresh EXCEPT !.since = @ \cup {v}]
  BY <1>1 DEF Inventory!Install
<1>3. /\ now < MaxSiteClock /\ now' = now + 1
      /\ UNCHANGED <<released, cache, report, collected, received, snapshots, health, torn, reordered, outdated>>
  BY <1>1 DEF Inventory!Install
<1>4. v \in Inventory!Versions /\ installed' \in 1 .. released' /\ released' \in Inventory!Versions
  BY <1>1, <1>2, <1>3, InventoryFacts DEF InventoryInv, InventoryTypes, Inventory!Versions
<1>5. now' \in 0 .. MaxSiteClock /\ now < now' /\ now <= now'
  BY <1>1, <1>3, InventoryTyped, InventoryFacts
<1>6. /\ refresh' \in [at : {"idle", "requested", "reporting", "verifying"}, requestedAt : Nat,
                       since : SUBSET Inventory!Versions]
      /\ refresh'.at # "idle" => installed' \in refresh'.since
      /\ refresh'.at = refresh.at /\ refresh.since \subseteq refresh'.since
  BY <1>1, <1>2, <1>4 DEF InventoryInv, InventoryTypes
<1>7. UNCHANGED <<cache, collected, received, snapshots, health, torn, reordered, outdated>> /\ report' = report
  BY <1>3
<1> QED
  BY <1>1, <1>4, <1>5, <1>6, <1>7, SiteStepKeepsInventory

LEMMA PassingKeepsInventory ==
    InventoryInv /\ (Inventory!Wait \/ Inventory!Release) => InventoryInv'
<1>1. SUFFICES ASSUME InventoryInv, Inventory!Wait \/ Inventory!Release PROVE InventoryInv'
  OBVIOUS
<1>2. /\ UNCHANGED <<cache, collected, received, snapshots, health, torn, reordered, outdated>>
      /\ report' = report /\ refresh' = refresh /\ installed' = installed
  BY <1>1 DEF Inventory!Wait, Inventory!Release
<1>3. now' \in 0 .. MaxSiteClock /\ now <= now'
  BY <1>1, InventoryTyped, InventoryFacts DEF Inventory!Wait, Inventory!Release, InventoryInv, InventoryTypes
<1>4. installed' \in 1 .. released' /\ released' \in Inventory!Versions
  BY <1>1, InventoryTyped, InventoryFacts
     DEF Inventory!Wait, Inventory!Release, InventoryInv, InventoryTypes, Inventory!Versions
<1>5. /\ refresh' \in [at : {"idle", "requested", "reporting", "verifying"}, requestedAt : Nat,
                       since : SUBSET Inventory!Versions]
      /\ refresh'.at # "idle" => installed' \in refresh'.since
      /\ refresh'.at = refresh.at /\ refresh.since \subseteq refresh'.since
  BY <1>1, <1>2 DEF InventoryInv, InventoryTypes, RefreshKnows
<1> QED
  BY <1>1, <1>2, <1>3, <1>4, <1>5, SiteStepKeepsInventory

LEMMA AskingKeepsInventory ==
    InventoryInv /\ (Inventory!RequestRefresh \/ Inventory!TimeOut) => InventoryInv'
<1>1. SUFFICES ASSUME InventoryInv, Inventory!RequestRefresh \/ Inventory!TimeOut PROVE InventoryInv'
  OBVIOUS
<1>2. /\ UNCHANGED <<cache, collected, received, snapshots, health, torn, reordered, outdated>>
      /\ now' = now /\ released' = released /\ installed' = installed
  BY <1>1 DEF Inventory!RequestRefresh, Inventory!TimeOut
<1>3. /\ now' \in 0 .. MaxSiteClock /\ now <= now'
      /\ installed' \in 1 .. released' /\ released' \in Inventory!Versions
  BY <1>1, <1>2, InventoryTyped DEF InventoryInv, InventoryTypes
<1>4. /\ refresh' \in [at : {"idle", "requested", "reporting", "verifying"}, requestedAt : Nat,
                       since : SUBSET Inventory!Versions]
      /\ refresh'.at # "idle" => installed' \in refresh'.since
  BY <1>1, <1>2, InventoryTyped DEF Inventory!RequestRefresh, Inventory!TimeOut, Inventory!IdleRefresh
<1>5. \/ report' = report /\ refresh'.at = refresh.at /\ refresh.since \subseteq refresh'.since
      \/ /\ report' = [r \in Actors |-> [report[r] EXCEPT !.awaited = FALSE]]
         /\ refresh'.at = "idle"
      \/ report' = report /\ refresh'.at \notin {"reporting", "verifying"} /\ refresh.at # "reporting"
  BY <1>1 DEF Inventory!RequestRefresh, Inventory!TimeOut, Inventory!IdleRefresh
<1> QED
  BY <1>1, <1>2, <1>3, <1>4, <1>5, SiteStepKeepsInventory

\* The snapshot that is shown is the one checked last, and of those the one received last.
LEMMA ShownIsNewest ==
    ASSUME InventoryInv, snapshots # {}
    PROVE  /\ Inventory!Shown \in snapshots
           /\ \A t \in snapshots : t = Inventory!Shown \/ Inventory!Newer(Inventory!Shown, t)
<1>1. \A t \in snapshots : /\ t.checkedAt \in 0 .. MaxSiteClock /\ t.receivedAt \in 1 .. received
                           /\ received \in Nat /\ MaxSiteClock \in Nat
  BY InventoryTyped, InventoryFacts, ReportsThereAre DEF InventoryInv, ReceivedApart
<1>2. PICK checks : checks = {MaxSiteClock - t.checkedAt : t \in snapshots}
  OBVIOUS
<1>3. PICK c \in checks : \A d \in checks : c <= d
  <2>1. checks \in SUBSET Nat /\ checks # {}
    BY <1>1, <1>2
  <2> QED
    BY <2>1, LeastNatural
<1>4. PICK latest : latest = {t \in snapshots : MaxSiteClock - t.checkedAt = c}
  OBVIOUS
<1>5. PICK times : times = {received - t.receivedAt : t \in latest}
  OBVIOUS
<1>6. times \in SUBSET Nat /\ times # {}
  BY <1>1, <1>2, <1>4, <1>5
<1>7. PICK n \in times : \A m \in times : n <= m
  BY <1>6, LeastNatural
<1>8. PICK s \in latest : n = received - s.receivedAt
  BY <1>5
<1>9. ASSUME NEW t \in snapshots, t # s PROVE Inventory!Newer(s, t)
  <2>1. s \in snapshots /\ s.checkedAt >= t.checkedAt
    <3>1. s \in snapshots /\ MaxSiteClock - s.checkedAt = c /\ c <= MaxSiteClock - t.checkedAt
      BY <1>2, <1>3, <1>4
    <3> QED
      BY <1>1, <3>1
  <2>2. CASE s.checkedAt = t.checkedAt
    <3>1. t \in latest /\ s.receivedAt >= t.receivedAt
      BY <1>1, <1>4, <1>5, <1>7, <1>8, <2>1, <2>2
    <3>2. s.receivedAt # t.receivedAt
      BY <1>9, <2>1 DEF InventoryInv, ReceivedApart
    <3> QED
      BY <1>1, <2>1, <2>2, <3>1, <3>2 DEF Inventory!Newer
  <2>3. CASE s.checkedAt # t.checkedAt
    BY <1>1, <2>1, <2>3 DEF Inventory!Newer
  <2> QED
    BY <2>2, <2>3
<1>10. s \in snapshots
  BY <1>4
<1>11. \E u \in snapshots : \A t \in snapshots \ {u} : Inventory!Newer(u, t)
  BY <1>9, <1>10
<1> QED
  BY <1>11 DEF Inventory!Shown

LEMMA ShownFacts ==
    ASSUME InventoryInv, NEW t \in snapshots
    PROVE  /\ Inventory!Shown \in snapshots /\ t.checkedAt <= Inventory!Shown.checkedAt
           /\ Inventory!Shown.collected <= t.collected => Inventory!Shown.content = t.content
<1>1. PICK s : s = Inventory!Shown
  OBVIOUS
<1>2. s \in snapshots /\ (t = s \/ Inventory!Newer(s, t))
  BY <1>1, ShownIsNewest
<1>3. s \in Reported /\ t \in Reported
  BY <1>2, ReportsThereAre
<1>4. t.checkedAt <= s.checkedAt
  BY <1>2, <1>3, InventoryTyped DEF Inventory!Newer
<1>5. ASSUME s.collected <= t.collected PROVE s.content = t.content
  <2>1. s.checkedAt <= t.checkedAt
    BY <1>3, <1>5 DEF InventoryInv, InOrder
  <2>2. s.checkedAt = t.checkedAt
    BY <1>3, <1>4, <2>1, InventoryTyped
  <2> QED
    BY <1>3, <2>2 DEF InventoryInv, InOrder
<1> QED
  BY <1>1, <1>2, <1>4, <1>5

LEMMA VerifyRefreshKeepsInventory == InventoryInv /\ Inventory!VerifyRefresh => InventoryInv'
<1>1. SUFFICES ASSUME InventoryInv, Inventory!VerifyRefresh PROVE InventoryInv'
  OBVIOUS
<1>2. /\ refresh.at = "verifying" /\ refresh' = Inventory!IdleRefresh
      /\ outdated' = (outdated \/ /\ Inventory!Shown.receivedAt > refresh.requestedAt
                                  /\ Inventory!Shown.content.installed \notin refresh.since)
      /\ UNCHANGED <<installed, released, cache, now, report, collected, received, snapshots, health,
                     torn, reordered>>
  BY <1>1 DEF Inventory!VerifyRefresh
<1>3. PICK s \in snapshots : SaysSince(s)
  BY <1>1, <1>2 DEF InventoryInv, RefreshKnows
<1>4. PICK shows : shows = Inventory!Shown
  OBVIOUS
<1>5. shows \in snapshots /\ (shows.collected <= s.collected => shows.content = s.content)
  BY <1>1, <1>4, ShownFacts
<1>6. shows.content.installed \in refresh.since
  <2>1. s \in Reported /\ shows \in Reported
    BY <1>5, ReportsThereAre
  <2>2. s.collected \in Nat /\ shows.collected \in Nat
    BY <1>1, <2>1, InventoryTyped
  <2>3. CASE shows.collected >= s.collected
    BY <1>3, <2>1, <2>3 DEF SaysSince
  <2>4. CASE shows.collected <= s.collected
    BY <1>3, <1>5, <2>1, <2>2, <2>4 DEF SaysSince
  <2> QED
    BY <2>2, <2>3, <2>4
<1>7. outdated = FALSE
  BY <1>1 DEF InventoryInv, NeverOutdated
<1>8. UNCHANGED <<cache, collected, received, snapshots, health, torn, reordered, outdated>>
  <2>1. outdated' = outdated
    BY <1>2, <1>4, <1>6, <1>7
  <2> QED
    BY <1>2, <2>1
<1>9. /\ refresh' \in [at : {"idle", "requested", "reporting", "verifying"}, requestedAt : Nat,
                       since : SUBSET Inventory!Versions]
      /\ refresh'.at = "idle"
  BY <1>2 DEF Inventory!IdleRefresh
<1>10. /\ now' \in 0 .. MaxSiteClock /\ now <= now' /\ installed' = installed /\ report' = report
       /\ installed' \in 1 .. released' /\ released' \in Inventory!Versions
  BY <1>1, <1>2, InventoryTyped DEF InventoryInv, InventoryTypes
<1> QED
  BY <1>1, <1>2, <1>8, <1>9, <1>10, SiteStepKeepsInventory

LEMMA InventoryFollows == InventoryInv => Inventory!InventorySound
<1>1. SUFFICES ASSUME InventoryInv PROVE Inventory!InventorySound
  OBVIOUS
<1>2. Inventory!InventoryTypeOK
  BY <1>1, InventoryTyped, InventoryFacts DEF InventoryInv, InventoryTypes, Inventory!InventoryTypeOK
<1>3. Inventory!ShownIsLastCollected
  BY <1>1, ShownFacts DEF Inventory!ShownIsLastCollected
<1>4. Inventory!VerifiedShowsRecent
  BY <1>1 DEF InventoryInv, NeverOutdated, Inventory!VerifiedShowsRecent
<1>5. ASSUME ~torn, ~reordered, \A r \in Actors : report[r].at \notin {"received", "healthy"}
      PROVE  health.pending = Inventory!Pending(Inventory!Shown.content)
  <2>1. \A x : (x \in Arrived <=> x \in snapshots) /\ (x \in Stored <=> x \in snapshots)
    BY <1>5, ReportsThereAre
  <2>2. CASE snapshots = {}
    <3>1. Inventory!Shown = Inventory!NoSnapshot
      BY <2>2 DEF Inventory!Shown
    <3>2. ~health.pending
      BY <1>1, <1>5, <2>1, <2>2 DEF InventoryInv, HealthFollows
    <3>3. Inventory!Pending(Inventory!Shown.content) = FALSE
      BY <3>1 DEF Inventory!Pending, Inventory!NoSnapshot
    <3> QED
      BY <1>1, <3>2, <3>3, InventoryTyped
  <2>3. CASE snapshots # {}
    <3>1. PICK h \in snapshots : h.receivedAt = health.createdAt /\ health.pending = Inventory!Pending(h.content)
      BY <1>1, <1>5, <2>1, <2>3 DEF InventoryInv, HealthFollows
    <3>2. PICK shows : shows = Inventory!Shown
      OBVIOUS
    <3>3. shows \in snapshots /\ (shows.collected <= h.collected => shows.content = h.content)
      BY <1>1, <3>2, ShownFacts
    <3>4. shows.receivedAt <= h.receivedAt /\ h.receivedAt \in Nat /\ shows.receivedAt \in Nat
      BY <1>1, <1>5, <2>1, <3>1, <3>3, InventoryTyped DEF InventoryInv, HealthFollows
    <3>5. CASE shows.receivedAt = h.receivedAt
      BY <1>1, <3>1, <3>2, <3>3, <3>5 DEF InventoryInv, ReceivedApart
    <3>6. CASE shows.receivedAt < h.receivedAt
      <4>1. shows.collected <= h.collected
        BY <1>1, <1>5, <2>1, <3>3, <3>6 DEF InventoryInv, HealthFollows
      <4> QED
        BY <3>1, <3>2, <3>3, <4>1
    <3> QED
      BY <3>4, <3>5, <3>6
  <2> QED
    BY <2>2, <2>3
<1>6. Inventory!HealthAgrees
  BY <1>5 DEF Inventory!HealthAgrees
<1> QED
  BY <1>2, <1>3, <1>4, <1>6 DEF Inventory!InventorySound

LEMMA InventoryStarts == Inventory!Init => InventoryInv
<1>1. SUFFICES ASSUME Inventory!Init PROVE InventoryInv
  OBVIOUS
<1>2. /\ \A r \in Actors : report[r] = Inventory!IdleReport
      /\ snapshots = {}
  BY <1>1 DEF Inventory!Init
<1>3. /\ \A x : x \notin Reported /\ x \notin Arrived /\ x \notin Stored
  BY <1>2, InventoryFacts, ReportsThereAre
<1>4. InventoryTypes
  <2>1. /\ installed \in 1 .. released /\ released \in Inventory!Versions /\ now \in 0 .. MaxSiteClock
        /\ cache \in [offer : Inventory!Versions, checked : 0 .. MaxSiteClock, of : Inventory!Versions]
    BY <1>1, InventoryFacts DEF Inventory!Init, Inventory!Versions
  <2>2. report \in [Actors -> CheckIn] /\ collected \in 0 .. MaxReports /\ received \in Nat
    BY <1>1, InventoryFacts DEF Inventory!Init
  <2>3. snapshots \subseteq Inventory!Snapshot /\ health \in Inventory!Health
    BY <1>1 DEF Inventory!Init, Inventory!Health
  <2>4. refresh \in [at : {"idle", "requested", "reporting", "verifying"}, requestedAt : Nat,
                     since : SUBSET Inventory!Versions]
    BY <1>1 DEF Inventory!Init, Inventory!IdleRefresh
  <2>5. torn \in BOOLEAN /\ reordered \in BOOLEAN
    BY <1>1 DEF Inventory!Init
  <2> QED
    BY <2>1, <2>2, <2>3, <2>4, <2>5 DEF InventoryTypes
<1>5. InOrder
  BY <1>1, <1>3 DEF Inventory!Init, InOrder
<1>6. ReceivedApart
  BY <1>2, <1>3, InventoryFacts DEF ReceivedApart
<1>7. RefreshKnows
  BY <1>1, <1>2, InventoryFacts DEF Inventory!Init, RefreshKnows, Inventory!IdleRefresh
<1>8. HealthFollows
  <2>1. Stored = {}
    BY <1>3
  <2> QED
    BY <1>1, <1>3, <2>1 DEF Inventory!Init, HealthFollows
<1>9. NeverOutdated
  BY <1>1 DEF Inventory!Init, NeverOutdated
<1> QED
  BY <1>4, <1>5, <1>6, <1>7, <1>8, <1>9 DEF InventoryInv

InventoriesInv == part = "inventory" => InventoryInv

LEMMA InventoriesKept == (Init => InventoriesInv) /\ (InventoriesInv /\ [Next]_vars => InventoriesInv')
<1>1. Init => InventoriesInv
  BY InventoryStarts DEF Init, InventoriesInv
<1>2. ASSUME InventoriesInv, [Next]_vars PROVE InventoriesInv'
  <2>1. part' = part
    BY <1>2 DEF Next, vars
  <2>2. SUFFICES ASSUME part = "inventory", InventoryInv PROVE InventoryInv'
    BY <1>2, <2>1 DEF InventoriesInv
  <2>3. CASE Inventory!Next
    <3>1. TRUE \in BOOLEAN /\ FALSE \in BOOLEAN
      OBVIOUS
    <3> QED
      BY <2>2, <2>3, <3>1, CollectKeepsInventory, CreateCheckInKeepsInventory, CreateHealthSnapshotKeepsInventory,
         RecordUpdatesKeepsInventory, AnswerKeepsInventory, FailKeepsInventory, InstallKeepsInventory,
         PassingKeepsInventory, AskingKeepsInventory, VerifyRefreshKeepsInventory DEF Inventory!Next
  <2>4. CASE UNCHANGED inventory
    <3>1. UNCHANGED <<installed, released, cache, now, report, collected, received, snapshots, health, refresh,
                      torn, reordered, outdated>>
      BY <2>4 DEF inventory
    <3> QED
      BY <2>2, <3>1 DEF InventoryInv, InventoryTypes, InOrder, ReceivedApart, RefreshKnows, HealthFollows,
         SaysSince, Reported, Arrived, Stored, Snapshots, Offered, NeverOutdated
  <2> QED
    BY <1>2, <2>2, <2>3, <2>4 DEF Next, vars
<1> QED
  BY <1>1, <1>2

\* For any number of check-ins, versions and throttle: the dashboard shows what the site said
\* last however late a report arrives, a verified refresh shows a version the site had since
\* it was asked for, and health and inventory agree once check-ins that did not overtake each
\* other have ended (recordCheckIn, listUpdateInventory, WordPressRefreshService).
THEOREM InventoryIsSound == Spec => []InventorySound
<1>1. InventoriesInv => InventorySound
  BY InventoryFollows DEF InventoriesInv, InventorySound
<1> QED
  BY <1>1, InventoriesKept, PTL DEF Spec

--------------------------------------------------------------------------------
(* Packages.  A token that lives as long as is believed ends when that was    *)
(* noted.  A file checked against its checksum is what it was while nothing   *)
(* changes it, so every chunk read of it is, and the session that holds them. *)
(* What is recorded are the files before the one under way, at the            *)
(* destinations in their order.                                               *)

Described == {built[i] : i \in DOMAIN built}

Asked == included \cup {"readme", "manifest", "checksums"}

PackageTypes ==
    /\ included \subseteq {"files", "database"} /\ granted \in [1 .. Destinations -> StaticEnds \cup {0}]
    /\ at \in Archives!Steps /\ built \in Seq(Archives!Files)
    /\ disk \in [Archives!Files -> {"absent", "written", "changed"}]
    /\ checksum \in [Archives!Files -> {"absent", "written"}]
    /\ place \in (1 .. Destinations) \X (Nat \ {0})
    /\ bytes \in 0 .. MaxSize /\ offset \in 0 .. bytes
    /\ session \in [received : 0 .. MaxSize, intact : BOOLEAN]
    /\ remote \in [1 .. Destinations -> [Archives!Files -> {"absent", "intact", "other"}]]
    /\ saved \subseteq (1 .. Destinations) \X Archives!Files
    /\ token \in [believed : Nat, ends : Nat, brief : BOOLEAN]
    /\ minute \in Nat /\ damages \in Nat /\ late \in BOOLEAN

TokenIsGood == (~token.brief => token.ends = token.believed) /\ refused = FALSE

Uploading == at \in {"starting", "appending", "checking", "saving"}

BuiltInOrder ==
    /\ at = "building" => /\ Described \subseteq included \cup {"readme", "manifest"}
                          /\ "readme" \in Described => included \subseteq Described
                          /\ "manifest" \in Described => "readme" \in Described
    /\ at \in {"verifying", "completed"} \/ Uploading => Described = Asked
    /\ \A f \in Described : checksum[f] = "written"

NothingChanged ==
    ~late => /\ "checksums" \in Described => disk["checksums"] = "written"
             /\ Uploading => \A f \in Described : disk[f] = "written"
             /\ at \in {"appending", "checking", "saving"} => session.intact
             /\ at = "saving" => remote[place[1]][built[place[2]]] = "intact"
             /\ at = "checking" => remote[place[1]][built[place[2]]] = "intact"
             /\ \A o \in saved : remote[o[1]][o[2]] = "intact"

Before(p) == {<<d, built[i]>> : d \in 1 .. p[1] - 1, i \in 1 .. Len(built)}
             \cup {<<p[1], built[i]>> : i \in 1 .. p[2] - 1}

SavedInOrder ==
    /\ at \in {"building", "verifying"} => saved = {}
    /\ Uploading => place[2] <= Len(built) /\ saved = Before(place)
    /\ at = "completed" => saved = (1 .. Destinations) \X Asked

PackageInv == PackageTypes /\ TokenIsGood /\ BuiltInOrder /\ NothingChanged /\ SavedInOrder

LEMMA PackageFacts ==
    /\ Destinations \in Nat \ {0} /\ Chunk \in Nat \ {0} /\ MaxSize \in Nat \ {0}
    /\ Lifetimes \subseteq Nat /\ Shortest \in Nat \ {0} /\ Margin \in Nat \ {0}
    /\ Archives!NoSession \in [received : 0 .. MaxSize, intact : BOOLEAN]
    /\ Archives!NoToken \in [believed : Nat, ends : Nat, brief : BOOLEAN]
    /\ ~Archives!NoToken.brief /\ Archives!NoToken.ends = Archives!NoToken.believed
BY SiteAssumption DEF Archives!PackageAssumption, Archives!NoSession, Archives!NoToken

LEMMA DescribedAre ==
    /\ \A f : f \in Described <=> \E i \in DOMAIN built : f = built[i]
    /\ \A f : f \in Described' <=> \E i \in DOMAIN built' : f = built'[i]
BY DEF Described

\* The file under way is one of the package, and of the kinds there are.
LEMMA CurrentIsDescribed ==
    ASSUME PackageInv, Uploading
    PROVE  /\ place[1] \in 1 .. Destinations /\ place[2] \in DOMAIN built /\ Archives!Current = built[place[2]]
           /\ Archives!Current \in Described /\ Archives!Current \in Archives!Files
<1>1. place[1] \in 1 .. Destinations /\ place[2] \in Nat \ {0} /\ place[2] <= Len(built)
  BY DEF PackageInv, PackageTypes, SavedInOrder
<1>2. place[2] \in DOMAIN built /\ built[place[2]] \in Archives!Files
  BY <1>1 DEF PackageInv, PackageTypes
<1> QED
  BY <1>1, <1>2 DEF Described, Archives!Current

\* A token that is kept, or a new one, is good; one that had ended is refused for being
\* brief, or is not one that was made.
LEMMA AuthorizeKeepsTokenGood ==
    ASSUME PackageInv, Archives!Authorize, Archives!Note
    PROVE  token' \in [believed : Nat, ends : Nat, brief : BOOLEAN] /\ TokenIsGood'
<1>1. minute \in Nat /\ token \in [believed : Nat, ends : Nat, brief : BOOLEAN]
  BY DEF PackageInv, PackageTypes
<1>0. CASE Archives!Static /\ token' = token
  BY <1>0, <1>1 DEF PackageInv, TokenIsGood, Archives!Note
<1>2. CASE token' = token /\ token.believed > minute + Margin /\ ~Archives!Static
  <2>1. ~token.brief => token.ends > minute
    BY <1>1, <1>2, PackageFacts DEF PackageInv, TokenIsGood
  <2> QED
    BY <1>1, <1>2, <2>1, PackageFacts
       DEF PackageInv, TokenIsGood, Archives!Note, Archives!Accepted
<1>3. CASE ~Archives!Static /\ \E life \in Lifetimes :
              token' = [believed |-> minute + Archives!Larger(Shortest, life), ends |-> minute + life,
                        brief |-> life < Shortest]
  <2>1. PICK life \in Lifetimes :
           token' = [believed |-> minute + Archives!Larger(Shortest, life), ends |-> minute + life,
                     brief |-> life < Shortest]
    BY <1>3
  <2>2. PICK longer : longer = Archives!Larger(Shortest, life)
    OBVIOUS
  <2>3. life \in Nat /\ longer \in Nat /\ (~(life < Shortest) => longer = life /\ life > 0)
    BY <2>2, PackageFacts DEF Archives!Larger
  <2>4. token' \in [believed : Nat, ends : Nat, brief : BOOLEAN]
    BY <1>1, <2>1, <2>2, <2>3
  <2>5. token'.brief = (life < Shortest) /\ token'.ends = minute + life /\ token'.believed = minute + longer
    BY <2>1, <2>2
  <2>6. ASSUME ~token'.brief PROVE token'.ends = token'.believed /\ token'.ends > minute
    <3>1. ~ (life < Shortest)
      BY <2>5, <2>6, Zenon
    <3>2. longer = life /\ life > 0
      BY <2>3, <3>1
    <3> QED
      BY <1>1, <2>3, <2>5, <3>2
  <2> QED
    BY <2>4, <2>6 DEF PackageInv, TokenIsGood, Archives!Note, Archives!Accepted
<1> QED
  BY <1>0, <1>2, <1>3 DEF Archives!Authorize, Archives!Usable

\* A request of the upload, or the end of it: what is committed is the session, which
\* holds what the file was unless the file changed.
LEMMA UploadGoesOn ==
    ASSUME PackageInv, Uploading \/ at' = "failed",
           at' \in {"appending", "checking", "saving", "failed"},
           token' \in [believed : Nat, ends : Nat, brief : BOOLEAN], TokenIsGood',
           bytes' \in 0 .. MaxSize, offset' \in 0 .. bytes',
           session' \in [received : 0 .. MaxSize, intact : BOOLEAN],
           at' # "failed" /\ ~late => session'.intact,
           \/ remote' = remote /\ (at' \in {"checking", "saving"} => at = "checking")
           \/ /\ Uploading /\ (~late => session'.intact)
              /\ remote' = [remote EXCEPT ![place[1]][Archives!Current] = IF session'.intact THEN "intact" ELSE "other"],
           UNCHANGED <<included, granted, built, checksum, disk, damages, place, saved, minute, late>>
    PROVE  PackageInv'
<1>1. Described' = Described /\ Asked' = Asked
  BY DEF Described, Asked
<1>2. /\ remote' \in [1 .. Destinations -> [Archives!Files -> {"absent", "intact", "other"}]]
      /\ ~late => \A o \in saved : remote'[o[1]][o[2]] = "intact"
      /\ ~late /\ at' \in {"checking", "saving"} => remote'[place[1]][built[place[2]]] = "intact"
  <2>1. CASE remote' = remote /\ (at' \in {"checking", "saving"} => at = "checking")
    BY <2>1 DEF PackageInv, PackageTypes, NothingChanged
  <2>2. CASE /\ Uploading /\ (~late => session'.intact)
             /\ remote' = [remote EXCEPT ![place[1]][Archives!Current] = IF session'.intact THEN "intact" ELSE "other"]
    <3>1. PICK word : word = IF session'.intact THEN "intact" ELSE "other"
      OBVIOUS
    <3>2. PICK f : f = Archives!Current
      OBVIOUS
    <3>3. PICK d : d = place[1]
      OBVIOUS
    <3>4. d \in 1 .. Destinations /\ f \in Archives!Files /\ f = built[place[2]]
      BY <2>2, <3>2, <3>3, CurrentIsDescribed
    <3>5. word \in {"absent", "intact", "other"} /\ (~late => word = "intact")
      BY <2>2, <3>1
    <3>6. remote' = [remote EXCEPT ![d][f] = word]
      BY <2>2, <3>1, <3>2, <3>3
    <3>7. remote \in [1 .. Destinations -> [Archives!Files -> {"absent", "intact", "other"}]]
      BY DEF PackageInv, PackageTypes
    <3>8. /\ remote' \in [1 .. Destinations -> [Archives!Files -> {"absent", "intact", "other"}]]
          /\ \A e \in 1 .. Destinations, g \in Archives!Files :
                remote'[e][g] = IF e = d /\ g = f THEN word ELSE remote[e][g]
      BY <3>4, <3>5, <3>6, <3>7
    <3>9. \A o \in saved : o[1] \in 1 .. Destinations /\ o[2] \in Archives!Files
      BY DEF PackageInv, PackageTypes
    <3>10. ~late => \A o \in saved : remote'[o[1]][o[2]] = "intact"
      BY <3>5, <3>8, <3>9 DEF PackageInv, NothingChanged
    <3> QED
      BY <3>3, <3>4, <3>5, <3>8, <3>10
  <2> QED
    BY <2>1, <2>2
<1>3. PackageTypes'
  BY <1>2 DEF PackageInv, PackageTypes, Archives!Steps
<1>4. BuiltInOrder'
  BY <1>1 DEF PackageInv, BuiltInOrder, Uploading
<1>5. NothingChanged'
  BY <1>1, <1>2 DEF PackageInv, NothingChanged, Uploading
<1>6. SavedInOrder'
  <2>1. Before(place)' = Before(place)
    BY DEF Before
  <2> QED
    BY <2>1 DEF PackageInv, SavedInOrder, Uploading
<1> QED
  BY <1>3, <1>4, <1>5, <1>6 DEF PackageInv

\* Sizes of chunks: no more than is left of the file.
LEMMA ChunksFit ==
    ASSUME PackageInv
    PROVE  /\ Archives!ChunkSize(offset) \in Nat /\ offset + Archives!ChunkSize(offset) \in offset .. bytes
           /\ bytes \in 0 .. MaxSize /\ offset \in 0 .. bytes
           /\ Archives!Received(offset) \in [received : 0 .. MaxSize, intact : BOOLEAN]
           /\ (Uploading /\ ~late /\ at # "starting") => Archives!Received(offset).intact
<1>1. bytes \in 0 .. MaxSize /\ offset \in 0 .. bytes /\ session \in [received : 0 .. MaxSize, intact : BOOLEAN]
  BY DEF PackageInv, PackageTypes
<1>2. Archives!ChunkSize(offset) \in Nat /\ offset + Archives!ChunkSize(offset) \in offset .. bytes
  BY <1>1, PackageFacts DEF Archives!ChunkSize
<1>3. PICK received_ : received_ = offset + Archives!ChunkSize(offset)
  OBVIOUS
<1>4. PICK whole : whole = (session.intact /\ Archives!ReadChunk(offset))
  OBVIOUS
<1>5. received_ \in 0 .. MaxSize /\ whole \in BOOLEAN
  BY <1>1, <1>2, <1>3, <1>4, PackageFacts
<1>6. Archives!Received(offset) = [received |-> received_, intact |-> whole]
  BY <1>3, <1>4 DEF Archives!Received
<1>7. ASSUME Uploading, ~late, at # "starting" PROVE whole
  <2>1. disk[Archives!Current] = "written"
    BY <1>7, CurrentIsDescribed DEF PackageInv, NothingChanged
  <2>2. session.intact
    BY <1>7 DEF PackageInv, NothingChanged, Uploading
  <2> QED
    BY <1>4, <2>1, <2>2 DEF Archives!ReadChunk
<1> QED
  BY <1>1, <1>2, <1>5, <1>6, <1>7

LEMMA StartUploadKeepsPackage == PackageInv /\ Archives!StartUpload => PackageInv'
<1>1. SUFFICES ASSUME PackageInv, Archives!StartUpload PROVE PackageInv'
  OBVIOUS
<1>2. /\ at = "starting" /\ Archives!Authorize /\ Archives!Note /\ at' \in {"appending", "failed"}
      /\ UNCHANGED <<included, granted, built, checksum, disk, damages, place, remote, saved, minute, late>>
  BY <1>1 DEF Archives!StartUpload, Archives!package, Archives!disks
<1>3. PICK b \in 1 .. MaxSize : /\ bytes' = b /\ offset' = IF b < Chunk THEN b ELSE Chunk
                                /\ session' = [received |-> offset', intact |-> Archives!ReadChunk(0)]
  BY <1>1 DEF Archives!StartUpload
<1>4. bytes' \in 0 .. MaxSize /\ offset' \in 0 .. bytes'
  BY <1>3, PackageFacts
<1>5. PICK whole : whole = Archives!ReadChunk(0)
  OBVIOUS
<1>6. whole \in BOOLEAN /\ (~late => whole)
  BY <1>1, <1>2, <1>5, CurrentIsDescribed DEF Uploading, Archives!ReadChunk, PackageInv, NothingChanged
<1>7. session' \in [received : 0 .. MaxSize, intact : BOOLEAN] /\ (~late => session'.intact)
  BY <1>3, <1>4, <1>5, <1>6, PackageFacts
<1>8. token' \in [believed : Nat, ends : Nat, brief : BOOLEAN] /\ TokenIsGood'
  BY <1>1, <1>2, AuthorizeKeepsTokenGood
<1>9. remote' = remote /\ (at' \in {"checking", "saving"} => at = "checking")
  BY <1>2
<1>10. Uploading
  BY <1>2 DEF Uploading
<1>11. UNCHANGED <<included, granted, built, checksum, disk, damages, place, saved, minute, late>>
  BY <1>2
<1>12. at' \in {"appending", "checking", "saving", "failed"}
  BY <1>2
<1> QED
  BY <1>1, <1>4, <1>7, <1>8, <1>9, <1>10, <1>11, <1>12, UploadGoesOn

\* Chunks that are appended, and a file that is finished, end in a request that was
\* accepted or fail the package.
LEMMA RequestKeepsPackage ==
    ASSUME PackageInv, at \in {"appending", "checking"}, Archives!Authorize, Archives!Note,
           at' \in {"appending", "checking", "saving", "failed"},
           UNCHANGED <<included, granted, built, checksum, disk, damages, place, bytes, saved, minute, late>>,
           session' \in {session, Archives!Received(offset)}, offset' \in {offset, offset + Archives!ChunkSize(offset), bytes},
           \/ remote' = remote /\ (at' \in {"checking", "saving"} => at = "checking")
           \/ remote' = [remote EXCEPT ![place[1]][Archives!Current] = IF session'.intact THEN "intact" ELSE "other"]
    PROVE  PackageInv'
<1>1. bytes' \in 0 .. MaxSize /\ offset' \in 0 .. bytes'
  BY ChunksFit, PackageFacts
<1>2. session' \in [received : 0 .. MaxSize, intact : BOOLEAN]
  BY ChunksFit DEF PackageInv, PackageTypes
<1>3. Uploading
  BY DEF Uploading
<1>4. ~late => session'.intact
  BY <1>3, ChunksFit DEF PackageInv, NothingChanged
<1>5. token' \in [believed : Nat, ends : Nat, brief : BOOLEAN] /\ TokenIsGood'
  BY AuthorizeKeepsTokenGood
<1>6. UNCHANGED <<included, granted, built, checksum, disk, damages, place, saved, minute, late>>
  OBVIOUS
<1> QED
  BY <1>1, <1>2, <1>3, <1>4, <1>5, <1>6, UploadGoesOn

LEMMA UploadingKeepsPackage ==
    PackageInv /\ (Archives!AppendChunk \/ Archives!FinishLast \/ Archives!FinishOnly \/ Archives!GetMetadata)
        => PackageInv'
<1>1. SUFFICES ASSUME PackageInv,
                      Archives!AppendChunk \/ Archives!FinishLast \/ Archives!FinishOnly \/ Archives!GetMetadata
               PROVE  PackageInv'
  OBVIOUS
<1>2. /\ at \in {"appending", "checking"} /\ Archives!Authorize /\ Archives!Note
      /\ at' \in {"appending", "checking", "saving", "failed"}
      /\ UNCHANGED <<included, granted, built, checksum, disk, damages, place, bytes, saved, minute, late>>
  BY <1>1 DEF Archives!AppendChunk, Archives!FinishLast, Archives!FinishOnly, Archives!GetMetadata,
     Archives!Appending, Archives!Fail, Archives!package, Archives!disks, Archives!upload
<1>3. /\ session' \in {session, Archives!Received(offset)}
      /\ offset' \in {offset, offset + Archives!ChunkSize(offset), bytes}
  BY <1>1 DEF Archives!AppendChunk, Archives!FinishLast, Archives!FinishOnly, Archives!GetMetadata,
     Archives!Commit, Archives!Fail, Archives!upload
<1>4. \/ remote' = remote /\ (at' \in {"checking", "saving"} => at = "checking")
      \/ remote' = [remote EXCEPT ![place[1]][Archives!Current] = IF session'.intact THEN "intact" ELSE "other"]
  BY <1>1 DEF Archives!AppendChunk, Archives!FinishLast, Archives!FinishOnly, Archives!GetMetadata,
     Archives!Appending, Archives!Commit, Archives!Fail
<1> QED
  BY <1>1, <1>2, <1>3, <1>4, RequestKeepsPackage

LEMMA FailPackageKeepsPackage == PackageInv /\ Archives!FailPackage => PackageInv'
<1>1. SUFFICES ASSUME PackageInv, Archives!FailPackage PROVE PackageInv'
  OBVIOUS
<1>2. /\ at' = "failed" /\ at' \in {"appending", "checking", "saving", "failed"}
      /\ UNCHANGED <<included, granted, built, checksum, disk, damages, place, saved, minute, late>>
      /\ bytes' = bytes /\ offset' = offset /\ token' = token /\ refused' = refused
  BY <1>1 DEF Archives!FailPackage, Archives!package, Archives!disks
<1>3. /\ token' \in [believed : Nat, ends : Nat, brief : BOOLEAN] /\ TokenIsGood'
      /\ bytes' \in 0 .. MaxSize /\ offset' \in 0 .. bytes'
  BY <1>1, <1>2 DEF PackageInv, PackageTypes, TokenIsGood
<1>4. CASE UNCHANGED <<remote, session>>
  <2>1. session' \in [received : 0 .. MaxSize, intact : BOOLEAN]
    BY <1>1, <1>4 DEF PackageInv, PackageTypes
  <2>2. remote' = remote /\ (at' \in {"checking", "saving"} => at = "checking")
    BY <1>2, <1>4
  <2> QED
    BY <1>1, <1>2, <1>3, <2>1, <2>2, UploadGoesOn
<1>5. CASE at = "appending" /\ Archives!Commit(Archives!Received(offset))
  <2>1. Uploading
    BY <1>5 DEF Uploading
  <2>2. /\ session' = Archives!Received(offset)
        /\ remote' = [remote EXCEPT ![place[1]][Archives!Current] = IF session'.intact THEN "intact" ELSE "other"]
    BY <1>5 DEF Archives!Commit
  <2>3. session' \in [received : 0 .. MaxSize, intact : BOOLEAN] /\ (~late => session'.intact)
    BY <1>1, <1>5, <2>1, <2>2, ChunksFit
  <2> QED
    BY <1>1, <1>2, <1>3, <2>1, <2>2, <2>3, UploadGoesOn
<1> QED
  BY <1>1, <1>4, <1>5 DEF Archives!FailPackage

LEMMA DescribeKeepsPackage == PackageInv /\ Archives!Describe => PackageInv'
<1>1. SUFFICES ASSUME PackageInv, Archives!Describe PROVE PackageInv'
  OBVIOUS
<1>2. PICK f \in Archives!Following(Described) :
         /\ built' = Append(built, f) /\ disk' = [disk EXCEPT ![f] = "written"]
         /\ checksum' = [checksum EXCEPT ![f] = "written"]
         /\ at' = IF f = "checksums" THEN "verifying" ELSE at
  BY <1>1 DEF Archives!Describe, Described
<1>3. /\ at = "building"
      /\ UNCHANGED <<included, granted, place, bytes, offset, session, remote, saved, token, minute, damages, late, refused>>
  BY <1>1 DEF Archives!Describe, Archives!upload
<1>4. f \in Archives!Files
  BY <1>1, <1>2 DEF Archives!Following, Archives!Files, PackageInv, PackageTypes
<1>5. /\ built \in Seq(Archives!Files) /\ disk \in [Archives!Files -> {"absent", "written", "changed"}]
      /\ checksum \in [Archives!Files -> {"absent", "written"}]
  BY <1>1 DEF PackageInv, PackageTypes
<1>6. \A g : g \in Described' <=> g \in Described \/ g = f
  <2>1. /\ built' \in Seq(Archives!Files) /\ Len(built') = Len(built) + 1 /\ Len(built) \in Nat
        /\ DOMAIN built' = 1 .. Len(built) + 1 /\ DOMAIN built = 1 .. Len(built)
        /\ built'[Len(built) + 1] = f
        /\ \A i \in 1 .. Len(built) : built'[i] = built[i]
    BY <1>2, <1>4, <1>5
  <2>2. ASSUME NEW g \in Described' PROVE g \in Described \/ g = f
    <3>1. PICK i \in DOMAIN built' : g = built'[i]
      BY <2>2, DescribedAre
    <3>2. i \in 1 .. Len(built) \/ i = Len(built) + 1
      BY <2>1, <3>1
    <3> QED
      BY <2>1, <3>1, <3>2, DescribedAre
  <2>3. ASSUME NEW g \in Described PROVE g \in Described'
    <3>1. PICK i \in DOMAIN built : g = built[i]
      BY <2>3, DescribedAre
    <3>2. i \in DOMAIN built' /\ g = built'[i]
      BY <2>1, <3>1
    <3> QED
      BY <3>2, DescribedAre
  <2>4. f \in Described'
    <3>1. Len(built) + 1 \in DOMAIN built' /\ f = built'[Len(built) + 1]
      BY <2>1
    <3> QED
      BY <3>1, DescribedAre
  <2> QED
    BY <2>2, <2>3, <2>4
<1>7. /\ built' \in Seq(Archives!Files)
      /\ disk' \in [Archives!Files -> {"absent", "written", "changed"}]
      /\ checksum' \in [Archives!Files -> {"absent", "written"}]
      /\ disk'[f] = "written" /\ checksum'[f] = "written"
      /\ \A g \in Archives!Files \ {f} : disk'[g] = disk[g] /\ checksum'[g] = checksum[g]
  BY <1>2, <1>4, <1>5
<1>8. at' \in {"building", "verifying"} /\ (at' = "verifying" <=> f = "checksums")
  BY <1>2, <1>3
<1>9. PackageTypes'
  BY <1>1, <1>3, <1>7, <1>8 DEF PackageInv, PackageTypes, Archives!Steps
<1>10. TokenIsGood'
  BY <1>1, <1>3 DEF PackageInv, TokenIsGood
<1>11. /\ Described \subseteq included \cup {"readme", "manifest"}
       /\ "readme" \in Described => included \subseteq Described
       /\ "manifest" \in Described => "readme" \in Described
       /\ included \subseteq {"files", "database"} /\ Described \subseteq Archives!Files
  BY <1>1, <1>3 DEF PackageInv, PackageTypes, BuiltInOrder, Archives!Files
<1>12. BuiltInOrder'
  <2>1. \A g \in Described' : checksum'[g] = "written"
    BY <1>1, <1>6, <1>7, <1>11 DEF PackageInv, BuiltInOrder
  <2>2. CASE f = "checksums"
    <3>1. included \subseteq Described /\ "readme" \in Described /\ "manifest" \in Described
      BY <1>2, <1>11, <2>2 DEF Archives!Following
    <3>2. \A g : g \in Described' <=> g \in Asked'
      BY <1>3, <1>6, <1>11, <2>2, <3>1 DEF Asked
    <3>3. Described' = Asked'
      BY <3>2
    <3> QED
      BY <1>8, <2>1, <2>2, <3>3 DEF BuiltInOrder, Uploading
  <2>3. CASE f # "checksums"
    <3>1. /\ f \in included \cup {"readme", "manifest"}
          /\ f = "readme" => included \subseteq Described
          /\ f = "manifest" => "readme" \in Described
      BY <1>2, <1>11, <2>3 DEF Archives!Following
    <3>2. /\ Described' \subseteq included' \cup {"readme", "manifest"}
          /\ "readme" \in Described' => included' \subseteq Described'
          /\ "manifest" \in Described' => "readme" \in Described'
      BY <1>3, <1>6, <1>11, <3>1
    <3> QED
      BY <1>8, <2>1, <2>3, <3>2 DEF BuiltInOrder, Uploading
  <2> QED
    BY <2>2, <2>3
<1>13. NothingChanged'
  <2>1. "checksums" \notin Described
    BY <1>11
  <2>2. "checksums" \in Described' => disk'["checksums"] = "written"
    BY <1>6, <1>7, <2>1
  <2> QED
    BY <1>1, <1>3, <1>8, <2>2 DEF PackageInv, NothingChanged, Uploading
<1>14. SavedInOrder'
  BY <1>1, <1>3, <1>8 DEF PackageInv, SavedInOrder, Uploading
<1> QED
  BY <1>9, <1>10, <1>12, <1>13, <1>14 DEF PackageInv

LEMMA VerifyChecksumsKeepsPackage == PackageInv /\ Archives!VerifyChecksums => PackageInv'
<1>1. SUFFICES ASSUME PackageInv, Archives!VerifyChecksums PROVE PackageInv'
  OBVIOUS
<1>2. /\ at = "verifying" /\ at' = IF Archives!ChecksumsAgree THEN "starting" ELSE "failed"
      /\ place' = <<1, 1>>
      /\ UNCHANGED <<included, granted, built, checksum, disk, damages, bytes, offset, session, remote, saved, token,
                     minute, late, refused>>
  BY <1>1 DEF Archives!VerifyChecksums, Archives!package, Archives!disks
<1>3. Described' = Described /\ Asked' = Asked
  BY <1>2 DEF Described, Asked
<1>4. PackageTypes'
  BY <1>1, <1>2, PackageFacts DEF PackageInv, PackageTypes, Archives!Steps
<1>5. TokenIsGood'
  BY <1>1, <1>2 DEF PackageInv, TokenIsGood
<1>6. Described = Asked
  BY <1>1, <1>2 DEF PackageInv, BuiltInOrder
<1>7. BuiltInOrder'
  BY <1>1, <1>2, <1>3, <1>6 DEF PackageInv, BuiltInOrder, Uploading
<1>8. at' = "starting" => \A f \in Described \ {"checksums"} : disk[f] = "written"
  BY <1>1, <1>2 DEF Archives!ChecksumsAgree, Described, PackageInv, BuiltInOrder
<1>9. NothingChanged'
  BY <1>1, <1>2, <1>3, <1>8 DEF PackageInv, NothingChanged, Uploading
<1>10. SavedInOrder'
  <2>1. saved = {} /\ place'[1] = 1 /\ place'[2] = 1
    BY <1>1, <1>2 DEF PackageInv, SavedInOrder
  <2>2. Before(place)' = {}
    BY <2>1 DEF Before
  <2>3. "checksums" \in Described
    BY <1>6 DEF Asked
  <2>4. Len(built) \in Nat /\ DOMAIN built = 1 .. Len(built) /\ built # <<>>
    BY <1>1, <2>3 DEF PackageInv, PackageTypes, Described
  <2>5. 1 <= Len(built)
    BY <2>3, <2>4, DescribedAre
  <2> QED
    BY <1>2, <2>1, <2>2, <2>5 DEF SavedInOrder, Uploading
<1> QED
  BY <1>4, <1>5, <1>7, <1>9, <1>10 DEF PackageInv

\* A file changes; once nothing checks it any more, that is noted.
LEMMA ChangeFileKeepsPackage == PackageInv /\ Archives!ChangeFile => PackageInv'
<1>1. SUFFICES ASSUME PackageInv, Archives!ChangeFile PROVE PackageInv'
  OBVIOUS
<1>2. PICK f \in Archives!Files :
         /\ disk' = [disk EXCEPT ![f] = "changed"]
         /\ late' = (late \/ at \notin {"building", "verifying"} \/ f = "checksums")
  BY <1>1 DEF Archives!ChangeFile
<1>3. /\ at \notin {"completed", "failed"} /\ damages' = damages + 1
      /\ UNCHANGED <<at, included, granted, built, checksum, place, bytes, offset, session, remote, saved, token,
                     minute, refused>>
  BY <1>1 DEF Archives!ChangeFile, Archives!package, Archives!upload
<1>4. /\ disk' \in [Archives!Files -> {"absent", "written", "changed"}]
      /\ \A g \in Archives!Files \ {f} : disk'[g] = disk[g]
  BY <1>1, <1>2 DEF PackageInv, PackageTypes
<1>5. Described' = Described /\ Asked' = Asked /\ Before(place)' = Before(place)
  BY <1>3 DEF Described, Asked, Before
<1>6. PackageTypes'
  BY <1>1, <1>2, <1>3, <1>4 DEF PackageInv, PackageTypes
<1>7. TokenIsGood'
  BY <1>1, <1>3 DEF PackageInv, TokenIsGood
<1>8. BuiltInOrder'
  BY <1>1, <1>3, <1>5 DEF PackageInv, BuiltInOrder, Uploading
<1>9. NothingChanged'
  <2>1. ASSUME ~late' PROVE ~late /\ at \in {"building", "verifying"} /\ f # "checksums"
    BY <1>2, <2>1, Zenon
  <2>2. "checksums" \in Archives!Files
    BY DEF Archives!Files
  <2> QED
    BY <1>1, <1>3, <1>4, <1>5, <2>1, <2>2 DEF PackageInv, NothingChanged, Uploading
<1>10. SavedInOrder'
  BY <1>1, <1>3, <1>5 DEF PackageInv, SavedInOrder, Uploading
<1> QED
  BY <1>6, <1>7, <1>8, <1>9, <1>10 DEF PackageInv

LEMMA TimePassesKeepsPackage == PackageInv /\ Archives!TimePasses => PackageInv'
<1>1. SUFFICES ASSUME PackageInv, Archives!TimePasses PROVE PackageInv'
  OBVIOUS
<1>2. /\ minute' = minute + 1
      /\ UNCHANGED <<at, included, granted, built, checksum, disk, damages, place, bytes, offset, session, remote, saved,
                     token, late, refused>>
  BY <1>1 DEF Archives!TimePasses, Archives!package, Archives!upload, Archives!disks
<1>3. Described' = Described /\ Asked' = Asked /\ Before(place)' = Before(place)
  BY <1>2 DEF Described, Asked, Before
<1>4. PackageTypes'
  BY <1>1, <1>2 DEF PackageInv, PackageTypes
<1> QED
  BY <1>1, <1>2, <1>3, <1>4
     DEF PackageInv, TokenIsGood, BuiltInOrder, NothingChanged, SavedInOrder, Uploading

LEMMA SaveObjectKeepsPackage == PackageInv /\ Archives!SaveObject => PackageInv'
<1>1. SUFFICES ASSUME PackageInv, Archives!SaveObject PROVE PackageInv'
  OBVIOUS
<1>2. /\ at = "saving"
      /\ saved' = saved \cup {<<place[1], Archives!Current>>}
      /\ \/ place[2] < Len(built) /\ place' = <<place[1], place[2] + 1>> /\ at' = "starting"
         \/ place[2] = Len(built) /\ place[1] < Destinations /\ place' = <<place[1] + 1, 1>> /\ at' = "starting"
         \/ place = <<Destinations, Len(built)>> /\ at' = "completed" /\ place' = place
      /\ token' = IF place'[1] = place[1] THEN token ELSE Archives!NoToken
      /\ bytes' = 0 /\ offset' = 0 /\ session' = Archives!NoSession
      /\ UNCHANGED <<included, granted, built, checksum, disk, damages, remote, minute, late, refused>>
  BY <1>1 DEF Archives!SaveObject, Archives!package, Archives!disks
<1>3. PICK d, j : d = place[1] /\ j = place[2]
  OBVIOUS
<1>4. /\ Uploading /\ d \in 1 .. Destinations /\ j \in DOMAIN built /\ Archives!Current = built[j]
      /\ built[j] \in Archives!Files
  BY <1>1, <1>2, <1>3, CurrentIsDescribed DEF Uploading
<1>5. /\ built \in Seq(Archives!Files) /\ Len(built) \in Nat /\ DOMAIN built = 1 .. Len(built)
      /\ place \in (1 .. Destinations) \X (Nat \ {0}) /\ j \in 1 .. Len(built)
  BY <1>1, <1>4 DEF PackageInv, PackageTypes
<1>6. Described' = Described /\ Asked' = Asked /\ Described = Asked
  BY <1>1, <1>2, <1>4 DEF Described, Asked, PackageInv, BuiltInOrder
<1>7. place' \in (1 .. Destinations) \X (Nat \ {0}) /\ at' \in {"starting", "completed"}
  BY <1>2, <1>3, <1>4, <1>5, PackageFacts
<1>8. saved' \subseteq (1 .. Destinations) \X Archives!Files
  BY <1>1, <1>2, <1>3, <1>4 DEF PackageInv, PackageTypes
<1>9. token' \in [believed : Nat, ends : Nat, brief : BOOLEAN]
  BY <1>1, <1>2, PackageFacts DEF PackageInv, PackageTypes
<1>10. PackageTypes'
  BY <1>1, <1>2, <1>7, <1>8, <1>9, PackageFacts DEF PackageInv, PackageTypes, Archives!Steps
<1>11. TokenIsGood'
  BY <1>1, <1>2, PackageFacts DEF PackageInv, TokenIsGood
<1>12. BuiltInOrder'
  BY <1>1, <1>2, <1>6, <1>7 DEF PackageInv, BuiltInOrder, Uploading
<1>13. NothingChanged'
  <2>1. ~late => \A o \in saved' : remote[o[1]][o[2]] = "intact"
    BY <1>1, <1>2, <1>3, <1>4 DEF PackageInv, NothingChanged
  <2> QED
    BY <1>1, <1>2, <1>4, <1>6, <1>7, <2>1 DEF PackageInv, NothingChanged, Uploading
<1>14. saved = Before(place)
  BY <1>1, <1>4 DEF PackageInv, SavedInOrder
<1>15. \A o : o \in saved' <=>
          \/ \E e \in 1 .. d - 1, i \in 1 .. Len(built) : o = <<e, built[i]>>
          \/ \E i \in 1 .. j : o = <<d, built[i]>>
  <2>1. \A o : o \in saved <=>
           \/ \E e \in 1 .. d - 1, i \in 1 .. Len(built) : o = <<e, built[i]>>
           \/ \E i \in 1 .. j - 1 : o = <<d, built[i]>>
    BY <1>3, <1>14 DEF Before
  <2>2. \A i : i \in 1 .. j <=> i \in 1 .. j - 1 \/ i = j
    BY <1>5
  <2> QED
    BY <1>2, <1>3, <1>4, <2>1, <2>2
<1>16. SavedInOrder'
  <2>1. CASE place[2] < Len(built) /\ place' = <<place[1], place[2] + 1>> /\ at' = "starting"
    <3>1. place'[1] = d /\ place'[2] = j + 1 /\ j + 1 <= Len(built) /\ place'[2] - 1 = j
      BY <1>3, <1>5, <2>1
    <3>2. \A o : o \in Before(place)' <=>
             \/ \E e \in 1 .. d - 1, i \in 1 .. Len(built) : o = <<e, built[i]>>
             \/ \E i \in 1 .. j : o = <<d, built[i]>>
      BY <1>2, <3>1 DEF Before
    <3>3. saved' = Before(place)'
      BY <1>15, <3>2
    <3> QED
      BY <1>2, <2>1, <3>1, <3>3 DEF SavedInOrder, Uploading
  <2>2. CASE place[2] = Len(built) /\ place[1] < Destinations /\ place' = <<place[1] + 1, 1>> /\ at' = "starting"
    <3>1. /\ place'[1] = d + 1 /\ place'[2] = 1 /\ 1 <= Len(built) /\ j = Len(built)
          /\ 1 .. place'[2] - 1 = {} /\ place'[1] - 1 = d
      BY <1>3, <1>4, <1>5, <2>2
    <3>2. \A o : o \in Before(place)' <=> \E e \in 1 .. d, i \in 1 .. Len(built) : o = <<e, built[i]>>
      BY <1>2, <3>1 DEF Before
    <3>3. \A e : e \in 1 .. d <=> e \in 1 .. d - 1 \/ e = d
      BY <1>4
    <3>4. \A o : o \in saved' <=> o \in Before(place)'
      <4>1. ASSUME NEW o \in saved' PROVE o \in Before(place)'
        <5>1. CASE \E e \in 1 .. d - 1, i \in 1 .. Len(built) : o = <<e, built[i]>>
          BY <3>2, <3>3, <5>1
        <5>2. CASE \E i \in 1 .. j : o = <<d, built[i]>>
          <6>1. d \in 1 .. d /\ j = Len(built)
            BY <1>4, <3>1
          <6> QED
            BY <3>2, <5>2, <6>1
        <5> QED
          BY <1>15, <4>1, <5>1, <5>2
      <4>2. ASSUME NEW o \in Before(place)' PROVE o \in saved'
        <5>1. PICK e \in 1 .. d, i \in 1 .. Len(built) : o = <<e, built[i]>>
          BY <3>2
        <5>2. CASE e = d
          BY <1>15, <3>1, <5>1, <5>2
        <5>3. CASE e \in 1 .. d - 1
          BY <1>15, <5>1, <5>3
        <5> QED
          BY <3>3, <5>1, <5>2, <5>3
      <4> QED
        BY <4>1, <4>2
    <3>5. saved' = Before(place)'
      BY <3>4
    <3> QED
      BY <1>2, <2>2, <3>1, <3>5 DEF SavedInOrder, Uploading
  <2>3. CASE place = <<Destinations, Len(built)>> /\ at' = "completed" /\ place' = place
    <3>1. d = Destinations /\ j = Len(built)
      BY <1>3, <2>3
    <3>2. \A e : e \in 1 .. Destinations <=> e \in 1 .. d - 1 \/ e = d
      BY <1>4, <3>1
    <3>3. \A o : o \in saved' <=> o \in (1 .. Destinations) \X Described
      <4>1. ASSUME NEW o \in saved' PROVE \E e \in 1 .. Destinations, i \in 1 .. Len(built) : o = <<e, built[i]>>
        <5>1. CASE \E e \in 1 .. d - 1, i \in 1 .. Len(built) : o = <<e, built[i]>>
          BY <3>2, <5>1
        <5>2. CASE \E i \in 1 .. j : o = <<d, built[i]>>
          <6>1. d \in 1 .. Destinations /\ j = Len(built)
            BY <1>4, <3>1
          <6> QED
            BY <5>2, <6>1
        <5> QED
          BY <1>15, <4>1, <5>1, <5>2
      <4>2. ASSUME NEW e \in 1 .. Destinations, NEW i \in 1 .. Len(built), NEW o, o = <<e, built[i]>> PROVE o \in saved'
        <5>1. CASE e = d
          BY <1>15, <3>1, <4>2, <5>1
        <5>2. CASE e \in 1 .. d - 1
          BY <1>15, <4>2, <5>2
        <5> QED
          BY <3>2, <5>1, <5>2
      <4>3. \A o : o \in saved' <=> \E e \in 1 .. Destinations, i \in 1 .. Len(built) : o = <<e, built[i]>>
        BY <4>1, <4>2
      <4> QED
        BY <1>5, <4>3, DescribedAre
    <3>4. saved' = (1 .. Destinations) \X Asked'
      BY <1>6, <3>3
    <3> QED
      BY <2>3, <3>4 DEF SavedInOrder, Uploading
  <2> QED
    BY <1>2, <2>1, <2>2, <2>3
<1> QED
  BY <1>10, <1>11, <1>12, <1>13, <1>16 DEF PackageInv

LEMMA PackageFollows == PackageInv => Archives!PackageSound
<1>1. SUFFICES ASSUME PackageInv PROVE Archives!PackageSound
  OBVIOUS
<1>2. Archives!ArchiveTypeOK
  BY <1>1, PackageFacts DEF PackageInv, PackageTypes, Archives!ArchiveTypeOK, Archives!Files, Archives!Refreshes
<1>3. Archives!RecordedIsWhole
  BY <1>1 DEF PackageInv, NothingChanged, Archives!RecordedIsWhole
<1>4. Archives!CompletedEverywhere
  <2>1. Asked = included \cup (Archives!Files \ {"files", "database"})
    BY DEF Asked, Archives!Files
  <2> QED
    BY <1>1, <2>1 DEF PackageInv, SavedInOrder, Archives!CompletedEverywhere
<1>5. Archives!TokensAreGood
  BY <1>1 DEF PackageInv, TokenIsGood, Archives!TokensAreGood
<1> QED
  BY <1>2, <1>3, <1>4, <1>5 DEF Archives!PackageSound

LEMMA PackageStarts == Archives!Init => PackageInv
<1>1. SUFFICES ASSUME Archives!Init PROVE PackageInv
  OBVIOUS
<1>2. Described = {}
  BY <1>1 DEF Archives!Init, Described
<1>3. PackageTypes
  <2>1. /\ included \subseteq {"files", "database"} /\ granted \in [1 .. Destinations -> StaticEnds \cup {0}]
        /\ at \in Archives!Steps /\ built \in Seq(Archives!Files)
    BY <1>1 DEF Archives!Init, Archives!Steps, Archives!Refreshes
  <2>2. /\ disk \in [Archives!Files -> {"absent", "written", "changed"}]
        /\ checksum \in [Archives!Files -> {"absent", "written"}]
        /\ remote \in [1 .. Destinations -> [Archives!Files -> {"absent", "intact", "other"}]]
    BY <1>1 DEF Archives!Init
  <2>3. /\ session \in [received : 0 .. MaxSize, intact : BOOLEAN]
        /\ token \in [believed : Nat, ends : Nat, brief : BOOLEAN]
    BY <1>1, PackageFacts DEF Archives!Init
  <2>4. place = <<1, 1>> /\ bytes = 0 /\ offset = 0 /\ saved = {} /\ minute = 0 /\ damages = 0 /\ late = FALSE
    BY <1>1 DEF Archives!Init
  <2>5. place \in (1 .. Destinations) \X (Nat \ {0}) /\ bytes \in 0 .. MaxSize /\ offset \in 0 .. bytes
    BY <2>4, PackageFacts
  <2> QED
    BY <2>1, <2>2, <2>3, <2>4, <2>5 DEF PackageTypes
<1>4. TokenIsGood
  BY <1>1, PackageFacts DEF Archives!Init, TokenIsGood
<1>5. BuiltInOrder /\ NothingChanged /\ SavedInOrder
  BY <1>1, <1>2 DEF Archives!Init, BuiltInOrder, NothingChanged, SavedInOrder, Uploading
<1> QED
  BY <1>3, <1>4, <1>5 DEF PackageInv

PackagesInv == part = "archives" => PackageInv

LEMMA PackagesKept == (Init => PackagesInv) /\ (PackagesInv /\ [Next]_vars => PackagesInv')
<1>1. Init => PackagesInv
  BY PackageStarts DEF Init, PackagesInv
<1>2. ASSUME PackagesInv, [Next]_vars PROVE PackagesInv'
  <2>1. part' = part
    BY <1>2 DEF Next, vars
  <2>2. SUFFICES ASSUME part = "archives", PackageInv PROVE PackageInv'
    BY <1>2, <2>1 DEF PackagesInv
  <2>3. CASE Archives!Next
    BY <2>2, <2>3, DescribeKeepsPackage, VerifyChecksumsKeepsPackage, StartUploadKeepsPackage,
       UploadingKeepsPackage, SaveObjectKeepsPackage, FailPackageKeepsPackage, ChangeFileKeepsPackage,
       TimePassesKeepsPackage DEF Archives!Next
  <2>4. CASE UNCHANGED archives
    <3>1. UNCHANGED <<included, granted, at, built, disk, checksum, place, bytes, offset, session, remote, saved, token,
                      minute, damages, late, refused>>
      BY <2>4 DEF archives
    <3>2. UNCHANGED <<Described, Asked, Before(place)>>
      BY <3>1 DEF Described, Asked, Before
    <3> QED
      BY <2>2, <3>1, <3>2
         DEF PackageInv, PackageTypes, TokenIsGood, BuiltInOrder, NothingChanged, SavedInOrder, Uploading
  <2> QED
    BY <1>2, <2>2, <2>3, <2>4 DEF Next, vars
<1> QED
  BY <1>1, <1>2

\* For any files of any size, chunks and destinations: what is recorded as verified has what
\* its checksum was taken of, unless the file changed since, a completed package is all that
\* was asked for at every destination, and one with a refresh token gets no request with an
\* access token that has ended, whichever destinations have a static one instead
\* (buildBackup, verifyBuiltArtifacts, DropboxBackupProvider, uploadArtifacts).
THEOREM BackupPackagesAreSound == Spec => []PackageSound
<1>1. PackagesInv => PackageSound
  BY PackageFollows DEF PackagesInv, PackageSound
<1> QED
  BY <1>1, PackagesKept, PTL DEF Spec

--------------------------------------------------------------------------------
(* Credentials.  Of a site's credentials one is active at most and one        *)
(* pending.  In an era, from what an administrator pasted while no request    *)
(* was under way, the plugin signs with the active one, or with the pending   *)
(* one and keeps the active one; the offers under way are of the credential   *)
(* made last.  Outside an era every secret that is in use was revoked.        *)

Made(i) == i \in Keys!Ids /\ state[i] # "none"

KeysTyped ==
    /\ state \in [Keys!Ids -> Keys!States] /\ expired \subseteq Keys!Ids
    /\ connection \in Keys!Connection /\ plugin \in Keys!Plugin /\ request \in [Actors -> Keys!Call]
    /\ sent \in 0 .. MaxRequests
    /\ admin \in [at : {"idle", "revoking"}, did : {"revoked", "issued", "pasted"},
                  shown : Keys!Ids \cup {0}, due : BOOLEAN]
    /\ crossed \in BOOLEAN
    /\ \A c \in Actors : request[c].at = "idle" => request[c] = Keys!IdleCall

OneOfEach ==
    \A i, j \in Keys!Ids : state[i] = state[j] /\ state[i] \in {"active", "pending"} => i = j

SecretsWereMade ==
    /\ plugin.secret # 0 => Made(plugin.secret)
    /\ plugin.previous # 0 => Made(plugin.previous)
    /\ admin.did = "issued" => admin.shown # 0 /\ Made(admin.shown)
    /\ \A c \in Actors : /\ request[c].at # "idle" => Made(request[c].secret)
                         /\ request[c].fallback # 0 => Made(request[c].fallback)
                         /\ request[c].offer # 0 => Made(request[c].offer)

WasRevoked(i) == i = 0 \/ state[i] = "revoked"

\* Nothing is accepted but what the administrator holds, and no request is.
BetweenEras ==
    /\ WasRevoked(plugin.secret) /\ WasRevoked(plugin.previous)
    /\ \A c \in Actors : /\ request[c].at \in {"idle", "sent"}
                         /\ WasRevoked(request[c].secret) /\ WasRevoked(request[c].fallback)
    /\ \A i \in Keys!Ids : \/ state[i] \in {"none", "revoked"}
                           \/ admin.did = "issued" /\ i = admin.shown /\ state[i] = "active"
    /\ admin.did = "issued" => state[admin.shown] = "active"
    /\ admin.did = "revoked" => connection.status \in {"none", "revoked"}

\* The active one, or the pending one beside the active one.
Holds == \/ plugin.secret # 0 /\ state[plugin.secret] = "active"
         \/ /\ plugin.secret # 0 /\ state[plugin.secret] = "pending"
            /\ plugin.previous # 0 /\ state[plugin.previous] = "active"

InEra ==
    /\ Holds
    /\ plugin.previous # 0 => state[plugin.previous] # "pending"
    /\ \A c \in Actors :
          /\ request[c].secret # 0 /\ state[request[c].secret] = "pending" => request[c].secret = plugin.secret
          /\ request[c].fallback # 0 => state[request[c].fallback] # "pending"
          /\ request[c].offer # 0 => \/ state[request[c].offer] = "pending"
                                     \/ /\ state[request[c].offer] = "active"
                                        /\ \A i \in Keys!Ids : state[i] # "pending"

KeysInv ==
    /\ KeysTyped /\ OneOfEach /\ SecretsWereMade
    /\ ~crossed /\ admin.did # "pasted" => BetweenEras
    /\ ~crossed /\ admin.did = "pasted" => InEra

LEMMA KeysFacts ==
    /\ MaxCredentials \in Nat \ {0} /\ MaxRequests \in Nat /\ Keys!Ids \subseteq Nat /\ 0 \notin Keys!Ids
    /\ Keys!None = 0 /\ Keys!NoConnection \in Keys!Connection
    /\ Keys!IdleCall \in Keys!Call /\ Keys!IdleCall.at = "idle"
    /\ Keys!IdleCall.secret = 0 /\ Keys!IdleCall.fallback = 0 /\ Keys!IdleCall.offer = 0
    /\ \A r \in Keys!Call : /\ r.at \in Keys!Steps /\ r.secret \in Keys!Ids \cup {0}
                            /\ r.fallback \in Keys!Ids \cup {0} /\ r.offer \in Keys!Ids \cup {0}
                            /\ r.row \in Keys!Connection
<1>1. MaxCredentials \in Nat \ {0} /\ MaxRequests \in Nat
  BY SiteAssumption DEF Keys!CredentialsAssumption
<1>2. Keys!Ids \subseteq Nat /\ 0 \notin Keys!Ids /\ Keys!None = 0
  BY <1>1 DEF Keys!Ids, Keys!None
<1>3. Keys!NoConnection \in Keys!Connection
  BY DEF Keys!NoConnection, Keys!Connection
<1>4. /\ Keys!IdleCall \in Keys!Call /\ Keys!IdleCall.at = "idle"
      /\ Keys!IdleCall.secret = 0 /\ Keys!IdleCall.fallback = 0 /\ Keys!IdleCall.offer = 0
  BY <1>2, <1>3 DEF Keys!IdleCall, Keys!Call, Keys!Steps
<1>5. \A r \in Keys!Call : /\ r.at \in Keys!Steps /\ r.secret \in Keys!Ids \cup {0}
                           /\ r.fallback \in Keys!Ids \cup {0} /\ r.offer \in Keys!Ids \cup {0}
                           /\ r.row \in Keys!Connection
  BY <1>2 DEF Keys!Call
<1> QED
  BY <1>1, <1>2, <1>3, <1>4, <1>5

LEMMA KeysTypes ==
    ASSUME KeysInv
    PROVE  /\ state \in [Keys!Ids -> Keys!States] /\ connection \in Keys!Connection
           /\ request \in [Actors -> Keys!Call] /\ crossed \in BOOLEAN
           /\ plugin.secret \in Keys!Ids \cup {0} /\ plugin.previous \in Keys!Ids \cup {0}
           /\ admin.shown \in Keys!Ids \cup {0} /\ admin.did \in {"revoked", "issued", "pasted"}
           /\ ~crossed /\ admin.did # "pasted" => BetweenEras
           /\ ~crossed /\ admin.did = "pasted" => InEra
BY KeysFacts DEF KeysInv, KeysTyped, Keys!Plugin

\* A request that was authenticated is one of an era, or of none that is told apart.
LEMMA AuthenticatedInEra ==
    ASSUME KeysInv, NEW c \in Actors, request[c].at \notin {"idle", "sent"}, ~crossed
    PROVE  admin.did = "pasted" /\ InEra
BY KeysTypes DEF BetweenEras

\* A request goes on, or ends; no credential is made or becomes active.
LEMMA KeyRequestGoesOn ==
    ASSUME KeysInv, NEW c \in Actors, NEW q \in Keys!Call, request' = [request EXCEPT ![c] = q],
           q.at = "idle" => q = Keys!IdleCall,
           q.at # "idle" => /\ request[c].at # "idle" /\ q.secret # 0
                            /\ q.secret \in {request[c].secret, request[c].fallback}
                            /\ q.fallback \in {0, request[c].fallback},
           \/ q.at \in {"idle", "sent"} /\ connection' = connection
           \/ ~crossed => admin.did = "pasted",
           q.offer \in {0, request[c].offer} \/ (q.offer \in Keys!Ids /\ state[q.offer] = "pending"),
           state' \in [Keys!Ids -> Keys!States],
           \A i \in Keys!Ids : state'[i] = state[i] \/ (state[i] = "overlap" /\ state'[i] = "revoked"),
           connection' \in Keys!Connection,
           UNCHANGED <<expired, plugin, sent, admin, crossed>>
    PROVE  KeysInv'
<1>1. /\ request' \in [Actors -> Keys!Call] /\ request'[c] = q
      /\ \A d \in Actors \ {c} : request'[d] = request[d]
  BY KeysTypes
<1>2. KeysTyped'
  BY <1>1 DEF KeysInv, KeysTyped
<1>3. OneOfEach'
  BY DEF KeysInv, OneOfEach
<1>4. \A i : Made(i) => Made(i)'
  BY DEF Made
<1>5. SecretsWereMade'
  <2>1. /\ q.at # "idle" => Made(q.secret)'
        /\ q.fallback # 0 => Made(q.fallback)'
        /\ q.offer # 0 => Made(q.offer)'
    BY <1>4, KeysFacts DEF KeysInv, SecretsWereMade, Made
  <2>2. \A d \in Actors \ {c} :
           /\ request[d].at # "idle" => Made(request[d].secret)'
           /\ request[d].fallback # 0 => Made(request[d].fallback)'
           /\ request[d].offer # 0 => Made(request[d].offer)'
    BY <1>4 DEF KeysInv, SecretsWereMade
  <2>3. /\ plugin.secret # 0 => Made(plugin.secret)'
        /\ plugin.previous # 0 => Made(plugin.previous)'
        /\ admin.did = "issued" => admin.shown # 0 /\ Made(admin.shown)'
    BY <1>4 DEF KeysInv, SecretsWereMade
  <2> QED
    BY <1>1, <2>1, <2>2, <2>3 DEF SecretsWereMade, Made
<1>6. ASSUME ~crossed', admin'.did # "pasted" PROVE BetweenEras'
  <2>1. BetweenEras /\ q.at \in {"idle", "sent"} /\ connection' = connection /\ ~crossed
    BY <1>6, KeysTypes
  <2>2. \A i \in Keys!Ids \cup {0} : WasRevoked(i) => i = 0 \/ state'[i] = "revoked"
    BY KeysFacts DEF WasRevoked
  <2>3. WasRevoked(plugin.secret)' /\ WasRevoked(plugin.previous)'
    BY <2>1, <2>2, KeysTypes DEF BetweenEras, WasRevoked
  <2>4. ASSUME NEW d \in Actors
        PROVE  /\ request'[d].at \in {"idle", "sent"}
               /\ request'[d].secret = 0 \/ state'[request'[d].secret] = "revoked"
               /\ request'[d].fallback = 0 \/ state'[request'[d].fallback] = "revoked"
    <3>1. PICK o : o = request[d]
      OBVIOUS
    <3>2. /\ o \in Keys!Call /\ o.at \in {"idle", "sent"}
          /\ WasRevoked(o.secret) /\ WasRevoked(o.fallback)
      BY <2>1, <3>1, KeysTypes DEF BetweenEras
    <3>3. /\ o.secret = 0 \/ state'[o.secret] = "revoked"
          /\ o.fallback = 0 \/ state'[o.fallback] = "revoked"
      BY <2>2, <3>2, KeysFacts
    <3>4. CASE d # c
      BY <1>1, <3>1, <3>2, <3>3, <3>4
    <3>5. CASE d = c
      BY <1>1, <2>1, <3>1, <3>3, <3>5, KeysFacts
    <3> QED
      BY <3>4, <3>5
  <2>5. admin.did = "issued" => admin.shown \in Keys!Ids
    BY KeysTypes DEF KeysInv, SecretsWereMade
  <2>6. \A i \in Keys!Ids : \/ state'[i] \in {"none", "revoked"}
                            \/ admin.did = "issued" /\ i = admin.shown /\ state'[i] = "active"
    BY <2>1 DEF BetweenEras
  <2>7. /\ admin.did = "issued" => state'[admin.shown] = "active"
        /\ admin.did = "revoked" => connection'.status \in {"none", "revoked"}
    BY <2>1, <2>5 DEF BetweenEras
  <2> QED
    BY <2>3, <2>4, <2>6, <2>7 DEF BetweenEras, WasRevoked
<1>7. ASSUME ~crossed', admin'.did = "pasted" PROVE InEra'
  <2>1. InEra
    BY <1>7, KeysTypes
  <2>2. \A i \in Keys!Ids : /\ state'[i] = "pending" <=> state[i] = "pending"
                            /\ state'[i] = "active" <=> state[i] = "active"
    OBVIOUS
  <2>3. Holds' /\ (plugin.previous # 0 => state'[plugin.previous] # "pending")
    BY <2>1, <2>2, KeysTypes DEF InEra, Holds
  <2>4. ASSUME NEW d \in Actors
        PROVE  /\ request'[d].secret # 0 /\ state'[request'[d].secret] = "pending" =>
                      request'[d].secret = plugin'.secret
               /\ request'[d].fallback # 0 => state'[request'[d].fallback] # "pending"
               /\ request'[d].offer # 0 => \/ state'[request'[d].offer] = "pending"
                                          \/ /\ state'[request'[d].offer] = "active"
                                             /\ \A i \in Keys!Ids : state'[i] # "pending"
    <3>1. PICK o : o = request[d]
      OBVIOUS
    <3>2. /\ o \in Keys!Call
          /\ o.secret # 0 /\ state[o.secret] = "pending" => o.secret = plugin.secret
          /\ o.fallback # 0 => state[o.fallback] # "pending"
          /\ o.offer # 0 => \/ state[o.offer] = "pending"
                            \/ state[o.offer] = "active" /\ \A i \in Keys!Ids : state[i] # "pending"
      BY <2>1, <3>1, KeysTypes DEF InEra
    <3>3. CASE d # c
      BY <1>1, <2>2, <3>1, <3>2, <3>3, KeysFacts
    <3>4. CASE d = c
      BY <1>1, <2>2, <3>1, <3>2, <3>4, KeysFacts
    <3> QED
      BY <3>3, <3>4
  <2> QED
    BY <2>3, <2>4 DEF InEra
<1> QED
  BY <1>2, <1>3, <1>5, <1>6, <1>7 DEF KeysInv

\* What is accepted is active, pending or in its overlap.
LEMMA AuthenticateKeepsKeys == \A c \in Actors : KeysInv /\ Keys!Authenticate(c) => KeysInv'
<1>1. SUFFICES ASSUME NEW c \in Actors, KeysInv, Keys!Authenticate(c) PROVE KeysInv'
  OBVIOUS
<1>2. PICK q : q = [request[c] EXCEPT !.at = "matched"]
  OBVIOUS
<1>3. PICK o : o = request[c]
  OBVIOUS
<1>4. o \in Keys!Call /\ o.at = "sent" /\ o.secret \in Keys!Accepted
  BY <1>1, <1>3, KeysTypes DEF Keys!Authenticate
<1>5. /\ q \in Keys!Call /\ q.at = "matched" /\ q.secret = o.secret /\ q.fallback = o.fallback /\ q.offer = o.offer
  BY <1>2, <1>3, <1>4 DEF Keys!Call, Keys!Steps
<1>6. /\ request' = [request EXCEPT ![c] = q] /\ state' = Keys!RevokeExpired
      /\ UNCHANGED <<expired, connection, plugin, sent, admin, crossed>>
  BY <1>1, <1>2 DEF Keys!Authenticate, Keys!Goto
<1>7. o.secret \in Keys!Ids /\ state[o.secret] \in {"active", "pending", "overlap"}
  BY <1>4 DEF Keys!Accepted
<1>8. ~crossed => admin.did = "pasted"
  <2>1. SUFFICES ASSUME ~crossed, BetweenEras PROVE FALSE
    BY <1>1, KeysTypes
  <2>2. WasRevoked(o.secret)
    BY <1>3, <2>1 DEF BetweenEras
  <2> QED
    BY <1>7, <2>2, KeysFacts DEF WasRevoked
<1>9. /\ state' \in [Keys!Ids -> Keys!States]
      /\ \A i \in Keys!Ids : state'[i] = state[i] \/ (state[i] = "overlap" /\ state'[i] = "revoked")
  BY <1>1, <1>6, KeysTypes DEF Keys!RevokeExpired, Keys!States
<1>10. connection' \in Keys!Connection
  BY <1>1, <1>6, KeysTypes
<1>11. q.at # "idle" => /\ request[c].at # "idle" /\ q.secret # 0
                        /\ q.secret \in {request[c].secret, request[c].fallback}
                        /\ q.fallback \in {0, request[c].fallback}
  BY <1>3, <1>4, <1>5, <1>7, KeysFacts
<1>12. UNCHANGED <<expired, plugin, sent, admin, crossed>>
  BY <1>6
<1>13. q.offer \in {0, request[c].offer}
  BY <1>3, <1>5
<1> QED
  BY <1>1, <1>5, <1>6, <1>8, <1>9, <1>10, <1>11, <1>12, <1>13, KeyRequestGoesOn

LEMMA RejectKeepsKeys == \A c \in Actors : KeysInv /\ Keys!Reject(c) => KeysInv'
<1>1. SUFFICES ASSUME NEW c \in Actors, KeysInv, Keys!Reject(c) PROVE KeysInv'
  OBVIOUS
<1>2. PICK o : o = request[c]
  OBVIOUS
<1>3. o \in Keys!Call /\ o.at = "sent" /\ state' = Keys!RevokeExpired
      /\ UNCHANGED <<expired, connection, plugin, sent, admin, crossed>>
  BY <1>1, <1>2, KeysTypes DEF Keys!Reject
<1>4. PICK q : q = IF o.fallback = 0 THEN Keys!IdleCall ELSE [o EXCEPT !.secret = o.fallback, !.fallback = 0]
  OBVIOUS
<1>5. request' = [request EXCEPT ![c] = q]
  BY <1>1, <1>2, <1>4, KeysTypes, KeysFacts DEF Keys!Reject, Keys!End, Keys!Call
<1>6. /\ q \in Keys!Call /\ q.at \in {"idle", "sent"} /\ (q.at = "idle" => q = Keys!IdleCall)
      /\ q.at # "idle" => q.secret = o.fallback /\ q.secret # 0 /\ q.fallback = 0
      /\ q.offer \in {0, o.offer}
  BY <1>3, <1>4, KeysFacts DEF Keys!Call
<1>7. /\ state' \in [Keys!Ids -> Keys!States]
      /\ \A i \in Keys!Ids : state'[i] = state[i] \/ (state[i] = "overlap" /\ state'[i] = "revoked")
  BY <1>1, <1>3, KeysTypes DEF Keys!RevokeExpired, Keys!States
<1>8. connection' \in Keys!Connection /\ connection' = connection
  BY <1>1, <1>3, KeysTypes
<1>9. q.at # "idle" => /\ request[c].at # "idle" /\ q.secret # 0
                       /\ q.secret \in {request[c].secret, request[c].fallback}
                       /\ q.fallback \in {0, request[c].fallback}
  BY <1>2, <1>3, <1>6
<1>10. UNCHANGED <<expired, plugin, sent, admin, crossed>>
  BY <1>3
<1>11. q.offer \in {0, request[c].offer}
  BY <1>2, <1>6
<1> QED
  BY <1>1, <1>5, <1>6, <1>7, <1>8, <1>9, <1>10, <1>11, KeyRequestGoesOn

\* A request that was authenticated reads or writes the connection, or what it is to offer.
LEMMA AuthenticatedGoesOn ==
    ASSUME KeysInv, NEW c \in Actors, request[c].at \notin {"idle", "sent"}, NEW q \in Keys!Call,
           request' = [request EXCEPT ![c] = q],
           q = Keys!IdleCall \/ (q.at # "idle" /\ q.secret = request[c].secret /\ q.fallback = request[c].fallback),
           q.offer \in {0, request[c].offer} \/ (q.offer \in Keys!Ids /\ state[q.offer] = "pending"),
           connection' \in Keys!Connection, UNCHANGED <<state, expired, plugin, sent, admin, crossed>>
    PROVE  KeysInv'
<1>1. ~crossed => admin.did = "pasted"
  BY AuthenticatedInEra
<1>2. PICK o : o = request[c]
  OBVIOUS
<1>3. o \in Keys!Call /\ o.secret # 0
  BY <1>2, KeysTypes, KeysFacts DEF KeysInv, SecretsWereMade, Made
<1>4. /\ q.at = "idle" => q = Keys!IdleCall
      /\ q.at # "idle" => /\ request[c].at # "idle" /\ q.secret # 0
                          /\ q.secret \in {request[c].secret, request[c].fallback}
                          /\ q.fallback \in {0, request[c].fallback}
  BY <1>2, <1>3, KeysFacts
<1>5. /\ state' \in [Keys!Ids -> Keys!States]
      /\ \A i \in Keys!Ids : state'[i] = state[i] \/ (state[i] = "overlap" /\ state'[i] = "revoked")
  BY KeysTypes
<1>6. UNCHANGED <<expired, plugin, sent, admin, crossed>>
  OBVIOUS
<1> QED
  BY <1>1, <1>4, <1>5, <1>6, KeyRequestGoesOn

LEMMA HandlerKeepsKeys ==
    \A c \in Actors :
        KeysInv /\ (\/ Keys!RecordUse(c) \/ Keys!ReadConnection(c) \/ Keys!SaveAuthenticated(c)
                    \/ Keys!RecordCheckIn(c) \/ Keys!FindPending(c) \/ Keys!FindActive(c) \/ Keys!ReadDue(c))
            => KeysInv'
<1>1. SUFFICES ASSUME NEW c \in Actors, KeysInv,
                      \/ Keys!RecordUse(c) \/ Keys!ReadConnection(c) \/ Keys!SaveAuthenticated(c)
                      \/ Keys!RecordCheckIn(c) \/ Keys!FindPending(c) \/ Keys!FindActive(c) \/ Keys!ReadDue(c)
               PROVE  KeysInv'
  OBVIOUS
<1>2. PICK o : o = request[c]
  OBVIOUS
<1>3. o \in Keys!Call /\ request \in [Actors -> Keys!Call]
  BY <1>1, <1>2, KeysTypes
<1>4. /\ o.at \notin {"idle", "sent"} /\ UNCHANGED <<state, expired, plugin, sent, admin, crossed>>
      /\ connection' \in {connection, [status |-> "connected", due |-> o.row.due]}
  BY <1>1, <1>2 DEF Keys!RecordUse, Keys!ReadConnection, Keys!SaveAuthenticated, Keys!RecordCheckIn,
     Keys!FindPending, Keys!FindActive, Keys!ReadDue, Keys!Connected
<1>5. connection' \in Keys!Connection
  BY <1>1, <1>3, <1>4, KeysTypes, KeysFacts DEF Keys!Connection
<1>6. \/ request' = [request EXCEPT ![c] = Keys!IdleCall]
      \/ \E step \in Keys!Steps \ {"idle"}, row_ \in Keys!Connection :
            request' = [request EXCEPT ![c] = [o EXCEPT !.at = step, !.row = row_]]
      \/ \E offer_ \in Keys!Ids :
            /\ state[offer_] = "pending"
            /\ request' = [request EXCEPT ![c] = [o EXCEPT !.at = "answer", !.offer = offer_]]
  <2>1. o.row \in Keys!Connection /\ connection \in Keys!Connection
    BY <1>1, <1>3, KeysTypes, KeysFacts
  <2>2. ASSUME NEW step \in Keys!Steps \ {"idle"}, Keys!Goto(c, step)
        PROVE  \E row_ \in Keys!Connection : request' = [request EXCEPT ![c] = [o EXCEPT !.at = step, !.row = row_]]
    <3>1. [o EXCEPT !.at = step] = [o EXCEPT !.at = step, !.row = o.row]
      BY <1>3 DEF Keys!Call
    <3>2. request' = [request EXCEPT ![c] = [o EXCEPT !.at = step]]
      BY <1>2, <2>2 DEF Keys!Goto
    <3> QED
      BY <2>1, <3>1, <3>2
  <2>3. CASE Keys!RecordUse(c)
    <3>1. \/ Keys!End(c) \/ Keys!Goto(c, "confirm") \/ Keys!Goto(c, "read")
      BY <2>3 DEF Keys!RecordUse
    <3> QED
      BY <2>2, <3>1 DEF Keys!End, Keys!Steps
  <2>4. CASE Keys!ReadConnection(c)
    BY <1>2, <1>3, <2>1, <2>4 DEF Keys!ReadConnection, Keys!Steps
  <2>5. CASE Keys!SaveAuthenticated(c) \/ Keys!RecordCheckIn(c) \/ Keys!FindActive(c)
    <3>1. \/ Keys!Goto(c, "checkin") \/ Keys!Goto(c, "answer") \/ Keys!Goto(c, "rotate") \/ Keys!Goto(c, "due")
      BY <2>5 DEF Keys!SaveAuthenticated, Keys!RecordCheckIn, Keys!FindActive
    <3> QED
      BY <2>2, <3>1 DEF Keys!Steps
  <2>6. CASE Keys!ReadDue(c)
    BY <1>2, <1>3, <2>1, <2>6 DEF Keys!ReadDue, Keys!Steps
  <2>7. CASE Keys!FindPending(c)
    <3>1. CASE Keys!In("pending") = {}
      <4>1. Keys!Goto(c, "active")
        BY <2>7, <3>1 DEF Keys!FindPending
      <4> QED
        BY <2>2, <4>1 DEF Keys!Steps
    <3>2. CASE Keys!In("pending") # {}
      <4>1. PICK p : p = CHOOSE i \in Keys!In("pending") : TRUE
        OBVIOUS
      <4>2. p \in Keys!Ids /\ state[p] = "pending"
        BY <3>2, <4>1 DEF Keys!In
      <4> QED
        BY <1>2, <1>3, <2>7, <3>2, <4>1, <4>2 DEF Keys!FindPending
    <3> QED
      BY <3>1, <3>2
  <2> QED
    BY <1>1, <2>3, <2>4, <2>5, <2>6, <2>7
<1>7. CASE request' = [request EXCEPT ![c] = Keys!IdleCall]
  <2>1. PICK q : q = Keys!IdleCall
    OBVIOUS
  <2>2. q \in Keys!Call /\ q.offer = 0
    BY <2>1, KeysFacts
  <2> QED
    BY <1>1, <1>2, <1>4, <1>5, <1>7, <2>1, <2>2, AuthenticatedGoesOn
<1>8. CASE \E step \in Keys!Steps \ {"idle"}, row_ \in Keys!Connection :
              request' = [request EXCEPT ![c] = [o EXCEPT !.at = step, !.row = row_]]
  <2>1. PICK step \in Keys!Steps \ {"idle"}, row_ \in Keys!Connection :
           request' = [request EXCEPT ![c] = [o EXCEPT !.at = step, !.row = row_]]
    BY <1>8
  <2>2. PICK q : q = [o EXCEPT !.at = step, !.row = row_]
    OBVIOUS
  <2>3. /\ q \in Keys!Call /\ q.at # "idle" /\ q.secret = o.secret /\ q.fallback = o.fallback /\ q.offer = o.offer
    BY <1>3, <2>2 DEF Keys!Call
  <2> QED
    BY <1>1, <1>2, <1>4, <1>5, <2>1, <2>2, <2>3, AuthenticatedGoesOn
<1>9. CASE \E offer_ \in Keys!Ids :
              /\ state[offer_] = "pending"
              /\ request' = [request EXCEPT ![c] = [o EXCEPT !.at = "answer", !.offer = offer_]]
  <2>1. PICK offer_ \in Keys!Ids :
           /\ state[offer_] = "pending"
           /\ request' = [request EXCEPT ![c] = [o EXCEPT !.at = "answer", !.offer = offer_]]
    BY <1>9
  <2>2. PICK q : q = [o EXCEPT !.at = "answer", !.offer = offer_]
    OBVIOUS
  <2>3. /\ q \in Keys!Call /\ q.at # "idle" /\ q.secret = o.secret /\ q.fallback = o.fallback /\ q.offer = offer_
    BY <1>3, <2>2 DEF Keys!Call, Keys!Steps
  <2> QED
    BY <1>1, <1>2, <1>4, <1>5, <2>1, <2>2, <2>3, AuthenticatedGoesOn
<1> QED
  BY <1>6, <1>7, <1>8, <1>9

LEMMA LoseKeepsKeys == \A c \in Actors : KeysInv /\ Keys!Lose(c) => KeysInv'
<1>1. SUFFICES ASSUME NEW c \in Actors, KeysInv, Keys!Lose(c) PROVE KeysInv'
  OBVIOUS
<1>2. PICK q : q = Keys!IdleCall
  OBVIOUS
<1>3. q \in Keys!Call /\ q.at = "idle" /\ q.offer = 0
  BY <1>2, KeysFacts
<1>4. /\ request' = [request EXCEPT ![c] = q]
      /\ UNCHANGED <<state, expired, connection, plugin, sent, admin, crossed>>
  BY <1>1, <1>2 DEF Keys!Lose, Keys!End
<1>5. /\ state' \in [Keys!Ids -> Keys!States]
      /\ \A i \in Keys!Ids : state'[i] = state[i] \/ (state[i] = "overlap" /\ state'[i] = "revoked")
      /\ connection' \in Keys!Connection
  BY <1>1, <1>4, KeysTypes
<1>6. UNCHANGED <<expired, plugin, sent, admin, crossed>> /\ connection' = connection
  BY <1>4
<1> QED
  BY <1>1, <1>2, <1>3, <1>4, <1>5, <1>6, KeyRequestGoesOn

\* The credential made next was not made yet.
LEMMA NextIsFresh ==
    ASSUME KeysInv, Keys!Fresh # {}
    PROVE  Keys!NextId \in Keys!Ids /\ state[Keys!NextId] = "none"
<1>1. Keys!Fresh \in SUBSET Nat
  BY KeysFacts DEF Keys!Fresh, Keys!In
<1>2. \E i \in Keys!Fresh : \A j \in Keys!Fresh : i <= j
  BY <1>1, LeastNatural
<1>3. Keys!NextId \in Keys!Fresh
  BY <1>2 DEF Keys!NextId
<1> QED
  BY <1>3 DEF Keys!Fresh, Keys!In

\* A request leaves with the secrets of the plugin.
LEMMA SendKeepsKeys == \A c \in Actors, checkIn \in BOOLEAN : KeysInv /\ Keys!Send(c, checkIn) => KeysInv'
<1>1. SUFFICES ASSUME NEW c \in Actors, NEW checkIn \in BOOLEAN, KeysInv, Keys!Send(c, checkIn) PROVE KeysInv'
  OBVIOUS
<1>2. PICK q : q = [Keys!IdleCall EXCEPT
                       !.at = "sent", !.checkIn = checkIn, !.secret = plugin.secret,
                       !.fallback = IF plugin.valid THEN plugin.previous ELSE Keys!None]
  OBVIOUS
<1>3. /\ q \in Keys!Call /\ q.at = "sent" /\ q.secret = plugin.secret /\ q.fallback \in {0, plugin.previous}
      /\ q.offer = 0
  <2>1. PICK back : back = IF plugin.valid THEN plugin.previous ELSE 0
    OBVIOUS
  <2>2. back \in Keys!Ids \cup {0} /\ back \in {0, plugin.previous} /\ plugin.secret \in Keys!Ids \cup {0}
    BY <1>1, <2>1, KeysTypes
  <2>3. q = [at |-> "sent", checkIn |-> checkIn, secret |-> plugin.secret, fallback |-> back,
             row |-> Keys!NoConnection, offer |-> 0]
    BY <1>2, <2>1, KeysFacts DEF Keys!IdleCall
  <2> QED
    BY <2>2, <2>3, KeysFacts DEF Keys!Call, Keys!Steps
<1>4. /\ request' = [request EXCEPT ![c] = q] /\ sent < MaxRequests /\ sent' = sent + 1 /\ plugin.secret # 0
      /\ UNCHANGED <<state, expired, connection, plugin, admin, crossed>>
  BY <1>1, <1>2, KeysFacts DEF Keys!Send
<1>5. /\ request' \in [Actors -> Keys!Call] /\ request'[c] = q
      /\ \A d \in Actors \ {c} : request'[d] = request[d]
  BY <1>1, <1>3, <1>4, KeysTypes
<1>6. KeysTyped'
  BY <1>1, <1>3, <1>4, <1>5, KeysFacts DEF KeysInv, KeysTyped
<1>7. OneOfEach'
  BY <1>1, <1>4 DEF KeysInv, OneOfEach
<1>8. SecretsWereMade'
  BY <1>1, <1>3, <1>4, <1>5 DEF KeysInv, SecretsWereMade, Made
<1>9. ASSUME ~crossed', admin'.did # "pasted" PROVE BetweenEras'
  <2>1. BetweenEras /\ ~crossed
    BY <1>1, <1>4, <1>9, KeysTypes
  <2>2. WasRevoked(q.secret) /\ WasRevoked(q.fallback)
    BY <1>3, <2>1 DEF BetweenEras, WasRevoked
  <2> QED
    BY <1>3, <1>4, <1>5, <2>1, <2>2 DEF BetweenEras, WasRevoked
<1>10. ASSUME ~crossed', admin'.did = "pasted" PROVE InEra'
  <2>1. InEra
    BY <1>1, <1>4, <1>10, KeysTypes
  <2>2. Holds' /\ (plugin'.previous # 0 => state'[plugin'.previous] # "pending")
    BY <1>4, <2>1 DEF InEra, Holds
  <2> QED
    BY <1>3, <1>4, <1>5, <2>1, <2>2 DEF InEra
<1> QED
  BY <1>6, <1>7, <1>8, <1>9, <1>10 DEF KeysInv

\* The first use of the pending credential makes it the active one.
LEMMA ConfirmKeepsKeys == \A c \in Actors : KeysInv /\ Keys!Confirm(c) => KeysInv'
<1>1. SUFFICES ASSUME NEW c \in Actors, KeysInv, Keys!Confirm(c) PROVE KeysInv'
  OBVIOUS
<1>2. PICK o, used : o = request[c] /\ used = o.secret
  OBVIOUS
<1>3. /\ o \in Keys!Call /\ o.at = "confirm" /\ used \in Keys!Ids
  BY <1>1, <1>2, KeysTypes DEF Keys!Confirm, KeysInv, SecretsWereMade, Made
<1>4. PICK q : q = [o EXCEPT !.at = "read"]
  OBVIOUS
<1>5. q \in Keys!Call /\ q.at = "read" /\ q.secret = used /\ q.fallback = o.fallback /\ q.offer = o.offer
  BY <1>2, <1>3, <1>4 DEF Keys!Call, Keys!Steps
<1>6. request' = [request EXCEPT ![c] = q] /\ UNCHANGED <<expired, plugin, sent, admin, crossed>>
  BY <1>1, <1>2, <1>4 DEF Keys!Confirm, Keys!Goto
<1>7. CASE state[used] # "pending"
  <2>1. UNCHANGED <<state, connection>>
    BY <1>1, <1>2, <1>7 DEF Keys!Confirm, Keys!Confirmable
  <2>2. connection' \in Keys!Connection /\ UNCHANGED <<state, expired, plugin, sent, admin, crossed>>
    BY <1>1, <1>6, <2>1, KeysTypes
  <2> QED
    BY <1>1, <1>2, <1>3, <1>5, <1>6, <2>2, AuthenticatedGoesOn
<1>8. CASE state[used] = "pending"
  <2>1. state' = Keys!Confirmed(used) /\ connection' = [connection EXCEPT !.due = FALSE]
    BY <1>1, <1>2, <1>8 DEF Keys!Confirm, Keys!Confirmable
  <2>2. /\ state' \in [Keys!Ids -> Keys!States] /\ state'[used] = "active"
        /\ \A i \in Keys!Ids \ {used} : state'[i] = IF state[i] = "active" THEN "overlap" ELSE state[i]
    BY <1>1, <1>3, <2>1, KeysTypes DEF Keys!Confirmed, Keys!States
  <2>3. \A i \in Keys!Ids \ {used} : state[i] # "pending"
    BY <1>1, <1>3, <1>8 DEF KeysInv, OneOfEach
  <2>4. \A i \in Keys!Ids : state'[i] # "pending" /\ (state'[i] = "active" => i = used)
    BY <2>2, <2>3
  <2>5. /\ request' \in [Actors -> Keys!Call] /\ request'[c] = q
        /\ \A d \in Actors \ {c} : request'[d] = request[d]
    BY <1>1, <1>5, <1>6, KeysTypes
  <2>6. connection' \in Keys!Connection
    BY <1>1, <2>1, KeysTypes DEF Keys!Connection
  <2>7. KeysTyped'
    BY <1>1, <1>5, <1>6, <2>2, <2>5, <2>6 DEF KeysInv, KeysTyped
  <2>8. OneOfEach'
    BY <2>4 DEF OneOfEach
  <2>9. SecretsWereMade'
    <3>1. \A i \in Keys!Ids : state[i] # "none" => state'[i] # "none"
      BY <2>2
    <3>2. \A d \in Actors : /\ request'[d].at # "idle" => request[d].at # "idle"
                            /\ request'[d].secret = request[d].secret /\ request'[d].fallback = request[d].fallback
                            /\ request'[d].offer = request[d].offer
      BY <1>2, <1>3, <1>5, <2>5
    <3> QED
      BY <1>1, <1>6, <3>1, <3>2 DEF KeysInv, SecretsWereMade, Made
  <2>10. ASSUME ~crossed' PROVE admin'.did = "pasted" /\ InEra'
    <3>1. admin.did = "pasted" /\ InEra
      BY <1>1, <1>2, <1>3, <1>6, <2>10, AuthenticatedInEra
    <3>2. plugin.secret = used
      BY <1>1, <1>2, <1>3, <1>8, <3>1, KeysFacts DEF InEra
    <3>3. Holds'
      BY <1>3, <1>6, <2>2, <3>2, KeysFacts DEF Holds
    <3>4. plugin.previous # 0 => state'[plugin.previous] # "pending"
      BY <1>1, <2>4, KeysTypes
    <3>5. ASSUME NEW d \in Actors
          PROVE  /\ request'[d].secret # 0 /\ state'[request'[d].secret] = "pending" =>
                        request'[d].secret = plugin'.secret
                 /\ request'[d].fallback # 0 => state'[request'[d].fallback] # "pending"
                 /\ request'[d].offer # 0 => /\ state'[request'[d].offer] = "active"
                                             /\ \A i \in Keys!Ids : state'[i] # "pending"
      <4>1. PICK r : r = request'[d]
        OBVIOUS
      <4>2. /\ r \in Keys!Call /\ r.secret \in Keys!Ids \cup {0} /\ r.fallback \in Keys!Ids \cup {0}
            /\ r.offer \in Keys!Ids \cup {0}
        BY <2>5, <4>1, KeysFacts
      <4>3. r.offer # 0 => r.offer = used
        <5>1. r.offer = request[d].offer
          BY <1>2, <1>5, <2>5, <4>1
        <5> QED
          BY <1>3, <1>8, <2>3, <3>1, <4>2, <5>1 DEF InEra
      <4> QED
        BY <2>2, <2>4, <4>1, <4>2, <4>3
    <3> QED
      BY <1>6, <3>1, <3>3, <3>4, <3>5 DEF InEra
  <2> QED
    BY <1>6, <2>7, <2>8, <2>9, <2>10 DEF KeysInv
<1> QED
  BY <1>7, <1>8

\* A request holds a secret, a fallback or an offer only while it is under way.
LEMMA IdleHoldsNothing ==
    ASSUME KeysInv, NEW c \in Actors
    PROVE  /\ request[c].at = "idle" => request[c].secret = 0 /\ request[c].fallback = 0 /\ request[c].offer = 0
           /\ request[c].secret # 0 => Made(request[c].secret)
           /\ request[c].fallback # 0 => Made(request[c].fallback)
           /\ request[c].offer # 0 => Made(request[c].offer)
BY KeysFacts DEF KeysInv, KeysTyped, SecretsWereMade

\* A new credential is pending beside the active one.
LEMMA CreatePendingKeepsKeys == \A c \in Actors : KeysInv /\ Keys!CreatePending(c) => KeysInv'
<1>1. SUFFICES ASSUME NEW c \in Actors, KeysInv, Keys!CreatePending(c) PROVE KeysInv'
  OBVIOUS
<1>2. PICK o : o = request[c]
  OBVIOUS
<1>3. /\ o \in Keys!Call /\ o.at = "create" /\ o.row \in Keys!Connection
      /\ UNCHANGED <<expired, plugin, sent, admin>>
  BY <1>1, <1>2, KeysTypes, KeysFacts DEF Keys!CreatePending
<1>4. CASE Keys!In("pending") # {}
  <2>1. Keys!End(c) /\ UNCHANGED <<state, connection, crossed>>
    BY <1>1, <1>4 DEF Keys!CreatePending
  <2>2. PICK q : q = Keys!IdleCall
    OBVIOUS
  <2>3. request' = [request EXCEPT ![c] = q] /\ q \in Keys!Call /\ q.offer = 0
    BY <2>1, <2>2, KeysFacts DEF Keys!End
  <2>4. connection' \in Keys!Connection /\ UNCHANGED <<state, expired, plugin, sent, admin, crossed>>
    BY <1>1, <1>3, <2>1, KeysTypes
  <2>5. request[c].at \notin {"idle", "sent"}
    BY <1>2, <1>3
  <2> QED
    BY <1>1, <2>2, <2>3, <2>4, <2>5, AuthenticatedGoesOn
<1>5. CASE Keys!In("pending") = {}
  <2>1. PICK p : p = Keys!NextId
    OBVIOUS
  <2>2. p \in Keys!Ids /\ state[p] = "none"
    BY <1>1, <2>1, NextIsFresh DEF Keys!CreatePending
  <2>3. PICK q : q = [o EXCEPT !.at = "answer", !.offer = p]
    OBVIOUS
  <2>4. /\ q \in Keys!Call /\ q.at = "answer" /\ q.secret = o.secret /\ q.fallback = o.fallback /\ q.offer = p
    BY <1>3, <2>2, <2>3 DEF Keys!Call, Keys!Steps
  <2>5. /\ state' = [state EXCEPT ![p] = "pending"] /\ connection' = o.row
        /\ request' = [request EXCEPT ![c] = q]
    BY <1>1, <1>2, <1>5, <2>1, <2>3, KeysTypes DEF Keys!CreatePending, Keys!Offered
  <2>6. /\ crossed' = (crossed \/ \E d \in Actors \ {c} : request[d].offer # 0)
    BY <1>1, <1>5, KeysFacts DEF Keys!CreatePending
  <2>7. /\ request' \in [Actors -> Keys!Call] /\ request'[c] = q
        /\ \A d \in Actors \ {c} : request'[d] = request[d]
    BY <1>1, <2>4, <2>5, KeysTypes
  <2>8. /\ state' \in [Keys!Ids -> Keys!States] /\ state'[p] = "pending"
        /\ \A i \in Keys!Ids \ {p} : state'[i] = state[i] /\ state'[i] # "pending"
    BY <1>1, <1>5, <2>2, <2>5, KeysTypes DEF Keys!States, Keys!In
  <2>9. crossed' \in BOOLEAN
    BY <1>1, <2>6, KeysTypes
  <2>10. KeysTyped'
    BY <1>1, <1>3, <2>4, <2>5, <2>7, <2>8, <2>9 DEF KeysInv, KeysTyped
  <2>11. OneOfEach'
    BY <1>1, <2>8 DEF KeysInv, OneOfEach
  <2>12. \A i : Made(i) => i # p /\ Made(i)'
    BY <2>2, <2>8 DEF Made
  <2>13. Made(p)'
    BY <2>2, <2>8 DEF Made
  <2>14. SecretsWereMade'
    <3>1. Made(o.secret)' /\ (o.fallback # 0 => Made(o.fallback)')
      BY <1>1, <1>2, <1>3, <2>12 DEF KeysInv, SecretsWereMade
    <3>2. \A d \in Actors \ {c} :
             /\ request[d].at # "idle" => Made(request[d].secret)'
             /\ request[d].fallback # 0 => Made(request[d].fallback)'
             /\ request[d].offer # 0 => Made(request[d].offer)'
      BY <1>1, <2>7, <2>12 DEF KeysInv, SecretsWereMade
    <3>3. /\ plugin.secret # 0 => Made(plugin.secret)'
          /\ plugin.previous # 0 => Made(plugin.previous)'
          /\ admin.did = "issued" => admin.shown # 0 /\ Made(admin.shown)'
      BY <1>1, <1>3, <2>12 DEF KeysInv, SecretsWereMade
    <3> QED
      BY <1>3, <2>4, <2>7, <2>13, <3>1, <3>2, <3>3 DEF SecretsWereMade, Made
  <2>15. ASSUME ~crossed' PROVE admin'.did = "pasted" /\ InEra'
    <3>1. ~crossed
      BY <2>6, <2>15
    <3>2. \A d \in Actors \ {c} : request[d].offer = 0
      BY <2>6, <2>15
    <3>3. admin.did = "pasted" /\ InEra
      BY <1>1, <1>2, <1>3, <3>1, AuthenticatedInEra
    <3>4. /\ plugin.secret # 0 => plugin.secret # p /\ plugin.secret \in Keys!Ids
          /\ plugin.previous # 0 => plugin.previous # p /\ plugin.previous \in Keys!Ids
      BY <1>1, <2>12 DEF KeysInv, SecretsWereMade, Made
    <3>5. Holds' /\ (plugin'.previous # 0 => state'[plugin'.previous] # "pending")
      BY <1>3, <2>8, <3>3, <3>4 DEF InEra, Holds
    <3>6. ASSUME NEW d \in Actors
          PROVE  /\ request'[d].secret # 0 => state'[request'[d].secret] # "pending"
                 /\ request'[d].fallback # 0 => state'[request'[d].fallback] # "pending"
                 /\ request'[d].offer # 0 => state'[request'[d].offer] = "pending"
      <4>1. /\ request'[d].secret = request[d].secret /\ request'[d].fallback = request[d].fallback
            /\ request'[d].offer # 0 => request'[d].offer = p
        BY <1>2, <2>4, <2>7, <3>2
      <4>2. /\ request[d].secret # 0 => request[d].secret # p /\ request[d].secret \in Keys!Ids
            /\ request[d].fallback # 0 => request[d].fallback # p /\ request[d].fallback \in Keys!Ids
        BY <1>1, <2>12, IdleHoldsNothing DEF Made
      <4> QED
        BY <2>8, <4>1, <4>2
    <3> QED
      BY <1>3, <3>3, <3>5, <3>6 DEF InEra
  <2> QED
    BY <2>9, <2>10, <2>11, <2>14, <2>15 DEF KeysInv
<1> QED
  BY <1>4, <1>5

\* The plugin takes the offer for its secret and keeps the active one.
LEMMA AnswerKeepsKeys == \A c \in Actors : KeysInv /\ Keys!Answer(c) => KeysInv'
<1>1. SUFFICES ASSUME NEW c \in Actors, KeysInv, Keys!Answer(c) PROVE KeysInv'
  OBVIOUS
<1>2. PICK o : o = request[c]
  OBVIOUS
<1>3. /\ o \in Keys!Call /\ o.at = "answer" /\ o.offer \in Keys!Ids \cup {0}
      /\ UNCHANGED <<state, expired, connection, sent, admin, crossed>>
      /\ request' = [request EXCEPT ![c] = Keys!IdleCall]
  BY <1>1, <1>2, KeysTypes, KeysFacts DEF Keys!Answer, Keys!End
<1>4. CASE o.offer \in {0, plugin.secret}
  <2>1. plugin' = plugin
    BY <1>1, <1>2, <1>4, KeysFacts DEF Keys!Answer
  <2>2. PICK q : q = Keys!IdleCall
    OBVIOUS
  <2>3. request' = [request EXCEPT ![c] = q] /\ q \in Keys!Call /\ q.offer = 0
    BY <1>3, <2>2, KeysFacts
  <2>4. connection' \in Keys!Connection /\ UNCHANGED <<state, expired, plugin, sent, admin, crossed>>
    BY <1>1, <1>3, <2>1, KeysTypes
  <2>5. request[c].at \notin {"idle", "sent"}
    BY <1>2, <1>3
  <2> QED
    BY <1>1, <2>2, <2>3, <2>4, <2>5, AuthenticatedGoesOn
<1>5. CASE o.offer # 0 /\ o.offer # plugin.secret
  <2>1. plugin' = [secret |-> o.offer, previous |-> plugin.secret, valid |-> TRUE]
    BY <1>1, <1>2, <1>5, KeysFacts DEF Keys!Answer, Keys!Rotated
  <2>2. plugin' \in Keys!Plugin /\ plugin'.secret = o.offer /\ plugin'.previous = plugin.secret
    BY <1>1, <1>3, <2>1, KeysTypes, KeysFacts DEF Keys!Plugin
  <2>3. /\ request' \in [Actors -> Keys!Call] /\ request'[c] = Keys!IdleCall
        /\ \A d \in Actors \ {c} : request'[d] = request[d]
    BY <1>1, <1>3, KeysTypes, KeysFacts
  <2>4. KeysTyped'
    BY <1>1, <1>3, <2>2, <2>3 DEF KeysInv, KeysTyped
  <2>5. OneOfEach'
    BY <1>1, <1>3 DEF KeysInv, OneOfEach
  <2>6. SecretsWereMade'
    <3>1. /\ Made(o.offer) /\ (plugin.secret # 0 => Made(plugin.secret))
          /\ admin.did = "issued" => admin.shown # 0 /\ Made(admin.shown)
      BY <1>1, <1>2, <1>5 DEF KeysInv, SecretsWereMade
    <3>2. \A d \in Actors : /\ request'[d].at # "idle" => Made(request'[d].secret)
                            /\ request'[d].fallback # 0 => Made(request'[d].fallback)
                            /\ request'[d].offer # 0 => Made(request'[d].offer)
      BY <1>1, <2>3, KeysFacts DEF KeysInv, SecretsWereMade
    <3> QED
      BY <1>3, <2>2, <3>1, <3>2 DEF SecretsWereMade, Made
  <2>7. ASSUME ~crossed' PROVE admin'.did = "pasted" /\ InEra'
    <3>1. admin.did = "pasted" /\ InEra
      BY <1>1, <1>2, <1>3, <2>7, AuthenticatedInEra
    <3>2. \/ state[o.offer] = "pending"
          \/ state[o.offer] = "active" /\ \A i \in Keys!Ids : state[i] # "pending"
      BY <1>2, <1>5, <3>1 DEF InEra
    <3>3. plugin.secret \in Keys!Ids /\ o.offer \in Keys!Ids
      BY <1>1, <1>3, <1>5, <3>1, KeysTypes, KeysFacts DEF InEra, Holds
    <3>4. state[plugin.secret] \in {"active", "pending"}
      BY <3>1 DEF InEra, Holds
    <3>5. \A i, j \in Keys!Ids : state[i] = state[j] /\ state[i] \in {"active", "pending"} => i = j
      BY <1>1 DEF KeysInv, OneOfEach
    <3>6. state[o.offer] = "pending" /\ state[plugin.secret] = "active"
      BY <1>5, <3>2, <3>3, <3>4, <3>5
    <3>7. Holds' /\ (plugin'.previous # 0 => state'[plugin'.previous] # "pending")
      BY <1>3, <1>5, <2>2, <3>3, <3>6, KeysFacts DEF Holds
    <3>8. ASSUME NEW d \in Actors
          PROVE  /\ request'[d].secret # 0 => state[request'[d].secret] # "pending"
                 /\ request'[d].fallback # 0 => state[request'[d].fallback] # "pending"
                 /\ request'[d].offer # 0 => \/ state[request'[d].offer] = "pending"
                                            \/ /\ state[request'[d].offer] = "active"
                                               /\ \A i \in Keys!Ids : state[i] # "pending"
      <4>1. CASE d = c
        BY <2>3, <4>1, KeysFacts
      <4>2. CASE d # c
        <5>1. request'[d] = request[d]
          BY <2>3, <4>2
        <5>2. /\ request[d].secret # 0 => state[request[d].secret] # "pending"
              /\ request[d].fallback # 0 => state[request[d].fallback] # "pending"
              /\ request[d].offer # 0 => \/ state[request[d].offer] = "pending"
                                         \/ /\ state[request[d].offer] = "active"
                                            /\ \A i \in Keys!Ids : state[i] # "pending"
          BY <3>1, <3>6 DEF InEra
        <5> QED
          BY <5>1, <5>2
      <4> QED
        BY <4>1, <4>2
    <3> QED
      BY <1>3, <3>1, <3>7, <3>8 DEF InEra
  <2> QED
    BY <1>3, <2>4, <2>5, <2>6, <2>7 DEF KeysInv
<1> QED
  BY <1>4, <1>5

\* No request is under way: none holds anything.
LEMMA QuietHoldsNothing ==
    ASSUME KeysInv, Keys!Quiet
    PROVE  \A c \in Actors : /\ request[c].at = "idle" /\ request[c].secret = 0
                             /\ request[c].fallback = 0 /\ request[c].offer = 0
BY IdleHoldsNothing DEF Keys!Quiet

\* Everything is revoked and one credential is active, which the plugin has not yet.
LEMMA IssueKeepsKeys == KeysInv /\ Keys!Issue => KeysInv'
<1>1. SUFFICES ASSUME KeysInv, Keys!Issue PROVE KeysInv'
  OBVIOUS
<1>2. PICK p : p = Keys!NextId
  OBVIOUS
<1>3. p \in Keys!Ids /\ state[p] = "none" /\ p # 0
  BY <1>1, <1>2, NextIsFresh, KeysFacts DEF Keys!Issue
<1>4. /\ state' = [Keys!Revoked EXCEPT ![p] = "active"]
      /\ connection' = [status |-> "awaiting-check-in", due |-> FALSE]
      /\ admin' = [admin EXCEPT !.did = "issued", !.shown = p]
      /\ crossed' = ~Keys!Quiet /\ UNCHANGED <<expired, plugin, request, sent>>
  BY <1>1, <1>2 DEF Keys!Issue
<1>5. /\ state' \in [Keys!Ids -> Keys!States] /\ state'[p] = "active"
      /\ \A i \in Keys!Ids \ {p} : state'[i] = IF state[i] = "none" THEN "none" ELSE "revoked"
  BY <1>1, <1>3, <1>4 DEF Keys!Revoked, Keys!States
<1>6. connection' \in Keys!Connection /\ crossed' \in BOOLEAN
  BY <1>4 DEF Keys!Connection
<1>7. /\ admin' \in [at : {"idle", "revoking"}, did : {"revoked", "issued", "pasted"},
                     shown : Keys!Ids \cup {0}, due : BOOLEAN]
      /\ admin'.did = "issued" /\ admin'.shown = p
  BY <1>1, <1>3, <1>4 DEF KeysInv, KeysTyped
<1>8. KeysTyped'
  BY <1>1, <1>4, <1>5, <1>6, <1>7 DEF KeysInv, KeysTyped
<1>9. OneOfEach'
  BY <1>5 DEF OneOfEach
<1>10. \A i : Made(i) => Made(i)' /\ state'[i] = "revoked"
  BY <1>3, <1>5 DEF Made
<1>11. SecretsWereMade'
  <2>1. Made(p)'
    BY <1>3, <1>5 DEF Made
  <2> QED
    BY <1>1, <1>3, <1>4, <1>7, <1>10, <2>1 DEF KeysInv, SecretsWereMade
<1>12. ASSUME ~crossed' PROVE BetweenEras'
  <2>1. \A c \in Actors : /\ request'[c].at = "idle" /\ request'[c].secret = 0
                          /\ request'[c].fallback = 0
    BY <1>1, <1>4, <1>12, QuietHoldsNothing
  <2>2. WasRevoked(plugin.secret)' /\ WasRevoked(plugin.previous)'
    BY <1>1, <1>4, <1>10 DEF KeysInv, SecretsWereMade, WasRevoked
  <2> QED
    BY <1>5, <1>7, <2>1, <2>2 DEF BetweenEras, WasRevoked
<1> QED
  BY <1>7, <1>8, <1>9, <1>11, <1>12 DEF KeysInv

\* An era begins.
LEMMA PasteKeepsKeys == KeysInv /\ Keys!Paste => KeysInv'
<1>1. SUFFICES ASSUME KeysInv, Keys!Paste PROVE KeysInv'
  OBVIOUS
<1>2. /\ admin.did = "issued" /\ plugin' = [secret |-> admin.shown, previous |-> 0, valid |-> FALSE]
      /\ admin' = [admin EXCEPT !.did = "pasted"] /\ crossed' = (crossed \/ ~Keys!Quiet)
      /\ UNCHANGED <<state, expired, connection, request, sent>>
  BY <1>1, KeysFacts DEF Keys!Paste
<1>3. admin.shown \in Keys!Ids /\ admin.shown # 0
  BY <1>1, <1>2, KeysTypes DEF KeysInv, SecretsWereMade
<1>4. plugin' \in Keys!Plugin /\ plugin'.secret = admin.shown /\ plugin'.previous = 0
  BY <1>2, <1>3, KeysFacts DEF Keys!Plugin
<1>5. /\ admin' \in [at : {"idle", "revoking"}, did : {"revoked", "issued", "pasted"},
                     shown : Keys!Ids \cup {0}, due : BOOLEAN]
      /\ admin'.did = "pasted"
  BY <1>1, <1>2 DEF KeysInv, KeysTyped
<1>6. crossed' \in BOOLEAN
  BY <1>1, <1>2, KeysTypes
<1>7. KeysTyped'
  BY <1>1, <1>2, <1>4, <1>5, <1>6 DEF KeysInv, KeysTyped
<1>8. OneOfEach'
  BY <1>1, <1>2 DEF KeysInv, OneOfEach
<1>9. ASSUME ~crossed' PROVE InEra'
  <2>1. ~crossed /\ Keys!Quiet
    BY <1>2, <1>9
  <2>2. BetweenEras
    BY <1>1, <1>2, <2>1, KeysTypes
  <2>3. state[admin.shown] = "active"
    BY <1>2, <2>2 DEF BetweenEras
  <2>4. \A c \in Actors : request'[c].secret = 0 /\ request'[c].fallback = 0 /\ request'[c].offer = 0
    BY <1>1, <1>2, <2>1, QuietHoldsNothing
  <2> QED
    BY <1>2, <1>3, <1>4, <2>3, <2>4 DEF InEra, Holds
<1>10. SecretsWereMade'
  BY <1>1, <1>2, <1>3, <1>4, <1>5 DEF KeysInv, SecretsWereMade, Made
<1> QED
  BY <1>5, <1>7, <1>8, <1>9, <1>10 DEF KeysInv

\* An era ends.
LEMMA RevokeAllKeepsKeys == KeysInv /\ Keys!RevokeAll => KeysInv'
<1>1. SUFFICES ASSUME KeysInv, Keys!RevokeAll PROVE KeysInv'
  OBVIOUS
<1>2. /\ state' = Keys!Revoked /\ connection' = [status |-> "revoked", due |-> admin.due]
      /\ admin' = [at |-> "idle", did |-> "revoked", shown |-> 0, due |-> FALSE]
      /\ crossed' = ~Keys!Quiet /\ UNCHANGED <<expired, plugin, request, sent>>
  BY <1>1, KeysFacts DEF Keys!RevokeAll
<1>3. /\ state' \in [Keys!Ids -> Keys!States]
      /\ \A i \in Keys!Ids : state'[i] = IF state[i] = "none" THEN "none" ELSE "revoked"
  BY <1>2 DEF Keys!Revoked, Keys!States
<1>4. admin.due \in BOOLEAN
  BY <1>1 DEF KeysInv, KeysTyped
<1>5. connection' \in Keys!Connection /\ connection'.status = "revoked" /\ crossed' \in BOOLEAN
  BY <1>2, <1>4 DEF Keys!Connection
<1>6. KeysTyped'
  BY <1>1, <1>2, <1>3, <1>5 DEF KeysInv, KeysTyped
<1>7. OneOfEach'
  BY <1>3 DEF OneOfEach
<1>8. \A i : Made(i) => Made(i)' /\ state'[i] = "revoked"
  BY <1>3 DEF Made
<1>9. SecretsWereMade'
  BY <1>1, <1>2, <1>8 DEF KeysInv, SecretsWereMade
<1>10. ASSUME ~crossed' PROVE BetweenEras'
  <2>1. \A c \in Actors : /\ request'[c].at = "idle" /\ request'[c].secret = 0
                          /\ request'[c].fallback = 0
    BY <1>1, <1>2, <1>10, QuietHoldsNothing
  <2>2. WasRevoked(plugin.secret)' /\ WasRevoked(plugin.previous)'
    BY <1>1, <1>2, <1>8 DEF KeysInv, SecretsWereMade, WasRevoked
  <2> QED
    BY <1>2, <1>3, <1>5, <2>1, <2>2 DEF BetweenEras, WasRevoked
<1> QED
  BY <1>2, <1>6, <1>7, <1>9, <1>10 DEF KeysInv

\* Time passes, or a revocation reads the row: no secret moves and no credential changes.
LEMMA TimeKeepsKeys ==
    KeysInv /\ (Keys!ReadToRevoke \/ Keys!FortnightPasses \/ Keys!RotationFallsDue) => KeysInv'
<1>1. SUFFICES ASSUME KeysInv, Keys!ReadToRevoke \/ Keys!FortnightPasses \/ Keys!RotationFallsDue PROVE KeysInv'
  OBVIOUS
<1>2. /\ expired \subseteq Keys!Ids /\ plugin \in Keys!Plugin /\ connection \in Keys!Connection
      /\ admin \in [at : {"idle", "revoking"}, did : {"revoked", "issued", "pasted"},
                    shown : Keys!Ids \cup {0}, due : BOOLEAN]
      /\ sent \in 0 .. MaxRequests /\ 0 \in 0 .. MaxRequests
  BY <1>1, KeysFacts DEF KeysInv, KeysTyped
<1>3. UNCHANGED <<state, request, crossed>>
  BY <1>1 DEF Keys!ReadToRevoke, Keys!FortnightPasses, Keys!RotationFallsDue
<1>4. plugin' \in Keys!Plugin /\ plugin'.secret = plugin.secret /\ plugin'.previous = plugin.previous
  BY <1>1, <1>2 DEF Keys!ReadToRevoke, Keys!FortnightPasses, Keys!RotationFallsDue, Keys!Plugin
<1>5. connection' \in Keys!Connection /\ connection'.status = connection.status
  BY <1>1, <1>2 DEF Keys!ReadToRevoke, Keys!FortnightPasses, Keys!RotationFallsDue, Keys!Connection
<1>6. /\ admin' \in [at : {"idle", "revoking"}, did : {"revoked", "issued", "pasted"},
                     shown : Keys!Ids \cup {0}, due : BOOLEAN]
      /\ admin'.did = admin.did /\ admin'.shown = admin.shown
  <2>1. connection.due \in BOOLEAN
    BY <1>2 DEF Keys!Connection
  <2>2. admin' = admin \/ admin' = [admin EXCEPT !.at = "revoking", !.due = connection.due]
    BY <1>1 DEF Keys!ReadToRevoke, Keys!FortnightPasses, Keys!RotationFallsDue
  <2> QED
    BY <1>2, <2>1, <2>2
<1>7. expired' \subseteq Keys!Ids /\ sent' \in 0 .. MaxRequests
  BY <1>1, <1>2 DEF Keys!ReadToRevoke, Keys!FortnightPasses, Keys!RotationFallsDue, Keys!In
<1>8. KeysTyped'
  BY <1>1, <1>3, <1>4, <1>5, <1>6, <1>7 DEF KeysInv, KeysTyped
<1>9. OneOfEach'
  BY <1>1, <1>3 DEF KeysInv, OneOfEach
<1>10. SecretsWereMade'
  BY <1>1, <1>3, <1>4, <1>6 DEF KeysInv, SecretsWereMade, Made
<1>11. BetweenEras => BetweenEras'
  BY <1>3, <1>4, <1>5, <1>6 DEF BetweenEras, WasRevoked
<1>12. InEra => InEra'
  BY <1>3, <1>4 DEF InEra, Holds
<1> QED
  BY <1>1, <1>3, <1>6, <1>8, <1>9, <1>10, <1>11, <1>12 DEF KeysInv

\* At most one of a kind: the set of them is empty or has one element.
LEMMA OneIsFewest == ASSUME NEW S, \A i, j \in S : i = j PROVE Keys!Cardinality(S) <= 1
<1>1. CASE S = {}
  BY <1>1, FS_EmptySet DEF Cardinality, Keys!Cardinality
<1>2. CASE S # {}
  <2>1. PICK e : e \in S
    BY <1>2
  <2>2. S = {e}
    BY <2>1
  <2>3. Cardinality(S) = 1
    BY <2>2, FS_Singleton
  <2> QED
    BY <2>3 DEF Cardinality, Keys!Cardinality
<1> QED
  BY <1>1, <1>2

LEMMA KeysFollow == KeysInv => Keys!RotationKeepsAccess /\ Keys!RevocationIsComplete
<1>1. SUFFICES ASSUME KeysInv PROVE Keys!RotationKeepsAccess /\ Keys!RevocationIsComplete
  OBVIOUS
<1>2. Keys!Cardinality(Keys!In("active")) <= 1 /\ Keys!Cardinality(Keys!In("pending")) <= 1
  <2>1. \A i, j \in Keys!In("active") : i = j
    BY <1>1 DEF KeysInv, OneOfEach, Keys!In
  <2>2. \A i, j \in Keys!In("pending") : i = j
    BY <1>1 DEF KeysInv, OneOfEach, Keys!In
  <2> QED
    BY <2>1, <2>2, OneIsFewest
<1>3. Keys!CredentialsTypeOK
  BY <1>1, <1>2, KeysFacts DEF KeysInv, KeysTyped, Keys!CredentialsTypeOK
<1>4. ASSUME admin.did = "pasted", ~crossed
      PROVE  /\ plugin.secret \in Keys!Accepted
             /\ Keys!In("active") \subseteq {plugin.secret, plugin.previous}
  <2>1. InEra
    BY <1>1, <1>4, KeysTypes
  <2>2. plugin.secret \in Keys!Ids /\ (plugin.previous # 0 => plugin.previous \in Keys!Ids)
    BY <1>1, <2>1, KeysTypes DEF InEra, Holds
  <2>3. plugin.secret \in Keys!Accepted
    BY <2>1, <2>2 DEF InEra, Holds, Keys!Accepted
  <2>4. \A i \in Keys!In("active") : i \in Keys!Ids /\ state[i] = "active"
    BY DEF Keys!In
  <2>5. \A i \in Keys!In("active") : i = plugin.secret \/ i = plugin.previous
    BY <1>1, <2>1, <2>2, <2>4 DEF KeysInv, OneOfEach, InEra, Holds
  <2> QED
    BY <2>3, <2>5
<1>5. Keys!RotationKeepsAccess
  BY <1>3, <1>4 DEF Keys!RotationKeepsAccess, Keys!PluginCanAuthenticate, Keys!ActiveIsHeld
<1>6. Keys!RevocationIsComplete
  <2>1. SUFFICES ASSUME admin.did = "revoked", ~crossed
                 PROVE  Keys!Accepted = {} /\ connection.status \in {"none", "revoked"}
    BY DEF Keys!RevocationIsComplete
  <2>2. BetweenEras
    BY <1>1, <2>1, KeysTypes
  <2>3. \A i \in Keys!Ids : state[i] \in {"none", "revoked"}
    BY <2>1, <2>2 DEF BetweenEras
  <2>4. Keys!Accepted = {}
    BY <2>3 DEF Keys!Accepted
  <2> QED
    BY <2>1, <2>2, <2>4 DEF BetweenEras
<1> QED
  BY <1>5, <1>6

LEMMA KeysStart == Keys!Init => KeysInv
<1>1. SUFFICES ASSUME Keys!Init PROVE KeysInv
  OBVIOUS
<1>2. /\ state = [i \in Keys!Ids |-> "none"] /\ expired = {} /\ connection = Keys!NoConnection
      /\ plugin = [secret |-> 0, previous |-> 0, valid |-> FALSE]
      /\ request = [c \in Actors |-> Keys!IdleCall] /\ sent = 0
      /\ admin = [at |-> "idle", did |-> "revoked", shown |-> 0, due |-> FALSE] /\ crossed = FALSE
  BY <1>1, KeysFacts DEF Keys!Init
<1>3. KeysTyped
  <2>1. state \in [Keys!Ids -> Keys!States] /\ expired \subseteq Keys!Ids
    BY <1>2 DEF Keys!States
  <2>2. connection \in Keys!Connection /\ plugin \in Keys!Plugin
    BY <1>2, KeysFacts DEF Keys!Plugin
  <2>3. request \in [Actors -> Keys!Call] /\ \A c \in Actors : request[c] = Keys!IdleCall
    BY <1>2, KeysFacts
  <2>4. sent \in 0 .. MaxRequests
    <3>1. sent = 0 /\ MaxRequests \in Nat
      BY <1>2, KeysFacts
    <3> QED
      BY <3>1
  <2>5. crossed \in BOOLEAN
    BY <1>2
  <2>6. admin \in [at : {"idle", "revoking"}, did : {"revoked", "issued", "pasted"},
                   shown : Keys!Ids \cup {0}, due : BOOLEAN]
    BY <1>2
  <2> QED
    BY <2>1, <2>2, <2>3, <2>4, <2>6, <2>5 DEF KeysTyped
<1>4. OneOfEach
  BY <1>2 DEF OneOfEach
<1>5. SecretsWereMade
  BY <1>2, KeysFacts DEF SecretsWereMade
<1>6. BetweenEras
  BY <1>2, KeysFacts DEF BetweenEras, WasRevoked, Keys!NoConnection
<1> QED
  BY <1>2, <1>3, <1>4, <1>5, <1>6 DEF KeysInv

CredentialsInv == part = "credentials" => KeysInv

LEMMA CredentialsKept == (Init => CredentialsInv) /\ (CredentialsInv /\ [Next]_vars => CredentialsInv')
<1>1. Init => CredentialsInv
  BY KeysStart DEF Init, CredentialsInv
<1>2. ASSUME CredentialsInv, [Next]_vars PROVE CredentialsInv'
  <2>1. part' = part
    BY <1>2 DEF Next, vars
  <2>2. SUFFICES ASSUME part = "credentials", KeysInv PROVE KeysInv'
    BY <1>2, <2>1 DEF CredentialsInv
  <2>3. CASE Keys!Next
    <3>1. CASE \E c \in Actors : Keys!Request(c)
      BY <2>2, <3>1, AuthenticateKeepsKeys, RejectKeepsKeys, HandlerKeepsKeys, LoseKeepsKeys, SendKeepsKeys,
         ConfirmKeepsKeys, CreatePendingKeepsKeys, AnswerKeepsKeys DEF Keys!Request
    <3>2. CASE Keys!Administer \/ Keys!FortnightPasses \/ Keys!RotationFallsDue
      BY <2>2, <3>2, IssueKeepsKeys, PasteKeepsKeys, RevokeAllKeepsKeys, TimeKeepsKeys DEF Keys!Administer
    <3> QED
      BY <2>3, <3>1, <3>2 DEF Keys!Next
  <2>4. CASE UNCHANGED credentials
    <3>1. UNCHANGED <<state, expired, connection, plugin, request, sent, admin, crossed>>
      BY <2>4 DEF credentials
    <3> QED
      BY <2>2, <3>1 DEF KeysInv, KeysTyped, OneOfEach, SecretsWereMade, Made, BetweenEras, InEra, Holds, WasRevoked
  <2> QED
    BY <1>2, <2>2, <2>3, <2>4 DEF Next, vars
<1> QED
  BY <1>1, <1>2

\* For any number of credentials and of requests under way at once: a rotation never locks the
\* plugin out, and a revocation that no request crossed is complete (SiteCredentialService,
\* PluginAuthenticationService and apply_rotation of the plugin).
THEOREM AccessAlwaysFollows == Spec => []AccessFollowsCredential
<1>1. CredentialsInv => AccessFollowsCredential
  BY KeysFollow DEF CredentialsInv, AccessFollowsCredential
<1> QED
  BY <1>1, CredentialsKept, PTL DEF Spec

================================================================================
