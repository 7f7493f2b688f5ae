-------------------------- MODULE HostingerPortfolio ---------------------------
(* What the dashboard knows of the hosting account of each site: the rows of  *)
(* hostinger_site_connections, written by synchronizations, of a schedule and *)
(* of administrators, that read the listings of the provider page by page.    *)
EXTENDS Naturals, Sequences, FiniteSets

CONSTANTS
    Calls,          \* synchronizations under way at once
    Sites,          \* managed sites, each with a domain of its own
    PageSize,       \* websites the provider lists on a page (50)
    MaxPages,       \* pages that are asked for (20)
    MaxSyncs,       \* bound: synchronizations
    MaxMoves        \* bound: changes at the provider

PortfolioAssumption ==
    {PageSize, MaxPages} \subseteq Nat \ {0} /\ {MaxSyncs, MaxMoves} \subseteq Nat /\ IsFiniteSet(Sites)

VARIABLES
    active,         \* the sites whose status is active
    websites,       \* the provider's websites, in the order of its listing
    installations,  \* the sites it has a WordPress installation of
    row,            \* hostinger_site_connections
    sync,           \* what each synchronization has in hand
    syncs,          \* synchronizations so far, whose number stands for the time
    moves,          \* changes at the provider so far
    known,          \* ghost: what the last listing that was saved said of each site
    missed,         \* ghost: sites not found although their website was listed all along
    overlapped      \* ghost: a synchronization began while another was under way

vars == <<active, websites, installations, row, sync, syncs, moves, known, missed, overlapped>>

\* lastSyncedAt is the number of the synchronization; 0 is NULL.
Row == [availability : {"not-synchronized", "available", "not-found", "not-configured", "provider-error"},
        website : BOOLEAN, installation : BOOLEAN, lastSyncedAt : 0 .. MaxSyncs]

NotSynchronized ==
    [availability |-> "not-synchronized", website |-> FALSE, installation |-> FALSE, lastSyncedAt |-> 0]

Sync == [at : {"idle", "websites", "installations", "save", "read", "unavailable"}, number : 0 .. MaxSyncs,
         sites : SUBSET Sites, todo : SUBSET Sites, page : Nat, listed : SUBSET Sites,
         installed : SUBSET Sites, reason : {"not-configured", "provider-error"}, copy : Row,
         steady : SUBSET Sites, shifted : BOOLEAN]

IdleSync == [at |-> "idle", number |-> 0, sites |-> {}, todo |-> {}, page |-> 1, listed |-> {},
             installed |-> {}, reason |-> "provider-error", copy |-> NotSynchronized,
             steady |-> {}, shifted |-> FALSE]

Listing == {websites[i] : i \in DOMAIN websites}

Goto(c, value) == sync' = [sync EXCEPT ![c] = value]

Unavailable(c, reason) ==
    [IdleSync EXCEPT !.at = "read", !.number = sync[c].number, !.todo = sync[c].sites, !.reason = reason]

--------------------------------------------------------------------------------
(* A synchronization *)

Synchronize(c) ==
    /\ sync[c].at = "idle" /\ syncs < MaxSyncs
    /\ syncs' = syncs + 1
    /\ Goto(c, [IdleSync EXCEPT !.at = "websites", !.number = syncs + 1, !.sites = active, !.todo = active,
                                !.steady = Listing])
    /\ overlapped' = (overlapped \/ \E d \in Calls : sync[d].at # "idle")
    /\ UNCHANGED <<active, websites, installations, row, moves, known, missed>>

\* Mutant: a page that is full is taken for the last.
FirstPageOnly(page, length) == page >= 1

\* meta.last_page, an empty page, or as many pages as are asked for at most.
LastPage(page, length) == page * PageSize >= length \/ page = MaxPages

FetchPage(c) ==
    /\ sync[c].at = "websites"
    /\ LET page == sync[c].page
           found == {websites[i] : i \in {j \in DOMAIN websites :
                        (page - 1) * PageSize < j /\ j <= page * PageSize}} IN
       Goto(c, [sync[c] EXCEPT !.listed = @ \cup found,
                               !.shifted = @ \/ (page = MaxPages /\ page * PageSize < Len(websites)),
                               !.at = IF LastPage(page, Len(websites)) THEN "installations" ELSE @,
                               !.page = IF LastPage(page, Len(websites)) THEN 1 ELSE page + 1])
    /\ UNCHANGED <<active, websites, installations, row, syncs, moves, known, missed, overlapped>>

\* No token is configured, or a page is refused: nothing of this listing is used.
ListingFails(c) ==
    /\ sync[c].at = "websites"
    /\ \E reason \in {"not-configured", "provider-error"} :
          /\ reason = "not-configured" => sync[c].page = 1
          /\ Goto(c, Unavailable(c, reason))
    /\ UNCHANGED <<active, websites, installations, row, syncs, moves, known, missed, overlapped>>

\* Installations only add to what is known; that they cannot be listed is a warning.
FetchInstallations(c) ==
    /\ sync[c].at = "installations"
    /\ \E installed \in {installations, {}} :
          Goto(c, [sync[c] EXCEPT !.at = "save", !.installed = installed])
    /\ UNCHANGED <<active, websites, installations, row, syncs, moves, known, missed, overlapped>>

\* Mutant: a site is found by its installation.
ByInstallation(c, s) == s \in sync[c].installed

\* "Boolean(website || installation)", matched by domain.
Available(c, s) == s \in sync[c].listed \/ s \in sync[c].installed

\* All sites are saved; the listing is not needed any more.
Saved(c) == [IdleSync EXCEPT !.at = "save", !.number = sync[c].number, !.sites = sync[c].sites]

SaveSite(c) ==
    /\ sync[c].at = "save"
    /\ \E s \in sync[c].todo :
          LET saved == [availability |-> IF Available(c, s) THEN "available" ELSE "not-found",
                        website |-> s \in sync[c].listed, installation |-> s \in sync[c].installed,
                        lastSyncedAt |-> sync[c].number]
              sure == s \in sync[c].steady /\ ~sync[c].shifted IN
          /\ row' = [row EXCEPT ![s] = saved]
          /\ known' = [known EXCEPT ![s] = saved]
          /\ missed' = IF saved.availability = "not-found" /\ sure THEN missed \cup {s} ELSE missed
          /\ Goto(c, IF sync[c].todo = {s} THEN Saved(c) ELSE [sync[c] EXCEPT !.todo = @ \ {s}])
    /\ UNCHANGED <<active, websites, installations, syncs, moves, overlapped>>

\* Whatever throws, a row that cannot be saved or the audit entry after the last one
\* too, makes all sites unavailable.
SaveFails(c) ==
    /\ sync[c].at = "save"
    /\ Goto(c, Unavailable(c, "provider-error"))
    /\ UNCHANGED <<active, websites, installations, row, syncs, moves, known, missed, overlapped>>

\* The audit entry; or there is no active site.
End(c) ==
    /\ sync[c].at \in {"save", "read"} /\ sync[c].todo = {}
    /\ Goto(c, IdleSync)
    /\ UNCHANGED <<active, websites, installations, row, syncs, moves, known, missed, overlapped>>

--------------------------------------------------------------------------------
(* saveUnavailable *)

ReadExisting(c) ==
    /\ sync[c].at = "read"
    /\ \E s \in sync[c].todo :
          Goto(c, [sync[c] EXCEPT !.at = "unavailable", !.copy = row[s], !.sites = {s}, !.todo = @ \ {s}])
    /\ UNCHANGED <<active, websites, installations, row, syncs, moves, known, missed, overlapped>>

\* Mutant: the row begins anew.
Emptied(c) == [NotSynchronized EXCEPT !.availability = sync[c].reason, !.lastSyncedAt = sync[c].number]

\* "{ ...existing, availability, lastSyncedAt: now }"
Marked(c) == [sync[c].copy EXCEPT !.availability = sync[c].reason, !.lastSyncedAt = sync[c].number]

SaveUnavailable(c) ==
    /\ sync[c].at = "unavailable"
    /\ \E s \in sync[c].sites : row' = [row EXCEPT ![s] = Marked(c)]
    /\ Goto(c, IF sync[c].todo = {} THEN IdleSync ELSE [sync[c] EXCEPT !.at = "read", !.sites = {}, !.copy = NotSynchronized])
    /\ UNCHANGED <<active, websites, installations, syncs, moves, known, missed, overlapped>>

\* The job is lost, or marking the sites fails as well.
Crash(c) ==
    /\ sync[c].at # "idle"
    /\ Goto(c, IdleSync)
    /\ UNCHANGED <<active, websites, installations, row, syncs, moves, known, missed, overlapped>>

--------------------------------------------------------------------------------
(* What changes meanwhile *)

\* A website is added at the end of the listing or taken out of it.
MoveWebsite ==
    /\ moves < MaxMoves /\ moves' = moves + 1
    /\ \E s \in Sites :
          /\ \/ s \notin Listing /\ websites' = Append(websites, s)
             \/ \E i \in DOMAIN websites :
                   websites[i] = s /\ websites' = SubSeq(websites, 1, i - 1) \o SubSeq(websites, i + 1, Len(websites))
          /\ sync' = [c \in Calls |-> IF sync[c].at = "websites"
                                      THEN [sync[c] EXCEPT !.steady = @ \ {s}, !.shifted = TRUE] ELSE sync[c]]
          /\ installations' \in {installations, installations \cup {s}, installations \ {s}}
    /\ UNCHANGED <<active, row, syncs, known, missed, overlapped>>

PauseOrResume ==
    /\ moves < MaxMoves /\ moves' = moves + 1
    /\ \E s \in Sites : active' = IF s \in active THEN active \ {s} ELSE active \cup {s}
    /\ UNCHANGED <<websites, installations, row, sync, syncs, known, missed, overlapped>>

\* Any order of any websites the account has had.
Orders == UNION {{q \in [1 .. Cardinality(some) -> some] : {q[i] : i \in DOMAIN q} = some} : some \in SUBSET Sites}

Init ==
    /\ active = Sites /\ websites \in Orders /\ installations = {}
    /\ row = [s \in Sites |-> NotSynchronized]
    /\ sync = [c \in Calls |-> IdleSync]
    /\ syncs = 0 /\ moves = 0
    /\ known = row /\ missed = {} /\ overlapped = FALSE

Next ==
    \/ \E c \in Calls :
          \/ Synchronize(c) \/ FetchPage(c) \/ ListingFails(c) \/ FetchInstallations(c) \/ SaveSite(c)
          \/ SaveFails(c) \/ End(c) \/ ReadExisting(c) \/ SaveUnavailable(c) \/ Crash(c)
    \/ MoveWebsite \/ PauseOrResume

Spec == Init /\ [][Next]_vars

--------------------------------------------------------------------------------
(* What is promised of it *)

\* Rows and synchronizations have the shape of the table and of the code.
PortfolioTypeOK ==
    /\ row \in [Sites -> Row] /\ known \in [Sites -> Row]
    /\ active \subseteq Sites /\ Listing \subseteq Sites /\ installations \subseteq Sites
    /\ syncs \in 0 .. MaxSyncs /\ moves \in 0 .. MaxMoves
    /\ \A c \in Calls : sync[c].todo \subseteq Sites /\ sync[c].copy \in Row

\* A site is not found only if its website was off the listing for a moment, the
\* listing moved under the pages that were read, or is longer than what is read of
\* it, whether or not installations could be listed.
NotFoundIsTrue == missed = {}

\* A failure of the provider hides nothing of what was known of a site before, and a
\* row says that the site is available only with the details of the last listing,
\* unless synchronizations overlapped.
FailureKeepsDetails ==
    ~overlapped => \A s \in Sites :
        /\ row[s].website = known[s].website /\ row[s].installation = known[s].installation
        /\ row[s].availability = "available" => row[s] = known[s]

\* The hosting of a site is shown as the provider listed it last.
PortfolioSound == PortfolioTypeOK /\ NotFoundIsTrue /\ FailureKeepsDetails

================================================================================
