----------------------------- MODULE PluginPackages -----------------------------
(* The plugin packages that rollouts install: administrators upload archives, *)
(* which wait in quarantine until they are inspected and get a directory and  *)
(* a row each; a rollout announces the checksum of one to a site, which       *)
(* downloads it once with a token.  A package is known by its checksum, so a  *)
(* content stands for it.                                                     *)
EXTENDS Naturals, FiniteSets

CONSTANTS
    Uploads,        \* uploads, each with a package id of its own
    Contents,       \* archives
    Sound,          \* those that the inspection accepts
    Tokens,         \* download tokens, drawn at random
    Downloads,      \* requests of sites under way at once
    None,           \* no archive, no row
    Life,           \* how long a token lasts (10 minutes)
    MaxTime,        \* bound: time
    MaxDamages      \* bound: files damaged on the disk

PackagesAssumption ==
    /\ Sound \subseteq Contents /\ None \notin Contents \cup Uploads
    /\ Life \in Nat /\ MaxTime \in Nat /\ MaxDamages \in Nat

VARIABLES
    upload,         \* what each upload has done
    quarantine,     \* the uploads whose file is in quarantine
    stored,         \* the file in the directory of each package id
    packages,       \* plugin_update_packages: the id in the storage path, by checksum
    tokens,         \* plugin_package_download_tokens
    download,       \* what each request of a site is about to read
    time,           \* the time
    damages,        \* files damaged so far
    installed,      \* ghost: what sites received for what was announced to them
    misused,        \* ghost: tokens that were claimed twice or too late
    broken,         \* ghost: the uploads that a crash cut off or that failed after the move
    overlapped      \* ghost: two uploads of one archive were under way at once

files == <<quarantine, stored>>
downloads == <<tokens, download, installed, misused>>
vars == <<upload, files, packages, downloads, time, damages, broken, overlapped>>

Damaged == "damaged"

Upload == [at : {"new", "quarantined", "inspected", "unknown", "moved", "saved", "caught", "ended"},
           content : Contents \cup {None}]

Token == [at : {"absent", "unused", "used"}, content : Contents \cup {None}, expires : 0 .. MaxTime + Life]

NoToken == [at |-> "absent", content |-> None, expires |-> 0]

Under(u) == upload[u].at \notin {"new", "ended"}

Goto(u, step) == upload' = [upload EXCEPT ![u].at = step]

--------------------------------------------------------------------------------
(* Uploading *)

\* The file goes to quarantine under the new package id.
WriteFile(u) ==
    /\ upload[u].at = "new"
    /\ \E content \in Contents :
          /\ upload' = [upload EXCEPT ![u] = [at |-> "quarantined", content |-> content]]
          /\ overlapped' = (overlapped \/ \E v \in Uploads \ {u} : Under(v) /\ upload[v].content = content)
    /\ quarantine' = quarantine \cup {u}
    /\ UNCHANGED <<stored, packages, downloads, time, damages, broken>>

\* Mutant: whatever can be opened is accepted.
AcceptsAll(content) == TRUE

Accepts(content) == content \in Sound

Inspect(u) ==
    /\ upload[u].at = "quarantined"
    /\ Goto(u, IF Accepts(upload[u].content) THEN "inspected" ELSE "caught")
    /\ UNCHANGED <<files, packages, downloads, time, damages, broken, overlapped>>

\* A known checksum ends the upload; its file is removed again.
FindDuplicate(u) ==
    LET known == packages[upload[u].content] # None IN
    /\ upload[u].at = "inspected"
    /\ Goto(u, IF known THEN "ended" ELSE "unknown")
    /\ quarantine' = IF known THEN quarantine \ {u} ELSE quarantine
    /\ UNCHANGED <<stored, packages, downloads, time, damages, broken, overlapped>>

Move(u) ==
    /\ upload[u].at = "unknown"
    /\ quarantine' = quarantine \ {u}
    /\ stored' = [stored EXCEPT ![u] = upload[u].content]
    /\ Goto(u, "moved")
    /\ UNCHANGED <<packages, downloads, time, damages, broken, overlapped>>

\* ON CONFLICT (checksum_sha256): the row that is there stays as it is.
SavePackage(u) ==
    /\ upload[u].at = "moved"
    /\ packages' = [packages EXCEPT ![upload[u].content] = IF @ = None THEN u ELSE @]
    /\ Goto(u, "saved")
    /\ UNCHANGED <<files, downloads, time, damages, broken, overlapped>>

\* The audit entry, at last.
Finish(u) ==
    /\ upload[u].at = "saved"
    /\ Goto(u, "ended")
    /\ UNCHANGED <<files, packages, downloads, time, damages, broken, overlapped>>

\* A file operation or a statement fails, the last one after the row is there.
Fail(u) ==
    /\ upload[u].at \in {"quarantined", "inspected", "unknown", "moved", "saved"}
    /\ Goto(u, "caught")
    /\ broken' = IF upload[u].at = "moved" THEN broken \cup {u} ELSE broken
    /\ UNCHANGED <<files, packages, downloads, time, damages, overlapped>>

\* Mutant: the directory of the package is removed as well.
KeptNothing(u) == [stored EXCEPT ![u] = None]

Kept(u) == stored

\* catch: the file in quarantine is removed, if it is still there.
Reject(u) ==
    /\ upload[u].at = "caught"
    /\ quarantine' = quarantine \ {u}
    /\ stored' = Kept(u)
    /\ Goto(u, "ended")
    /\ UNCHANGED <<packages, downloads, time, damages, broken, overlapped>>

\* The process ends: nobody cleans up.
Crash(u) ==
    /\ Under(u)
    /\ Goto(u, "ended")
    /\ broken' = broken \cup {u}
    /\ UNCHANGED <<files, packages, downloads, time, damages, overlapped>>

--------------------------------------------------------------------------------
(* Downloading *)

\* executeTarget announces a package and its checksum to a site with a new token.
SaveDownloadToken(t) ==
    /\ tokens[t].at = "absent"
    /\ \E content \in Contents :
          /\ packages[content] # None
          /\ tokens' = [tokens EXCEPT ![t] = [at |-> "unused", content |-> content, expires |-> time + Life]]
    /\ UNCHANGED <<upload, files, packages, download, installed, misused, time, damages, broken, overlapped>>

\* Mutant: a token is good until it expires.
UnexpiredOnly(t) == tokens[t].at # "absent" /\ tokens[t].expires >= time

Claimable(t) == tokens[t].at = "unused" /\ tokens[t].expires >= time

\* One UPDATE claims the token of a request, which may have been sent twice.
ClaimPackage(d, t) ==
    /\ download[d] = None /\ Claimable(t)
    /\ tokens' = [tokens EXCEPT ![t].at = "used"]
    /\ misused' = misused \cup (IF tokens[t].at = "used" \/ tokens[t].expires < time THEN {t} ELSE {})
    /\ download' = [download EXCEPT ![d] = tokens[t].content]
    /\ UNCHANGED <<upload, files, packages, installed, time, damages, broken, overlapped>>

\* Mutant: the file is sent as it is.
Unchecked(d) == TRUE

\* The checksum is verified again before the file is sent, and once more by the site.
Verified(d) == stored[packages[download[d]]] = download[d]

Serve(d) ==
    /\ download[d] # None /\ Verified(d)
    /\ installed' = installed \cup {<<download[d], stored[packages[download[d]]]>>}
    /\ download' = [download EXCEPT ![d] = None]
    /\ UNCHANGED <<upload, files, packages, tokens, misused, time, damages, broken, overlapped>>

\* The answer is lost or refused: the token is gone.
Lose(d) ==
    /\ download[d] # None
    /\ download' = [download EXCEPT ![d] = None]
    /\ UNCHANGED <<upload, files, packages, tokens, installed, misused, time, damages, broken, overlapped>>

--------------------------------------------------------------------------------
(* The system *)

Damage ==
    /\ damages < MaxDamages
    /\ damages' = damages + 1
    /\ \E u \in Uploads : stored[u] # None /\ stored' = [stored EXCEPT ![u] = Damaged]
    /\ UNCHANGED <<upload, quarantine, packages, downloads, time, broken, overlapped>>

TimePasses ==
    /\ time < MaxTime
    /\ time' = time + 1
    /\ UNCHANGED <<upload, files, packages, downloads, damages, broken, overlapped>>

Init ==
    /\ upload = [u \in Uploads |-> [at |-> "new", content |-> None]]
    /\ quarantine = {} /\ stored = [u \in Uploads |-> None]
    /\ packages = [c \in Contents |-> None]
    /\ tokens = [t \in Tokens |-> NoToken] /\ download = [d \in Downloads |-> None]
    /\ time = 0 /\ damages = 0
    /\ installed = {} /\ misused = {} /\ broken = {} /\ overlapped = FALSE

Next ==
    \/ Damage \/ TimePasses
    \/ \E u \in Uploads :
          \/ WriteFile(u) \/ Inspect(u) \/ FindDuplicate(u) \/ Move(u) \/ SavePackage(u) \/ Finish(u)
          \/ Fail(u) \/ Reject(u) \/ Crash(u)
    \/ \E t \in Tokens : SaveDownloadToken(t) \/ \E d \in Downloads : ClaimPackage(d, t)
    \/ \E d \in Downloads : Serve(d) \/ Lose(d)

Spec == Init /\ [][Next]_vars

--------------------------------------------------------------------------------
(* What is promised of packages *)

\* Files, rows and requests have the shape of their tables and of the code.
PackagesTypeOK ==
    /\ upload \in [Uploads -> Upload] /\ quarantine \subseteq Uploads
    /\ stored \in [Uploads -> Contents \cup {Damaged, None}]
    /\ packages \in [Contents -> Uploads \cup {None}]
    /\ tokens \in [Tokens -> Token] /\ download \in [Downloads -> Contents \cup {None}]
    /\ time \in 0 .. MaxTime /\ damages \in 0 .. MaxDamages
    /\ misused \subseteq Tokens /\ broken \subseteq Uploads /\ overlapped \in BOOLEAN

\* A row names the file of an inspected archive, whatever uploads of it overlap, fail
\* after the row is there or are cut off.
RowsHaveFiles ==
    \A c \in Contents : packages[c] # None => c \in Sound /\ stored[packages[c]] \in {c, Damaged}

\* A site receives what was announced to it or nothing, and a token once and in time.
SitesReceiveAnnounced == misused = {} /\ \A pair \in installed : pair[1] = pair[2] /\ pair[1] \in Sound

\* No file is left without a row and none in quarantine, but by uploads that were cut
\* off, failed between file and row, or raced another for the same archive.
NothingLeftBehind ==
    \A u \in Uploads \ broken :
        upload[u].at = "ended" =>
            /\ u \notin quarantine
            /\ stored[u] = None \/ overlapped \/ packages[upload[u].content] = u

\* Packages are kept, announced and received as they were inspected.
PackagesSound == PackagesTypeOK /\ RowsHaveFiles /\ SitesReceiveAnnounced /\ NothingLeftBehind

================================================================================
