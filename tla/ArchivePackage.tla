----------------------------- MODULE ArchivePackage -----------------------------
(* The package of one backup, from the archives the worker builds to the      *)
(* objects in Dropbox: files are described and checked against the checksum   *)
(* file, then uploaded in chunks to every destination with an access token    *)
(* that is refreshed when it runs out, or with one that is configured.        *)
EXTENDS Naturals, Sequences

CONSTANTS
    Destinations,   \* number of backup destinations
    Chunk,          \* bytes in a chunk (8 MiB)
    MaxSize,        \* bound: bytes in a file
    Lifetimes,      \* lifetimes the provider may give an access token
    Shortest,       \* the shortest lifetime that is believed (300 s)
    Margin,         \* a token is not used so shortly before its end (60 s)
    StaticEnds,     \* times at which configured access tokens may end
    MaxTime,        \* bound: time
    MaxDamages      \* bound: files that change on the disk

PackageAssumption ==
    /\ Destinations \in Nat \ {0} /\ Chunk \in Nat \ {0} /\ MaxSize \in Nat \ {0}
    /\ Lifetimes \subseteq Nat /\ Shortest \in Nat \ {0} /\ Margin \in Nat \ {0}
    /\ StaticEnds \subseteq Nat \ {0}
    /\ MaxTime \in Nat /\ MaxDamages \in Nat

VARIABLES
    included,       \* what the artifact asks for
    granted,        \* of each destination: the end of its access token, or that it has a refresh token
    at,             \* the step of the worker
    built,          \* the files of the package, in the order in which they were described
    disk,           \* the files in the work directory: is each what was first written?
    checksum,       \* BuiltBackupArtifact.checksumSha256: was it taken of that?
    place,          \* the destination and the file of the upload under way
    size,           \* size of the file under way
    offset,         \* where its next chunk begins
    session,        \* the upload session at Dropbox, and what was committed of it
    remote,         \* the objects at Dropbox
    saved,          \* backup_artifact_objects
    token,          \* the access token that the provider under way keeps
    time,           \* the time
    damages,        \* files changed so far
    late,           \* ghost: a file changed when nothing checks it any more
    refused         \* ghost: a token that was made had ended when it was used, though it lived long enough

disks == <<disk, damages>>
package == <<included, granted, built, checksum>>
upload == <<place, size, offset, session>>
vars == <<at, package, disks, upload, remote, saved, token, time, late, refused>>

\* authMode: a refresh token, from which access tokens are made.
Refreshes == 0

NoToken == [believed |-> 0, ends |-> 0, brief |-> FALSE]

NoSession == [received |-> 0, intact |-> TRUE]

Files == {"files", "database", "readme", "manifest", "checksums"}

Steps == {"building", "verifying", "starting", "appending", "checking", "saving", "completed", "failed"}

Current == built[place[2]]

--------------------------------------------------------------------------------
(* Building *)

\* The archives that were asked for, then the restore instructions, the manifest of
\* those, and the checksums of all.
Following(done) ==
    IF included \ done # {} THEN included \ done
    ELSE IF "readme" \notin done THEN {"readme"}
    ELSE IF "manifest" \notin done THEN {"manifest"} ELSE {"checksums"}

\* A file is written and described; one that cannot be made, or is empty, ends the run.
Describe ==
    /\ at = "building"
    /\ \E f \in Following({built[i] : i \in DOMAIN built}) :
          /\ f = "database" => "files" \notin included \ {built[i] : i \in DOMAIN built}
          /\ built' = Append(built, f)
          /\ disk' = [disk EXCEPT ![f] = "written"]
          /\ checksum' = [checksum EXCEPT ![f] = "written"]
          /\ at' = IF f = "checksums" THEN "verifying" ELSE at
    /\ UNCHANGED <<included, granted, upload, remote, saved, token, time, damages, late, refused>>

\* Mutant: the archives are not read again.
ChecksNames == \A f \in {"readme", "manifest"} : disk[f] = checksum[f]

ChecksumsAgree == \A f \in {built[i] : i \in DOMAIN built} \ {"checksums"} : disk[f] = checksum[f]

VerifyChecksums ==
    /\ at = "verifying"
    /\ at' = IF ChecksumsAgree THEN "starting" ELSE "failed"
    /\ place' = <<1, 1>>
    /\ UNCHANGED <<package, disks, size, offset, session, remote, saved, token, time, late, refused>>

--------------------------------------------------------------------------------
(* Requests to Dropbox *)

Larger(a, b) == IF a > b THEN a ELSE b

\* Mutant: a token is used up to the moment that was noted.
UsedToTheEnd == token.believed >= time

Usable == token.believed > time + Margin

Static == granted[place[1]] # Refreshes

\* authorizationHeader: the access token that is configured, whether it has ended or
\* not; otherwise the token that is kept, or a new one, for the time that the provider
\* says but no less than five minutes.
Authorize ==
    \/ (Static \/ Usable) /\ UNCHANGED token
    \/ /\ ~Static /\ ~Usable
       /\ \E life \in Lifetimes :
             token' = [believed |-> time + Larger(Shortest, life), ends |-> time + life, brief |-> life < Shortest]

\* A token is good for as long as it lives; one that is not is refused.
Accepted == IF Static THEN granted[place[1]] > time ELSE token'.ends > time

Note == refused' = (refused \/ (~Static /\ ~Accepted /\ ~token'.brief))

Fail == at' = "failed" /\ UNCHANGED upload

\* Mutant: every chunk is read from the beginning of the file.
ReadsFirst(from) == disk[Current] = "written" /\ from = 0

\* The chunk at an offset, as the disk has it at that moment.
ReadChunk(from) == disk[Current] = "written"

ChunkSize(from) == IF size - from < Chunk THEN size - from ELSE Chunk

StartUpload ==
    /\ at = "starting"
    /\ Authorize /\ Note
    /\ \E bytes \in 1 .. MaxSize :
          /\ size' = bytes
          /\ offset' = IF bytes < Chunk THEN bytes ELSE Chunk
          /\ session' = [received |-> offset', intact |-> ReadChunk(0)]
    /\ UNCHANGED place
    /\ at' = IF Accepted THEN "appending" ELSE "failed"
    /\ UNCHANGED <<package, disks, remote, saved, time, late>>

\* append_v2, and finish for the last chunk: the session must be at the offset.
Received(from) ==
    [received |-> from + ChunkSize(from), intact |-> session.intact /\ ReadChunk(from)]

Appending == at = "appending" /\ offset < size /\ Authorize /\ Note

AppendChunk ==
    /\ Appending
    /\ offset + ChunkSize(offset) < size
    /\ IF Accepted /\ session.received = offset
       THEN at' = at /\ session' = Received(offset) /\ offset' = offset + ChunkSize(offset) /\ UNCHANGED <<place, size>>
       ELSE Fail
    /\ UNCHANGED <<package, disks, remote, saved, time, late>>

\* What is committed is what the session has received; it replaces what is at the path.
Commit(received) ==
    /\ remote' = [remote EXCEPT ![place[1]][Current] = IF received.intact THEN "intact" ELSE "other"]
    /\ session' = received

FinishLast ==
    /\ Appending
    /\ offset + ChunkSize(offset) = size
    /\ IF Accepted /\ session.received = offset
       THEN /\ Commit(Received(offset))
            /\ at' = "checking" /\ offset' = size /\ UNCHANGED <<place, size>>
       ELSE Fail /\ UNCHANGED remote
    /\ UNCHANGED <<package, disks, saved, time, late>>

OneChunk == ChunkSize(0) = size

\* A file of one chunk is finished by a request of its own.
FinishOnly ==
    /\ at = "appending" /\ offset = size /\ OneChunk
    /\ Authorize /\ Note
    /\ IF Accepted
       THEN Commit(session) /\ at' = "checking" /\ UNCHANGED <<place, size, offset>>
       ELSE Fail /\ UNCHANGED remote
    /\ UNCHANGED <<package, disks, saved, time, late>>

\* Only the size is compared with what Dropbox has at the path.
GetMetadata ==
    /\ at = "checking"
    /\ Authorize /\ Note
    /\ at' = IF Accepted /\ session.received = size THEN "saving" ELSE "failed"
    /\ UNCHANGED <<package, disks, upload, remote, saved, time, late>>

\* The object is recorded with the checksum that its file was described with. Every
\* destination has a provider of its own, with its token.
SaveObject ==
    /\ at = "saving"
    /\ saved' = saved \cup {<<place[1], Current>>}
    /\ \/ /\ place[2] < Len(built)
          /\ place' = <<place[1], place[2] + 1>> /\ at' = "starting"
       \/ /\ place[2] = Len(built) /\ place[1] < Destinations
          /\ place' = <<place[1] + 1, 1>> /\ at' = "starting"
       \/ /\ place = <<Destinations, Len(built)>>
          /\ at' = "completed" /\ UNCHANGED place
    /\ token' = IF place'[1] = place[1] THEN token ELSE NoToken
    /\ size' = 0 /\ offset' = 0 /\ session' = NoSession
    /\ UNCHANGED <<package, disks, remote, time, late, refused>>

--------------------------------------------------------------------------------
(* The system *)

\* A tool, a request or a statement fails, and the package with it; an answer that is
\* lost may leave its object behind.
FailPackage ==
    /\ at \notin {"completed", "failed"}
    /\ at' = "failed"
    /\ \/ UNCHANGED <<remote, session>>
       \/ at = "appending" /\ offset + ChunkSize(offset) = size /\ Commit(Received(offset))
    /\ UNCHANGED <<package, disks, place, size, offset, saved, token, time, late, refused>>

\* A file in the work directory changes; what is described afterwards is what it is then.
ChangeFile ==
    /\ damages < MaxDamages /\ at \notin {"completed", "failed"}
    /\ \E f \in Files :
          /\ disk[f] = "written"
          /\ disk' = [disk EXCEPT ![f] = "changed"]
          /\ late' = (late \/ at \notin {"building", "verifying"} \/ f = "checksums")
    /\ damages' = damages + 1
    /\ UNCHANGED <<at, package, upload, remote, saved, token, time, refused>>

TimePasses ==
    /\ time < MaxTime /\ at \in Steps \ {"building", "verifying", "completed", "failed"}
    /\ time' = time + 1
    /\ UNCHANGED <<at, package, disks, upload, remote, saved, token, late, refused>>

Init ==
    /\ included \in (SUBSET {"files", "database"}) \ {{}}
    /\ granted \in [1 .. Destinations -> StaticEnds \cup {Refreshes}]
    /\ at = "building" /\ built = <<>>
    /\ disk = [f \in Files |-> "absent"] /\ checksum = [f \in Files |-> "absent"]
    /\ place = <<1, 1>> /\ size = 0 /\ offset = 0 /\ session = NoSession
    /\ remote = [d \in 1 .. Destinations |-> [f \in Files |-> "absent"]]
    /\ saved = {} /\ token = NoToken /\ time = 0 /\ damages = 0 /\ late = FALSE /\ refused = FALSE

Next ==
    \/ Describe \/ VerifyChecksums
    \/ StartUpload \/ AppendChunk \/ FinishLast \/ FinishOnly \/ GetMetadata \/ SaveObject
    \/ FailPackage \/ ChangeFile \/ TimePasses

Spec == Init /\ [][Next]_vars

--------------------------------------------------------------------------------
(* What is promised of packages *)

\* The package has the shape that the manifest and the objects record.
ArchiveTypeOK ==
    /\ included \subseteq Files /\ granted \in [1 .. Destinations -> StaticEnds \cup {Refreshes}] /\ at \in Steps /\ built \in Seq(Files)
    /\ disk \in [Files -> {"absent", "written", "changed"}] /\ checksum \in [Files -> {"absent", "written"}]
    /\ size \in 0 .. MaxSize /\ offset \in 0 .. size /\ session.received \in 0 .. MaxSize
    /\ saved \subseteq (1 .. Destinations) \X Files

\* Every object that is recorded as verified has, whole and in order, what its
\* checksum was taken of, for files of any size, unless the file changed after the
\* checksums were verified: with Dropbox only the size is compared.
RecordedIsWhole ==
    \A d \in 1 .. Destinations, f \in Files : <<d, f>> \in saved /\ ~late => remote[d][f] = "intact"

\* A completed package is all that was asked for, at every destination, also when the
\* access token of one of them ended on the way.
CompletedEverywhere ==
    at = "completed" => saved = (1 .. Destinations) \X (included \cup (Files \ {"files", "database"}))

\* A destination with a refresh token sends no request with an access token that has
\* ended, unless the provider's tokens live for less than the five minutes that are
\* assumed.  A configured access token is sent after its end too: nothing knows it.
TokensAreGood == ~refused

\* Packages arrive as they were built.
PackageSound == ArchiveTypeOK /\ RecordedIsWhole /\ CompletedEverywhere /\ TokensAreGood

================================================================================
