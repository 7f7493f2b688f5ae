---------------------------- MODULE OperationsProofs ---------------------------
(* What MCOperations asks of its parts holds for any number of actors and     *)
(* things and any bounds.  A behaviour runs one part and every step of it is  *)
(* a step of that part, so each part has its own inductive invariant.         *)
EXTENDS MCOperations, Integers, FiniteSetTheorems, WellFoundedInduction, TLAPS

--------------------------------------------------------------------------------
(* Packages.  An upload owns the directory of its id, so a row names a file   *)
(* that only damage changes; two uploads of one archive find no row of it     *)
(* only when both are under way.                                              *)

\* What an upload has left so far.
UploadFollows(u) ==
    LET at == upload[u].at
        content == upload[u].content
    IN  /\ at # "new" => content \in Archives
        /\ at \in {"new", "quarantined", "inspected", "unknown"} => stored[u] = none
        /\ at \in {"inspected", "unknown", "moved", "saved"} => content \in Inspected
        /\ at \in {"moved", "saved"} => stored[u] \in {content, Packages!Damaged}
        /\ at \in {"new", "moved", "saved"} => u \notin quarantine
        /\ at \in {"unknown", "moved"} => raced \/ packages[content] = none
        /\ at = "saved" => raced \/ packages[content] = u
        /\ at \in {"caught", "ended"} /\ u \notin broken =>
              stored[u] = none \/ raced \/ packages[content] = u
        /\ at = "ended" /\ u \notin broken => u \notin quarantine

\* Uploads of one archive do not overlap unseen.
UploadsAlone ==
    ~raced => \A u, v \in Actors :
                 Packages!Under(u) /\ Packages!Under(v) /\ upload[u].content = upload[v].content => u = v

\* The row of an archive names an upload that saved it.
RowNamesUpload ==
    \A a \in Archives :
        packages[a] # none =>
            /\ upload[packages[a]].at \in {"saved", "caught", "ended"}
            /\ a \in Inspected /\ stored[packages[a]] \in {a, Packages!Damaged}

DownloadsFollow ==
    /\ \A t \in Tokens : tokens[t].at # "absent" => tokens[t].content \in Archives /\ packages[tokens[t].content] # none
    /\ \A d \in Actors : download[d] # none => packages[download[d]] # none
    /\ Packages!SitesReceiveAnnounced

PackagesInv ==
    /\ Packages!PackagesTypeOK
    /\ \A u \in Actors : UploadFollows(u)
    /\ UploadsAlone
    /\ RowNamesUpload
    /\ DownloadsFollow

LEMMA PackageFacts ==
    /\ Inspected \subseteq Archives /\ none \notin Archives \cup Actors
    /\ Life \in Nat /\ MaxPackageTime \in Nat /\ MaxDamages \in Nat
BY OperationsAssumption DEF Packages!PackagesAssumption

\* A step of one upload that saves no row.
LEMMA UploadKeepsPackages ==
    ASSUME PackagesInv, NEW u \in Actors, NEW v \in Packages!Upload, upload' = [upload EXCEPT ![u] = v],
           NEW file \in Archives \cup {Packages!Damaged, none}, stored' = [stored EXCEPT ![u] = file],
           quarantine' \subseteq Actors, \A w \in Actors \ {u} : w \in quarantine' <=> w \in quarantine,
           broken' \subseteq Actors, \A w \in Actors \ {u} : w \in broken' <=> w \in broken,
           raced' \in BOOLEAN, raced => raced',
           UNCHANGED <<packages, tokens, download, installed, misused, time, damages>>,
           UploadFollows(u)',
           ~raced' => \A w \in Actors \ {u} : Packages!Under(w) /\ v.at \notin {"new", "ended"} =>
                                                  upload[w].content # v.content,
           \A a \in Archives : packages[a] = u =>
               /\ v.at \in {"saved", "caught", "ended"}
               /\ file \in {a, Packages!Damaged}
    PROVE  PackagesInv'
<1>1. /\ upload \in [Actors -> Packages!Upload] /\ upload' \in [Actors -> Packages!Upload]
      /\ stored \in [Actors -> Archives \cup {Packages!Damaged, none}]
      /\ stored' \in [Actors -> Archives \cup {Packages!Damaged, none}]
      /\ upload'[u] = v /\ stored'[u] = file
      /\ \A w \in Actors \ {u} : upload'[w] = upload[w] /\ stored'[w] = stored[w]
  BY DEF PackagesInv, Packages!PackagesTypeOK
<1>2. Packages!PackagesTypeOK'
  BY <1>1 DEF PackagesInv, Packages!PackagesTypeOK
<1>3. ASSUME NEW w \in Actors PROVE UploadFollows(w)'
  <2>1. CASE w = u
    BY <2>1
  <2>2. CASE w # u
    BY <1>1, <1>3, <2>2 DEF PackagesInv, UploadFollows
  <2> QED
    BY <2>1, <2>2
<1>4. UploadsAlone'
  <2> SUFFICES ASSUME ~raced', NEW w \in Actors, NEW x \in Actors, Packages!Under(w)', Packages!Under(x)',
                      upload'[w].content = upload'[x].content
               PROVE  w = x
    BY DEF UploadsAlone
  <2>1. CASE w # u /\ x # u
    BY <1>1, <2>1 DEF PackagesInv, UploadsAlone, Packages!Under
  <2>2. CASE w = u /\ x # u
    BY <1>1, <2>2 DEF Packages!Under
  <2>3. CASE w # u /\ x = u
    BY <1>1, <2>3 DEF Packages!Under
  <2> QED
    BY <2>1, <2>2, <2>3
<1>5. RowNamesUpload'
  <2> SUFFICES ASSUME NEW a \in Archives, packages[a] # none
               PROVE  /\ upload'[packages[a]].at \in {"saved", "caught", "ended"}
                      /\ a \in Inspected /\ stored'[packages[a]] \in {a, Packages!Damaged}
    BY DEF RowNamesUpload
  <2>1. packages[a] \in Actors
    BY DEF PackagesInv, Packages!PackagesTypeOK
  <2>2. CASE packages[a] = u
    BY <1>1, <2>2 DEF PackagesInv, RowNamesUpload
  <2>3. CASE packages[a] # u
    BY <1>1, <2>1, <2>3 DEF PackagesInv, RowNamesUpload
  <2> QED
    BY <2>2, <2>3
<1> QED
  BY <1>2, <1>3, <1>4, <1>5 DEF PackagesInv, DownloadsFollow, Packages!SitesReceiveAnnounced

LEMMA UploadsKeepPackages ==
    ASSUME PackagesInv, NEW u \in Actors,
           \/ Packages!WriteFile(u) \/ Packages!Inspect(u) \/ Packages!FindDuplicate(u) \/ Packages!Move(u)
           \/ Packages!Finish(u) \/ Packages!Fail(u) \/ Packages!Reject(u) \/ Packages!Crash(u)
    PROVE  PackagesInv'
<1>1. /\ upload \in [Actors -> Packages!Upload] /\ upload[u] \in Packages!Upload
      /\ upload[u].content \in Archives \cup {none}
      /\ stored \in [Actors -> Archives \cup {Packages!Damaged, none}] /\ stored[u] \in Archives \cup {Packages!Damaged, none}
      /\ quarantine \subseteq Actors /\ broken \subseteq Actors /\ raced \in BOOLEAN
      /\ packages \in [Archives -> Actors \cup {none}]
      /\ UploadFollows(u) /\ RowNamesUpload /\ UploadsAlone
  BY DEF PackagesInv, Packages!PackagesTypeOK, Packages!Upload
<1>2. stored = [stored EXCEPT ![u] = stored[u]]
  BY <1>1
<1>3. \A a \in Archives : packages[a] = u =>
         upload[u].at \in {"saved", "caught", "ended"} /\ stored[u] \in {a, Packages!Damaged}
  BY <1>1, PackageFacts DEF RowNamesUpload
<1>4. ~raced => \A w \in Actors \ {u} : Packages!Under(w) /\ upload[u].at \notin {"new", "ended"} =>
                                            upload[w].content # upload[u].content
  BY <1>1 DEF UploadsAlone, Packages!Under
<1>5. CASE Packages!WriteFile(u)
  <2>1. PICK content \in Archives :
          /\ upload' = [upload EXCEPT ![u] = [at |-> "quarantined", content |-> content]]
          /\ raced' = (raced \/ \E v \in Actors \ {u} : Packages!Under(v) /\ upload[v].content = content)
    BY <1>5 DEF Packages!WriteFile
  <2>2. PICK v : v = [at |-> "quarantined", content |-> content]
    OBVIOUS
  <2>3. v \in Packages!Upload /\ v.at = "quarantined" /\ v.content = content
    BY <2>2 DEF Packages!Upload
  <2>4. /\ upload[u].at = "new" /\ quarantine' = quarantine \cup {u} /\ stored' = stored
        /\ UNCHANGED <<packages, tokens, download, installed, misused, time, damages, broken>>
    BY <1>5 DEF Packages!WriteFile, Packages!downloads
  <2>5. UploadFollows(u)'
    BY <1>1, <2>1, <2>2, <2>3, <2>4 DEF UploadFollows
  <2>6. ~raced' => \A w \in Actors \ {u} : Packages!Under(w) /\ v.at \notin {"new", "ended"} =>
                                                  upload[w].content # v.content
    BY <1>1, <2>1, <2>3
  <2>7. \A a \in Archives : packages[a] = u =>
           v.at \in {"saved", "caught", "ended"} /\ stored[u] \in {a, Packages!Damaged}
    BY <1>3, <2>4
  <2>8. /\ quarantine' \subseteq Actors /\ \A w \in Actors \ {u} : w \in quarantine' <=> w \in quarantine
        /\ broken' \subseteq Actors /\ \A w \in Actors \ {u} : w \in broken' <=> w \in broken
        /\ stored' = [stored EXCEPT ![u] = stored[u]] /\ upload' = [upload EXCEPT ![u] = v]
        /\ raced' \in BOOLEAN /\ (raced => raced')
        /\ UNCHANGED <<packages, tokens, download, installed, misused, time, damages>>
    BY <1>1, <1>2, <2>1, <2>2, <2>4
  <2>9. stored[u] \in Archives \cup {Packages!Damaged, none}
    BY <1>1
  <2> QED
    BY <2>3, <2>5, <2>6, <2>7, <2>8, <2>9, UploadKeepsPackages
<1>6. ASSUME NEW step \in {"inspected", "unknown", "saved", "caught", "ended"},
             upload' = [upload EXCEPT ![u].at = step], upload[u].at \notin {"new", "ended"},
             quarantine' \in {quarantine, quarantine \ {u}}, stored' = stored,
             broken' \in {broken, broken \cup {u}},
             UNCHANGED <<packages, tokens, download, installed, misused, time, damages, raced>>,
             UploadFollows(u)', upload[u].at \in {"saved", "caught"} => step \in {"caught", "ended"}
      PROVE  PackagesInv'
  <2>1. PICK v : v = [upload[u] EXCEPT !.at = step]
    OBVIOUS
  <2>2. v \in Packages!Upload /\ v.at = step /\ v.content = upload[u].content
    BY <1>1, <2>1 DEF Packages!Upload
  <2>3. upload' = [upload EXCEPT ![u] = v]
    BY <1>1, <1>6, <2>1
  <2>4. ~raced' => \A w \in Actors \ {u} : Packages!Under(w) /\ v.at \notin {"new", "ended"} =>
                                                  upload[w].content # v.content
    BY <1>4, <1>6, <2>2
  <2>5. \A a \in Archives : packages[a] = u =>
           v.at \in {"saved", "caught", "ended"} /\ stored[u] \in {a, Packages!Damaged}
    BY <1>3, <1>6, <2>2
  <2>6. /\ quarantine' \subseteq Actors /\ \A w \in Actors \ {u} : w \in quarantine' <=> w \in quarantine
        /\ broken' \subseteq Actors /\ \A w \in Actors \ {u} : w \in broken' <=> w \in broken
        /\ stored' = [stored EXCEPT ![u] = stored[u]] /\ raced' \in BOOLEAN /\ (raced => raced')
    BY <1>1, <1>2, <1>6
  <2> QED
    BY <1>1, <1>6, <2>2, <2>3, <2>4, <2>5, <2>6, UploadKeepsPackages
<1>7. ASSUME NEW step, upload' = [upload EXCEPT ![u].at = step]
      PROVE  upload'[u].at = step /\ upload'[u].content = upload[u].content
  BY <1>1, <1>7 DEF Packages!Upload
<1>8. CASE Packages!Inspect(u)
  <2>1. PICK step : step = IF Packages!Accepts(upload[u].content) THEN "inspected" ELSE "caught"
    OBVIOUS
  <2>2. /\ upload[u].at = "quarantined" /\ upload' = [upload EXCEPT ![u].at = step]
        /\ UNCHANGED <<quarantine, stored, packages, tokens, download, installed, misused, time, damages, broken, raced>>
    BY <1>8, <2>1 DEF Packages!Inspect, Packages!Goto, Packages!files, Packages!downloads
  <2>3. step \in {"inspected", "caught"} /\ (step = "inspected" => upload[u].content \in Inspected)
    BY <2>1 DEF Packages!Accepts
  <2>4. UploadFollows(u)'
    BY <1>1, <1>7, <2>2, <2>3 DEF UploadFollows
  <2> QED
    BY <1>6, <2>2, <2>3, <2>4
<1>9. CASE Packages!FindDuplicate(u)
  <2>1. PICK step : step = IF packages[upload[u].content] # none THEN "ended" ELSE "unknown"
    OBVIOUS
  <2>2. /\ upload[u].at = "inspected" /\ upload' = [upload EXCEPT ![u].at = step]
        /\ quarantine' = IF step = "ended" THEN quarantine \ {u} ELSE quarantine
        /\ UNCHANGED <<stored, packages, tokens, download, installed, misused, time, damages, broken, raced>>
    BY <1>9, <2>1 DEF Packages!FindDuplicate, Packages!Goto, Packages!downloads
  <2>3. step \in {"ended", "unknown"} /\ (step = "unknown" => packages[upload[u].content] = none)
    BY <2>1
  <2>4. UploadFollows(u)'
    BY <1>1, <1>7, <2>2, <2>3 DEF UploadFollows
  <2> QED
    BY <1>6, <2>2, <2>3, <2>4
<1>10. CASE Packages!Move(u)
  <2>1. PICK v : v = [upload[u] EXCEPT !.at = "moved"]
    OBVIOUS
  <2>2. v \in Packages!Upload /\ v.at = "moved" /\ v.content = upload[u].content
    BY <1>1, <2>1 DEF Packages!Upload
  <2>3. /\ upload[u].at = "unknown" /\ upload' = [upload EXCEPT ![u] = v]
        /\ quarantine' = quarantine \ {u} /\ stored' = [stored EXCEPT ![u] = upload[u].content]
        /\ UNCHANGED <<packages, tokens, download, installed, misused, time, damages, broken, raced>>
    BY <1>1, <1>10, <2>1 DEF Packages!Move, Packages!Goto, Packages!downloads
  <2>4. UploadFollows(u)'
    BY <1>1, <2>2, <2>3, PackageFacts DEF UploadFollows
  <2>5. ~raced' => \A w \in Actors \ {u} : Packages!Under(w) /\ v.at \notin {"new", "ended"} =>
                                                  upload[w].content # v.content
    BY <1>4, <2>2, <2>3
  <2>6. \A a \in Archives : packages[a] # u
    BY <1>3, <2>3
  <2>7. /\ quarantine' \subseteq Actors /\ \A w \in Actors \ {u} : w \in quarantine' <=> w \in quarantine
        /\ broken' \subseteq Actors /\ \A w \in Actors \ {u} : w \in broken' <=> w \in broken
        /\ raced' \in BOOLEAN /\ (raced => raced')
    BY <1>1, <2>3
  <2> QED
    BY <1>1, <2>2, <2>3, <2>4, <2>5, <2>6, <2>7, UploadKeepsPackages
<1>11. CASE Packages!Finish(u)
  <2>1. /\ upload[u].at = "saved" /\ upload' = [upload EXCEPT ![u].at = "ended"]
        /\ UNCHANGED <<quarantine, stored, packages, tokens, download, installed, misused, time, damages, broken, raced>>
    BY <1>11 DEF Packages!Finish, Packages!Goto, Packages!files, Packages!downloads
  <2>2. UploadFollows(u)'
    BY <1>1, <1>7, <2>1 DEF UploadFollows
  <2> QED
    BY <1>6, <2>1, <2>2
<1>12. CASE Packages!Fail(u)
  <2>1. /\ upload[u].at \in {"quarantined", "inspected", "unknown", "moved", "saved"}
        /\ upload' = [upload EXCEPT ![u].at = "caught"]
        /\ broken' = IF upload[u].at = "moved" THEN broken \cup {u} ELSE broken
        /\ UNCHANGED <<quarantine, stored, packages, tokens, download, installed, misused, time, damages, raced>>
    BY <1>12 DEF Packages!Fail, Packages!Goto, Packages!files, Packages!downloads
  <2>2. UploadFollows(u)'
    BY <1>1, <1>7, <2>1 DEF UploadFollows
  <2> QED
    BY <1>6, <2>1, <2>2
<1>13. CASE Packages!Reject(u)
  <2>1. /\ upload[u].at = "caught" /\ upload' = [upload EXCEPT ![u].at = "ended"]
        /\ quarantine' = quarantine \ {u}
        /\ UNCHANGED <<stored, packages, tokens, download, installed, misused, time, damages, broken, raced>>
    BY <1>13 DEF Packages!Reject, Packages!Kept, Packages!Goto, Packages!downloads
  <2>2. UploadFollows(u)'
    BY <1>1, <1>7, <2>1 DEF UploadFollows
  <2> QED
    BY <1>6, <2>1, <2>2
<1>14. CASE Packages!Crash(u)
  <2>1. /\ upload[u].at \notin {"new", "ended"} /\ upload' = [upload EXCEPT ![u].at = "ended"]
        /\ broken' = broken \cup {u}
        /\ UNCHANGED <<quarantine, stored, packages, tokens, download, installed, misused, time, damages, raced>>
    BY <1>14 DEF Packages!Crash, Packages!Under, Packages!Goto, Packages!files, Packages!downloads
  <2>2. UploadFollows(u)'
    BY <1>1, <1>7, <2>1 DEF UploadFollows
  <2> QED
    BY <1>6, <2>1, <2>2
<1> QED
  BY <1>5, <1>8, <1>9, <1>10, <1>11, <1>12, <1>13, <1>14

\* The row that is there stays; a new one names the upload whose file is in its place.
LEMMA SaveKeepsPackages ==
    ASSUME PackagesInv, NEW u \in Actors, Packages!SavePackage(u)
    PROVE  PackagesInv'
<1> DEFINE content == upload[u].content
<1>1. /\ upload \in [Actors -> Packages!Upload] /\ upload[u] \in Packages!Upload
      /\ packages \in [Archives -> Actors \cup {none}]
      /\ UploadFollows(u) /\ RowNamesUpload /\ UploadsAlone
      /\ none \notin Actors /\ Inspected \subseteq Archives
  BY PackageFacts DEF PackagesInv, Packages!PackagesTypeOK
<1>2. /\ upload[u].at = "moved" /\ upload' = [upload EXCEPT ![u].at = "saved"]
      /\ packages' = [packages EXCEPT ![content] = IF @ = none THEN u ELSE @]
      /\ UNCHANGED <<quarantine, stored, tokens, download, installed, misused, time, damages, broken, raced>>
  BY DEF Packages!SavePackage, Packages!Goto, Packages!files, Packages!downloads
<1>3. content \in Inspected /\ content \in Archives /\ stored[u] \in {content, Packages!Damaged}
  BY <1>1, <1>2 DEF UploadFollows
<1>4. /\ upload'[u].at = "saved" /\ upload'[u].content = content
      /\ \A w \in Actors \ {u} : upload'[w] = upload[w]
      /\ upload' \in [Actors -> Packages!Upload]
  BY <1>1, <1>2 DEF Packages!Upload
<1>5. /\ packages'[content] = IF packages[content] = none THEN u ELSE packages[content]
      /\ \A a \in Archives : a # content => packages'[a] = packages[a]
      /\ packages' \in [Archives -> Actors \cup {none}]
  BY <1>1, <1>2, <1>3
<1>6. Packages!PackagesTypeOK'
  BY <1>2, <1>4, <1>5 DEF PackagesInv, Packages!PackagesTypeOK
<1>7. UploadsAlone'
  BY <1>2, <1>4 DEF PackagesInv, UploadsAlone, Packages!Under
<1>8. ASSUME NEW w \in Actors PROVE UploadFollows(w)'
  <2>1. CASE w = u
    BY <1>1, <1>2, <1>3, <1>4, <1>5, <2>1 DEF UploadFollows
  <2>2. CASE w # u
    <3>1. UploadFollows(w) /\ upload'[w] = upload[w]
      BY <1>4, <2>2 DEF PackagesInv
    <3>2. CASE raced \/ upload[w].content # content \/ packages[content] # none
      <4>1. upload[w].at # "new" /\ ~raced => packages'[upload[w].content] = packages[upload[w].content]
        BY <1>1, <1>5, <3>1, <3>2 DEF UploadFollows
      <4> QED
        BY <1>2, <3>1, <4>1 DEF UploadFollows
    <3>3. CASE ~raced /\ upload[w].content = content /\ packages[content] = none
      <4>1. upload[w].at \in {"new", "ended"}
        BY <1>1, <1>2, <2>2, <3>3 DEF UploadsAlone, Packages!Under
      <4>2. packages[content] # w
        BY <1>1, <3>3
      <4> QED
        BY <1>2, <3>1, <3>3, <4>1, <4>2 DEF UploadFollows
    <3> QED
      BY <3>2, <3>3
  <2> QED
    BY <2>1, <2>2
<1>9. RowNamesUpload'
  <2> SUFFICES ASSUME NEW a \in Archives, packages'[a] # none
               PROVE  /\ upload'[packages'[a]].at \in {"saved", "caught", "ended"}
                      /\ a \in Inspected /\ stored'[packages'[a]] \in {a, Packages!Damaged}
    BY DEF RowNamesUpload
  <2>1. CASE a = content /\ packages[content] = none
    BY <1>2, <1>3, <1>4, <1>5, <2>1
  <2>2. CASE ~(a = content /\ packages[content] = none)
    <3>1. packages'[a] = packages[a] /\ packages[a] # none
      BY <1>5, <2>2
    <3>2. /\ packages[a] \in Actors /\ upload[packages[a]].at \in {"saved", "caught", "ended"}
          /\ a \in Inspected /\ stored[packages[a]] \in {a, Packages!Damaged}
      BY <1>1, <3>1 DEF RowNamesUpload
    <3>3. upload'[packages[a]].at \in {"saved", "caught", "ended"}
      BY <1>4, <3>2
    <3> QED
      BY <1>2, <3>1, <3>2, <3>3
  <2> QED
    BY <2>1, <2>2
<1>10. DownloadsFollow'
  <2>1. \A a \in Archives : packages[a] # none => packages'[a] # none
    BY <1>5
  <2>2. \A d \in Actors : download[d] \in Archives \cup {none}
    BY DEF PackagesInv, Packages!PackagesTypeOK
  <2> QED
    BY <1>2, <2>1, <2>2 DEF PackagesInv, DownloadsFollow, Packages!SitesReceiveAnnounced
<1> QED
  BY <1>6, <1>7, <1>8, <1>9, <1>10 DEF PackagesInv

LEMMA DownloadsKeepPackages ==
    ASSUME PackagesInv,
           \/ \E t \in Tokens : Packages!SaveDownloadToken(t) \/ \E d \in Actors : Packages!ClaimPackage(d, t)
           \/ \E d \in Actors : Packages!Serve(d) \/ Packages!Lose(d)
           \/ Packages!TimePasses
    PROVE  PackagesInv'
<1>1. /\ UNCHANGED <<upload, quarantine, stored, packages, damages, broken, raced>>
  BY DEF Packages!SaveDownloadToken, Packages!ClaimPackage, Packages!Serve, Packages!Lose, Packages!TimePasses,
     Packages!files
<1>2. /\ \A u \in Actors : UploadFollows(u)'
      /\ UploadsAlone' /\ RowNamesUpload'
  BY <1>1 DEF PackagesInv, UploadFollows, UploadsAlone, RowNamesUpload, Packages!Under
<1>3. /\ tokens \in [Tokens -> Packages!Token] /\ download \in [Actors -> Archives \cup {none}]
      /\ time \in 0 .. MaxPackageTime /\ misused = {} /\ DownloadsFollow
      /\ none \notin Archives
  BY PackageFacts DEF PackagesInv, Packages!PackagesTypeOK, DownloadsFollow, Packages!SitesReceiveAnnounced
<1>4. ASSUME tokens' \in [Tokens -> Packages!Token], download' \in [Actors -> Archives \cup {none}],
             time' \in 0 .. MaxPackageTime, misused' = {}, DownloadsFollow'
      PROVE  PackagesInv'
  BY <1>1, <1>2, <1>4 DEF PackagesInv, Packages!PackagesTypeOK
<1>5. CASE \E t \in Tokens : Packages!SaveDownloadToken(t)
  <2>1. PICK t \in Tokens, a \in Archives :
          /\ packages[a] # none
          /\ tokens' = [tokens EXCEPT ![t] = [at |-> "unused", content |-> a, expires |-> time + Life]]
          /\ UNCHANGED <<download, installed, misused, time>>
    BY <1>5 DEF Packages!SaveDownloadToken
  <2>2. [at |-> "unused", content |-> a, expires |-> time + Life] \in Packages!Token
    BY <1>3, PackageFacts DEF Packages!Token
  <2>3. tokens' \in [Tokens -> Packages!Token]
    BY <1>3, <2>1, <2>2
  <2>4. DownloadsFollow'
    BY <1>1, <1>3, <2>1 DEF DownloadsFollow, Packages!SitesReceiveAnnounced
  <2> QED
    BY <1>3, <1>4, <2>1, <2>3, <2>4
<1>6. CASE \E t \in Tokens, d \in Actors : Packages!ClaimPackage(d, t)
  <2>1. PICK t \in Tokens, d \in Actors : Packages!ClaimPackage(d, t)
    BY <1>6
  <2>2. /\ tokens[t].at = "unused" /\ tokens[t].expires >= time /\ tokens' = [tokens EXCEPT ![t].at = "used"]
        /\ misused' = misused \cup (IF tokens[t].at = "used" \/ tokens[t].expires < time THEN {t} ELSE {})
        /\ download' = [download EXCEPT ![d] = tokens[t].content]
        /\ UNCHANGED <<installed, time>>
    BY <2>1 DEF Packages!ClaimPackage, Packages!Claimable
  <2>3. misused' = {}
    <3>1. tokens[t].expires \in Nat /\ time \in Nat
      BY <1>3, PackageFacts DEF Packages!Token
    <3> QED
      BY <1>3, <2>2, <3>1
  <2>4. tokens' \in [Tokens -> Packages!Token]
    BY <1>3, <2>2 DEF Packages!Token
  <2>5. tokens[t].content \in Archives /\ packages[tokens[t].content] # none
    BY <1>3, <2>2 DEF DownloadsFollow
  <2>6. download' \in [Actors -> Archives \cup {none}]
    BY <1>3, <2>2, <2>5
  <2>7. DownloadsFollow'
    <3>1. \A s \in Tokens : tokens'[s].content = tokens[s].content /\ (tokens'[s].at # "absent" => tokens[s].at # "absent")
      BY <1>3, <2>2 DEF Packages!Token
    <3>2. \A e \in Actors : download'[e] \in {download[e], tokens[t].content}
      BY <1>3, <2>2
    <3> QED
      BY <1>1, <1>3, <2>2, <2>3, <2>5, <3>1, <3>2 DEF DownloadsFollow, Packages!SitesReceiveAnnounced
  <2> QED
    BY <1>3, <1>4, <2>2, <2>3, <2>4, <2>6, <2>7
<1>7. CASE \E d \in Actors : Packages!Serve(d)
  <2>1. PICK d \in Actors : Packages!Serve(d)
    BY <1>7
  <2>2. /\ download[d] # none /\ stored[packages[download[d]]] = download[d]
        /\ installed' = installed \cup {<<download[d], stored[packages[download[d]]]>>}
        /\ download' = [download EXCEPT ![d] = none] /\ UNCHANGED <<tokens, misused, time>>
    BY <2>1 DEF Packages!Serve, Packages!Verified
  <2>3. download[d] \in Archives /\ packages[download[d]] # none
    BY <1>3, <2>2 DEF DownloadsFollow
  <2>4. download[d] \in Inspected
    BY <2>3 DEF PackagesInv, RowNamesUpload
  <2>5. DownloadsFollow'
    BY <1>1, <1>3, <2>2, <2>4 DEF DownloadsFollow, Packages!SitesReceiveAnnounced
  <2> QED
    BY <1>3, <1>4, <2>2, <2>5
<1>8. CASE \E d \in Actors : Packages!Lose(d)
  <2>1. PICK d \in Actors : Packages!Lose(d)
    BY <1>8
  <2>2. download' = [download EXCEPT ![d] = none] /\ UNCHANGED <<tokens, installed, misused, time>>
    BY <2>1 DEF Packages!Lose
  <2>3. DownloadsFollow'
    BY <1>1, <1>3, <2>2 DEF DownloadsFollow, Packages!SitesReceiveAnnounced
  <2> QED
    BY <1>3, <1>4, <2>2, <2>3
<1>9. CASE Packages!TimePasses
  <2>1. UNCHANGED <<tokens, download, installed, misused>> /\ time < MaxPackageTime /\ time' = time + 1
    BY <1>9 DEF Packages!TimePasses, Packages!downloads
  <2>2. DownloadsFollow' /\ time' \in 0 .. MaxPackageTime
    BY <1>1, <1>3, <2>1, PackageFacts DEF DownloadsFollow, Packages!SitesReceiveAnnounced
  <2> QED
    BY <1>3, <1>4, <2>1, <2>2
<1> QED
  BY <1>5, <1>6, <1>7, <1>8, <1>9

LEMMA DamageKeepsPackages ==
    ASSUME PackagesInv, Packages!Damage
    PROVE  PackagesInv'
<1>1. PICK u \in Actors : stored[u] # none /\ stored' = [stored EXCEPT ![u] = Packages!Damaged]
  BY DEF Packages!Damage
<1>2. /\ damages < MaxDamages /\ damages' = damages + 1
      /\ UNCHANGED <<upload, quarantine, packages, tokens, download, installed, misused, time, broken, raced>>
  BY DEF Packages!Damage, Packages!downloads
<1>3. /\ stored' \in [Actors -> Archives \cup {Packages!Damaged, none}]
      /\ \A w \in Actors : stored'[w] = stored[w] \/ (stored'[w] = Packages!Damaged /\ stored[w] # none)
  BY <1>1 DEF PackagesInv, Packages!PackagesTypeOK
<1>4. damages' \in 0 .. MaxDamages
  BY <1>2, PackageFacts DEF PackagesInv, Packages!PackagesTypeOK
<1>5. Packages!PackagesTypeOK'
  BY <1>2, <1>3, <1>4 DEF PackagesInv, Packages!PackagesTypeOK
<1>6. ASSUME NEW w \in Actors PROVE UploadFollows(w)'
  BY <1>2, <1>3 DEF PackagesInv, UploadFollows
<1>7. RowNamesUpload'
  <2>1. \A a \in Archives : packages[a] # none => packages[a] \in Actors
    BY DEF PackagesInv, Packages!PackagesTypeOK
  <2> QED
    BY <1>2, <1>3, <2>1 DEF PackagesInv, RowNamesUpload
<1> QED
  BY <1>2, <1>5, <1>6, <1>7 DEF PackagesInv, UploadsAlone, Packages!Under, DownloadsFollow,
     Packages!SitesReceiveAnnounced

LEMMA InitPackages == Packages!Init => PackagesInv
<1> SUFFICES ASSUME Packages!Init PROVE PackagesInv
  OBVIOUS
<1>1. time = 0 /\ damages = 0
  BY DEF Packages!Init
<1>2. time \in 0 .. MaxPackageTime /\ damages \in 0 .. MaxDamages
  BY <1>1, PackageFacts
<1>3. raced \in BOOLEAN
  BY DEF Packages!Init
<1>4. upload \in [Actors -> Packages!Upload] /\ tokens \in [Tokens -> Packages!Token]
  BY PackageFacts DEF Packages!Init, Packages!Upload, Packages!NoToken, Packages!Token
<1>5. Packages!PackagesTypeOK
  BY <1>2, <1>3, <1>4 DEF Packages!Init, Packages!PackagesTypeOK
<1>6. \A u \in Actors : UploadFollows(u)
  BY DEF Packages!Init, UploadFollows
<1>7. UploadsAlone /\ RowNamesUpload
  BY DEF Packages!Init, UploadsAlone, RowNamesUpload, Packages!Under
<1>8. DownloadsFollow
  BY DEF Packages!Init, DownloadsFollow, Packages!NoToken, Packages!SitesReceiveAnnounced
<1> QED
  BY <1>5, <1>6, <1>7, <1>8 DEF PackagesInv

LEMMA NextKeepsPackages ==
    ASSUME PackagesInv, [Packages!Next]_(Packages!vars)
    PROVE  PackagesInv'
<1>1. CASE UNCHANGED Packages!vars
  BY <1>1 DEF Packages!vars, Packages!files, Packages!downloads, PackagesInv, Packages!PackagesTypeOK, UploadFollows,
     UploadsAlone, RowNamesUpload, DownloadsFollow, Packages!Under, Packages!SitesReceiveAnnounced
<1>2. CASE Packages!Next
  <2>1. CASE Packages!Damage \/ Packages!TimePasses
    BY <2>1, DamageKeepsPackages, DownloadsKeepPackages
  <2>2. CASE \E u \in Actors :
               \/ Packages!WriteFile(u) \/ Packages!Inspect(u) \/ Packages!FindDuplicate(u) \/ Packages!Move(u)
               \/ Packages!SavePackage(u) \/ Packages!Finish(u) \/ Packages!Fail(u) \/ Packages!Reject(u)
               \/ Packages!Crash(u)
    BY <2>2, UploadsKeepPackages, SaveKeepsPackages
  <2>3. CASE \/ \E t \in Tokens : Packages!SaveDownloadToken(t) \/ \E d \in Actors : Packages!ClaimPackage(d, t)
             \/ \E d \in Actors : Packages!Serve(d) \/ Packages!Lose(d)
    BY <2>3, DownloadsKeepPackages
  <2> QED
    BY <1>2, <2>1, <2>2, <2>3 DEF Packages!Next
<1> QED
  BY <1>1, <1>2

KeptInv == part = "packages" => PackagesInv

LEMMA PackagesKept ==
    /\ Init => KeptInv
    /\ KeptInv /\ [Next]_vars => KeptInv'
<1>1. Init => KeptInv
  BY InitPackages DEF Init, KeptInv
<1>2. ASSUME KeptInv, [Next]_vars PROVE KeptInv'
  <2>1. part' = part
    BY <1>2 DEF Next, vars
  <2>2. CASE part = "packages"
    <3>1. [Packages!Next]_(Packages!vars)
      BY <1>2, <2>2 DEF Next, vars, archives, Packages!vars, Packages!files, Packages!downloads
    <3> QED
      BY <1>2, <2>2, <3>1, NextKeepsPackages DEF KeptInv
  <2> QED
    BY <2>1, <2>2 DEF KeptInv
<1> QED
  BY <1>1, <1>2

\* Whatever uploads of one archive overlap, fail or are cut off, a row has the file of an
\* inspected archive, sites receive what was announced to them or nothing, a token serves
\* once and in time, and only the uploads named in the property leave anything behind.
THEOREM PackagesAreSound == Spec => []PackagesSound
<1>1. PackagesInv => Packages!RowsHaveFiles /\ Packages!NothingLeftBehind
  BY DEF PackagesInv, RowNamesUpload, UploadFollows, Packages!RowsHaveFiles, Packages!NothingLeftBehind
<1>2. KeptInv => PackagesSound
  BY <1>1 DEF KeptInv, PackagesInv, DownloadsFollow, PackagesSound, Packages!PackagesSound
<1> QED
  BY <1>2, PackagesKept, PTL DEF Spec

--------------------------------------------------------------------------------
(* Rollouts.  While they have not been regrouped, selection and batches stand *)
(* still once batches exist, a place past Start says that the site was tried, *)
(* whoever may have a job was cleared for it, and a lease is of an active job *)
(* that is the only one of its site.                                          *)

Tried(t) == target[t].attemptCount > 0

TrialTried == \E c \in trial : Tried(c)

\* A target that may have a job: one in the canary batch of some confirmation, or
\* any when such a one was tried.
Cleared(t) == Rollout!Batched /\ (t \in trial \/ TrialTried)

CanariesTried == regrouped \/ \A c \in Rollout!Canaries : Tried(c)

AllUpdated == regrouped \/ Rollout!Chosen \subseteq updated

\* Where a handler is after it has started its target.
Begun == {"remote", "fail", "return", "enqueue", "mark"} \cup Rollout!TryPlace

WorkerFollows(v) ==
    /\ v.at \in {"idle", "load", "limit", "start"} \cup Begun
    /\ v.at # "idle" => v.target \in Rollout!Targets /\ Cleared(v.target) /\ rollout # "draft"
    /\ v.leased => v.at # "idle"
    /\ v.at \in Begun => Tried(v.target)
    /\ v.at = "succeed" => v.target \in updated
    /\ v.at \in {"enqueue", "mark"} => v.next = "refresh"
    /\ v.at = "mark" => v.marking \in Rollout!Targets
    /\ v.at \in {"release", "enqueue", "mark"} => CanariesTried /\ TrialTried
    /\ v.at = "close" => /\ v.seen \in {"failed", "completed"}
                         /\ v.seen = "completed" => AllUpdated

AdminFollows(v) ==
    /\ v.at \in {"idle", "enqueue", "mark"} \cup Rollout!AdminPlace /\ ~v.leased
    /\ v.at \in {"review", "decide"} => v.seen \in Rollout!Verdict /\ v.next \in {"idle", "prepare"}
    /\ v.at \in {"prepare", "approve"} => approval # "pending"
    /\ v.at \in {"enqueue", "mark", "resume"} => rollout # "draft"
    /\ v.at \in {"enqueue", "mark"} => /\ v.next \in {"idle", "resume"}
                                       /\ v.next = "resume" => v.key > 0
    /\ v.at \in {"approve", "enqueue", "mark"} => \A t \in v.todo : Cleared(t)
    /\ v.at = "approve" \/ (v.at \in {"enqueue", "mark"} /\ v.next = "idle") =>
          \A t \in v.todo : regrouped \/ target[t].batch = 0
    /\ v.at = "mark" => v.marking \in Rollout!Targets

LeasesFollow ==
    \A p \in Actors : process[p].leased =>
        /\ process[p].target \in Rollout!Targets
        /\ job[process[p].target][process[p].key] = "active"
        /\ \A q \in Actors : q # p /\ process[q].leased => process[q].target # process[p].target

\* Who has a job, was tried or is a canary.
JobsFollow ==
    \A t \in Rollout!Targets :
        /\ \A k \in Rollout!Keys : job[t][k] # "absent" => rollout # "draft" /\ Cleared(t)
        /\ Tried(t) => Cleared(t)
        /\ target[t].batch = 0 => t \in trial

RowsFollow ==
    /\ rollout # "draft" => approval # "pending"
    /\ JobsFollow
    /\ Rollout!CanaryFirst
    /\ \A t \in Rollout!Targets : target[t].status \in {"running", "succeeded", "failed"} => Tried(t)
    /\ Rollout!SucceededWasUpdated
    /\ rollout = "completed" => Rollout!Batched /\ AllUpdated

RolloutInv ==
    /\ Rollout!TypeOK
    /\ \A w \in Actors : WorkerFollows(process[w])
    /\ \A a \in Admins : AdminFollows(process[a])
    /\ LeasesFollow
    /\ RowsFollow
    /\ rollout # "draft" => Actors \cup Admins # {}

LEMMA RolloutFacts ==
    /\ Actors \cap Admins = {} /\ AttemptBound \in Nat /\ FaultBound \in Nat /\ TargetCount \in Nat
    /\ Rollout!Idle \in Rollout!ProcessRow /\ Rollout!Idle.at = "idle" /\ Rollout!Idle.leased = FALSE
<1>1. Actors \cap Admins = {} /\ AttemptBound \in Nat /\ FaultBound \in Nat /\ TargetCount \in Nat
  BY OperationsAssumption DEF Rollout!RolloutAssumption
<1>2. Rollout!Idle \in Rollout!ProcessRow
  BY <1>1 DEF Rollout!Idle, Rollout!ProcessRow, Rollout!Place, Rollout!RolloutStatus, Rollout!Keys
<1> QED
  BY <1>1, <1>2 DEF Rollout!Idle

\* What was tried stays tried and what was cleared stays cleared.
LEMMA ClearedStays ==
    ASSUME RolloutInv, trial \subseteq trial', Rollout!Batched => Rollout!Batched',
           \A t \in Rollout!Targets : target'[t].attemptCount \in Nat
                                      /\ target'[t].attemptCount >= target[t].attemptCount
    PROVE  /\ \A t \in Rollout!Targets : Tried(t) => Tried(t)'
           /\ TrialTried => TrialTried'
           /\ \A t \in Rollout!Targets : Cleared(t) => Cleared(t)'
<1>1. ASSUME NEW t \in Rollout!Targets, Tried(t) PROVE Tried(t)'
  BY <1>1 DEF Tried, RolloutInv, Rollout!TypeOK, Rollout!TargetRow
<1>2. TrialTried => TrialTried'
  BY <1>1 DEF TrialTried, RolloutInv, Rollout!TypeOK
<1>3. ASSUME NEW t \in Rollout!Targets, Cleared(t) PROVE Cleared(t)'
  BY <1>2, <1>3 DEF Cleared
<1> QED
  BY <1>1, <1>2, <1>3

\* A step of one process: the others go on from rows that still say what they rely on.
LEMMA OneProcessMoves ==
    ASSUME RolloutInv, NEW p \in Actors \cup Admins, NEW v \in Rollout!ProcessRow,
           process' = [process EXCEPT ![p] = v],
           rollout # "draft" => rollout' # "draft",
           approval # "pending" => approval' # "pending",
           updated \subseteq updated', trial \subseteq trial', regrouped => regrouped',
           Rollout!Batched => Rollout!Batched',
           \A t \in Rollout!Targets :
               /\ target'[t].attemptCount >= target[t].attemptCount
               /\ Rollout!Batched /\ ~regrouped' => /\ target'[t].selected = target[t].selected
                                                   /\ target'[t].batch = target[t].batch,
           Rollout!TypeOK',
           p \in Actors => WorkerFollows(v)', p \in Admins => AdminFollows(v)',
           LeasesFollow', RowsFollow'
    PROVE  RolloutInv'
<1>1. process'[p] = v /\ \A q \in Actors \cup Admins : q # p => process'[q] = process[q]
  BY DEF RolloutInv, Rollout!TypeOK
<1>2. Rollout!Batched /\ ~regrouped' => Rollout!Canaries' = Rollout!Canaries /\ Rollout!Chosen' = Rollout!Chosen
  BY DEF Rollout!Canaries, Rollout!Chosen
<1>3. \A t \in Rollout!Targets : target'[t].attemptCount \in Nat
  BY DEF Rollout!TypeOK, Rollout!TargetRow
<1>4. /\ \A t \in Rollout!Targets : Tried(t) => Tried(t)'
      /\ TrialTried => TrialTried'
      /\ \A t \in Rollout!Targets : Cleared(t) => Cleared(t)'
  BY <1>3, ClearedStays
<1>5. Rollout!Batched /\ CanariesTried => CanariesTried'
  <2> SUFFICES ASSUME Rollout!Batched, CanariesTried, ~regrouped', NEW c \in Rollout!Canaries' PROVE Tried(c)'
    BY DEF CanariesTried
  <2>1. c \in Rollout!Canaries /\ c \in Rollout!Targets /\ ~regrouped
    BY <1>2 DEF Rollout!Canaries, Rollout!Chosen
  <2> QED
    BY <1>4, <2>1 DEF CanariesTried
<1>6. Rollout!Batched /\ AllUpdated => AllUpdated'
  BY <1>2 DEF AllUpdated
<1>7. ASSUME NEW w \in Actors PROVE WorkerFollows(process[w])'
  <2>1. CASE w = p
    BY <1>1, <2>1
  <2>2. CASE w # p
    <3>1. process'[w] = process[w] /\ WorkerFollows(process[w])
      BY <1>1, <2>2 DEF RolloutInv
    <3>2. PICK x : x = process[w]
      OBVIOUS
    <3>3. WorkerFollows(x)
      BY <3>1, <3>2
    <3>4. x.at # "idle" => Rollout!Batched
      BY <3>3 DEF WorkerFollows, Cleared
    <3>5. WorkerFollows(x)'
      BY <1>4, <1>5, <1>6, <3>3, <3>4 DEF WorkerFollows, Begun, Rollout!TryPlace
    <3> QED
      BY <3>1, <3>2, <3>5 DEF WorkerFollows
  <2> QED
    BY <2>1, <2>2
<1>8. ASSUME NEW b \in Admins PROVE AdminFollows(process[b])'
  <2>1. CASE b = p
    BY <1>1, <2>1
  <2>2. CASE b # p
    <3>1. process'[b] = process[b] /\ AdminFollows(process[b]) /\ process[b].todo \subseteq Rollout!Targets
      BY <1>1, <2>2 DEF RolloutInv, Rollout!TypeOK, Rollout!ProcessRow
    <3>2. PICK x : x = process[b]
      OBVIOUS
    <3>3. AdminFollows(x) /\ x.todo \subseteq Rollout!Targets
      BY <3>1, <3>2
    <3>4. x.at \in {"approve", "enqueue", "mark"} => \A t \in x.todo : Cleared(t)' /\ Rollout!Batched
      BY <1>4, <3>3 DEF AdminFollows, Cleared
    <3>5. AdminFollows(x)'
      BY <3>3, <3>4 DEF AdminFollows
    <3> QED
      BY <3>1, <3>2, <3>5 DEF AdminFollows
  <2> QED
    BY <2>1, <2>2
<1> QED
  BY <1>7, <1>8 DEF RolloutInv

\* The rows of the targets stand, so what the processes rely on is as it was.
LEMMA StandingRows ==
    ASSUME RolloutInv, UNCHANGED <<target, updated, trial, regrouped>>
    PROVE  /\ Rollout!Batched' = Rollout!Batched /\ TrialTried' = TrialTried
           /\ CanariesTried' = CanariesTried /\ AllUpdated' = AllUpdated
           /\ Rollout!Chosen' = Rollout!Chosen /\ Rollout!Canaries' = Rollout!Canaries
           /\ \A t : Tried(t)' = Tried(t) /\ Cleared(t)' = Cleared(t)
           /\ \A t \in Rollout!Targets :
                /\ target'[t].attemptCount >= target[t].attemptCount
                /\ target'[t].selected = target[t].selected /\ target'[t].batch = target[t].batch
           /\ trial \subseteq trial' /\ updated \subseteq updated' /\ (regrouped => regrouped')
<1>1. \A t : Tried(t)' = Tried(t)
  BY DEF Tried
<1>2. Rollout!Batched' = Rollout!Batched /\ TrialTried' = TrialTried
  BY DEF Rollout!Batched, TrialTried, Tried
<1>3. \A t : Cleared(t)' = Cleared(t)
  BY <1>2 DEF Cleared
<1>4. Rollout!Chosen' = Rollout!Chosen /\ Rollout!Canaries' = Rollout!Canaries
  BY DEF Rollout!Chosen, Rollout!Canaries
<1>5. CanariesTried' = CanariesTried /\ AllUpdated' = AllUpdated
  BY <1>4 DEF CanariesTried, AllUpdated, Tried
<1>6. \A t \in Rollout!Targets : target'[t].attemptCount >= target[t].attemptCount
  BY DEF RolloutInv, Rollout!TypeOK, Rollout!TargetRow
<1> QED
  BY <1>1, <1>2, <1>3, <1>4, <1>5, <1>6

\* A step of one process past which those rows stand.
LEMMA OneProcessMovesOn ==
    ASSUME RolloutInv, NEW p \in Actors \cup Admins, NEW v \in Rollout!ProcessRow,
           process' = [process EXCEPT ![p] = v],
           UNCHANGED <<target, updated, trial, regrouped>>,
           rollout # "draft" => rollout' # "draft",
           approval # "pending" => approval' # "pending",
           Rollout!TypeOK',
           p \in Actors => WorkerFollows(v)', p \in Admins => AdminFollows(v)',
           LeasesFollow', RowsFollow'
    PROVE  RolloutInv'
<1>1. /\ updated \subseteq updated' /\ trial \subseteq trial' /\ (regrouped => regrouped')
      /\ Rollout!Batched => Rollout!Batched'
  BY StandingRows
<1>2. \A t \in Rollout!Targets :
         /\ target'[t].attemptCount >= target[t].attemptCount
         /\ Rollout!Batched /\ ~regrouped' => /\ target'[t].selected = target[t].selected
                                             /\ target'[t].batch = target[t].batch
  BY StandingRows
<1> QED
  BY <1>1, <1>2, OneProcessMoves

\* A step that changes nothing but where one process is.
LEMMA OneProcessReads ==
    ASSUME RolloutInv, NEW p \in Actors \cup Admins, NEW v \in Rollout!ProcessRow,
           process' = [process EXCEPT ![p] = v],
           UNCHANGED <<rollout, approval, target, job, updated, trial, regrouped>>, faults' \in 0 .. FaultBound,
           v.leased => process[p].leased /\ v.target = process[p].target /\ v.key = process[p].key,
           p \in Actors => WorkerFollows(v), p \in Admins => AdminFollows(v)
    PROVE  RolloutInv'
<1>1. process'[p] = v /\ \A q \in Actors \cup Admins : q # p => process'[q] = process[q]
  BY DEF RolloutInv, Rollout!TypeOK
<1>2. Rollout!TypeOK'
  BY DEF RolloutInv, Rollout!TypeOK
<1>3. RowsFollow'
  BY DEF RolloutInv, RowsFollow, JobsFollow, Tried, Cleared, TrialTried, AllUpdated, Rollout!Batched,
     Rollout!CanaryFirst, Rollout!SucceededWasUpdated, Rollout!Chosen, Rollout!Canaries
<1>4. LeasesFollow'
  <2>1. \A q \in Actors : process'[q].leased =>
           /\ process[q].leased /\ process'[q].target = process[q].target /\ process'[q].key = process[q].key
    BY <1>1
  <2> QED
    BY <2>1 DEF RolloutInv, LeasesFollow
<1>5. p \in Actors => WorkerFollows(v)'
  BY DEF WorkerFollows, CanariesTried, AllUpdated, Cleared, TrialTried, Tried, Rollout!Batched, Rollout!Canaries,
     Rollout!Chosen
<1>6. p \in Admins => AdminFollows(v)'
  BY DEF AdminFollows, Cleared, TrialTried, Tried, Rollout!Batched
<1> QED
  BY <1>2, <1>3, <1>4, <1>5, <1>6, OneProcessMovesOn

LEMMA CountOfRollout == \A S : Rollout!Cardinality(S) = Cardinality(S)
BY DEF Cardinality, Rollout!Cardinality

LEMMA TargetsAreFinite == IsFiniteSet(Rollout!Targets)
BY RolloutFacts, FS_Interval DEF Rollout!Targets

\* The row of a process and its target, and what the invariant says of them.
LEMMA WorkerRow ==
    ASSUME RolloutInv, NEW w \in Actors
    PROVE  /\ process[w] \in Rollout!ProcessRow /\ WorkerFollows(process[w]) /\ w \notin Admins
           /\ process[w].target \in Rollout!Targets \cup {0} /\ process[w].key \in Rollout!Keys
           /\ process[w].at # "idle" =>
                process[w].target \in Rollout!Targets /\ Cleared(process[w].target) /\ rollout # "draft"
BY RolloutFacts DEF RolloutInv, Rollout!TypeOK, Rollout!ProcessRow, WorkerFollows

LEMMA AdminRow ==
    ASSUME RolloutInv, NEW a \in Admins
    PROVE  /\ a \notin Actors /\ process[a] \in Rollout!ProcessRow /\ AdminFollows(process[a])
           /\ process[a].todo \subseteq Rollout!Targets
BY RolloutFacts DEF RolloutInv, Rollout!TypeOK, Rollout!ProcessRow

\* A worker whose step is no failing statement reads on.
LEMMA WorkersRead ==
    ASSUME RolloutInv, NEW w \in Actors,
           \/ Rollout!ReadRollout(w) \/ Rollout!Survey(w) \/ Rollout!Refresh(w) \/ Rollout!AllEnqueued(w)
           \/ Rollout!Throw(w)
    PROVE  RolloutInv'
<1>1. /\ process[w] \in Rollout!ProcessRow /\ WorkerFollows(process[w]) /\ w \notin Admins
      /\ rollout \in Rollout!RolloutStatus /\ faults \in 0 .. FaultBound
      /\ process \in [Actors \cup Admins -> Rollout!ProcessRow]
      /\ target \in [Rollout!Targets -> Rollout!TargetRow]
  BY WorkerRow DEF RolloutInv, Rollout!TypeOK
<1>2. /\ process[w].at # "idle" /\ rollout # "draft" /\ process[w].target \in Rollout!Targets
      /\ Cleared(process[w].target)
  <2>1. process[w].at # "idle"
    BY DEF Rollout!ReadRollout, Rollout!Survey, Rollout!Refresh, Rollout!AllEnqueued, Rollout!Throw, Rollout!TryPlace
  <2> QED
    BY <2>1, WorkerRow
<1>3. CASE Rollout!ReadRollout(w)
  <2>1. PICK v : v = [process[w] EXCEPT !.at = "survey", !.seen = rollout]
    OBVIOUS
  <2>2. /\ process[w].at = "evaluate" /\ process' = [process EXCEPT ![w] = v]
        /\ UNCHANGED <<rollout, approval, target, job, updated, faults, trial, regrouped>>
    BY <1>1, <1>3, <2>1 DEF Rollout!ReadRollout
  <2>3. /\ v \in Rollout!ProcessRow /\ v.at = "survey" /\ v.target = process[w].target
        /\ v.key = process[w].key /\ v.leased = process[w].leased
    BY <1>1, <2>1 DEF Rollout!ProcessRow, Rollout!Place, Rollout!TryPlace
  <2>4. WorkerFollows(v)
    BY <1>1, <1>2, <2>2, <2>3 DEF WorkerFollows, Begun, Rollout!TryPlace
  <2> QED
    BY <1>1, <1>2, <2>2, <2>3, <2>4, OneProcessReads
<1>4. CASE Rollout!Survey(w)
  <2>1. PICK place \in {"pause", "release", "refresh"}, todo \in SUBSET Rollout!Targets :
          /\ process' = [process EXCEPT ![w].at = place, ![w].todo = todo]
          /\ place = "release" => Rollout!CanariesEnded
    <3>1. CASE process' = [process EXCEPT ![w].at = "pause"]
      <4>1. process' = [process EXCEPT ![w].at = "pause", ![w].todo = process[w].todo]
        BY <1>1, <3>1 DEF Rollout!ProcessRow
      <4> QED
        BY <1>1, <4>1 DEF Rollout!ProcessRow
    <3>2. CASE process' = [process EXCEPT ![w].at = "refresh"]
      <4>1. process' = [process EXCEPT ![w].at = "refresh", ![w].todo = process[w].todo]
        BY <1>1, <3>2 DEF Rollout!ProcessRow
      <4> QED
        BY <1>1, <4>1 DEF Rollout!ProcessRow
    <3>3. CASE /\ Rollout!CanariesEnded
               /\ process' = [process EXCEPT ![w].at = "release",
                     ![w].todo = {t \in Rollout!Chosen : target[t].batch = 1 /\ target[t].status = "pending"}]
      BY <3>3 DEF Rollout!Chosen
    <3> QED
      BY <1>4, <3>1, <3>2, <3>3 DEF Rollout!Survey, Rollout!Goto
  <2>2. PICK v : v = [process[w] EXCEPT !.at = place, !.todo = todo]
    OBVIOUS
  <2>3. /\ process[w].at = "survey" /\ process' = [process EXCEPT ![w] = v]
        /\ UNCHANGED <<rollout, approval, target, job, updated, faults, trial, regrouped>>
    BY <1>1, <1>4, <2>1, <2>2 DEF Rollout!Survey
  <2>4. /\ v \in Rollout!ProcessRow /\ v.at = place /\ v.target = process[w].target
        /\ v.key = process[w].key /\ v.leased = process[w].leased
    BY <1>1, <2>2 DEF Rollout!ProcessRow, Rollout!Place, Rollout!TryPlace
  <2>5. place = "release" => CanariesTried /\ TrialTried
    <3> SUFFICES ASSUME place = "release" PROVE CanariesTried /\ TrialTried
      OBVIOUS
    <3>1. \A c \in Rollout!Canaries : Tried(c) /\ c \in trial
      BY <2>1 DEF Rollout!CanariesEnded, Rollout!Ended, RolloutInv, RowsFollow, JobsFollow, Rollout!Canaries,
         Rollout!Chosen
    <3>2. Rollout!Canaries # {}
      BY <2>1 DEF Rollout!CanariesEnded
    <3> QED
      BY <3>1, <3>2 DEF CanariesTried, TrialTried
  <2>6. WorkerFollows(v)
    BY <1>1, <1>2, <2>3, <2>4, <2>5 DEF WorkerFollows, Begun, Rollout!TryPlace
  <2> QED
    BY <1>1, <1>2, <2>3, <2>4, <2>6, OneProcessReads
<1>5. CASE Rollout!Refresh(w)
  <2>1. PICK place \in {"close", "return"}, seen \in {"failed", "completed", process[w].seen} :
          /\ process' = [process EXCEPT ![w].at = place, ![w].seen = seen]
          /\ place = "close" => /\ seen \in {"failed", "completed"}
                                /\ \A t \in Rollout!Chosen : target[t].status \in Rollout!Ended
                                /\ seen = "completed" => ~(Rollout!Count(Rollout!Chosen, {"failed"}) > 0)
    <3>1. CASE process' = [process EXCEPT ![w].at = "return"]
      <4>1. process' = [process EXCEPT ![w].at = "return", ![w].seen = process[w].seen]
        BY <1>1, <3>1 DEF Rollout!ProcessRow
      <4> QED
        BY <4>1
    <3>2. CASE /\ \A t \in Rollout!Chosen : target[t].status \in Rollout!Ended
               /\ process' = [process EXCEPT ![w].at = "close",
                     ![w].seen = IF Rollout!Count(Rollout!Chosen, {"failed"}) > 0 THEN "failed" ELSE "completed"]
      BY <3>2
    <3> QED
      BY <1>5, <3>1, <3>2 DEF Rollout!Refresh, Rollout!Goto
  <2>2. PICK v : v = [process[w] EXCEPT !.at = place, !.seen = seen]
    OBVIOUS
  <2>3. /\ process[w].at = "refresh" /\ process' = [process EXCEPT ![w] = v]
        /\ UNCHANGED <<rollout, approval, target, job, updated, faults, trial, regrouped>>
    BY <1>1, <1>5, <2>1, <2>2 DEF Rollout!Refresh
  <2>4. /\ v \in Rollout!ProcessRow /\ v.at = place /\ v.target = process[w].target /\ v.seen = seen
        /\ v.key = process[w].key /\ v.leased = process[w].leased
    BY <1>1, <2>2 DEF Rollout!ProcessRow, Rollout!Place, Rollout!TryPlace, Rollout!RolloutStatus
  <2>5. place = "close" /\ seen = "completed" => AllUpdated
    <3> SUFFICES ASSUME place = "close", seen = "completed", NEW t \in Rollout!Chosen PROVE t \in updated
      BY DEF AllUpdated
    <3> DEFINE failed == {u \in Rollout!Chosen : target[u].status \in {"failed"}}
    <3>1. IsFiniteSet(failed)
      BY TargetsAreFinite, FS_Subset DEF Rollout!Chosen
    <3>2. ~(Cardinality(failed) > 0)
      BY <2>1, CountOfRollout DEF Rollout!Count
    <3>3. failed = {}
      BY <3>1, <3>2, FS_EmptySet, FS_CardinalityType
    <3>4. target[t].status = "succeeded" /\ t \in Rollout!Targets
      BY <2>1, <3>3 DEF Rollout!Ended, Rollout!Chosen
    <3> QED
      BY <3>4 DEF RolloutInv, RowsFollow, Rollout!SucceededWasUpdated
  <2>6. WorkerFollows(v)
    BY <1>1, <1>2, <2>1, <2>3, <2>4, <2>5 DEF WorkerFollows, Begun, Rollout!TryPlace
  <2> QED
    BY <1>1, <1>2, <2>3, <2>4, <2>6, OneProcessReads
<1>6. CASE Rollout!AllEnqueued(w)
  <2>1. process[w].at = "enqueue" /\ process[w].next = "refresh"
    BY <1>1, <1>6 DEF Rollout!AllEnqueued, WorkerFollows
  <2>2. PICK v : v = [process[w] EXCEPT !.at = "refresh"]
    OBVIOUS
  <2>3. /\ process' = [process EXCEPT ![w] = v]
        /\ UNCHANGED <<rollout, approval, target, job, updated, faults, trial, regrouped>>
    BY <1>1, <1>6, <2>1, <2>2 DEF Rollout!AllEnqueued, Rollout!Goto
  <2>4. /\ v \in Rollout!ProcessRow /\ v.at = "refresh" /\ v.target = process[w].target
        /\ v.key = process[w].key /\ v.leased = process[w].leased
    BY <1>1, <2>2 DEF Rollout!ProcessRow, Rollout!Place, Rollout!TryPlace
  <2>5. WorkerFollows(v)
    BY <1>1, <1>2, <2>1, <2>4 DEF WorkerFollows, Begun, Rollout!TryPlace
  <2> QED
    BY <1>1, <1>2, <2>3, <2>4, <2>5, OneProcessReads
<1>7. CASE Rollout!Throw(w)
  <2>1. PICK v : v = [Rollout!Idle EXCEPT !.at = "fail", !.target = process[w].target, !.key = process[w].key,
                                         !.leased = process[w].leased]
    OBVIOUS
  <2>2. /\ process' = [process EXCEPT ![w] = v] /\ faults < FaultBound /\ faults' = faults + 1
        /\ UNCHANGED <<rollout, approval, target, job, updated, trial, regrouped>>
    BY <1>7, <2>1 DEF Rollout!Throw, Rollout!Faulty
  <2>3. process[w].at \in Begun
    BY <1>7 DEF Rollout!Throw, Begun
  <2>4. /\ v \in Rollout!ProcessRow /\ v.at = "fail" /\ v.target = process[w].target
        /\ v.key = process[w].key /\ v.leased = process[w].leased
    BY <1>1, <2>1, RolloutFacts DEF Rollout!ProcessRow, Rollout!Place
  <2>5. WorkerFollows(v)
    BY <1>1, <1>2, <2>3, <2>4 DEF WorkerFollows, Begun, Rollout!TryPlace
  <2>6. faults' \in 0 .. FaultBound
    BY <1>1, <2>2, RolloutFacts
  <2> QED
    BY <1>1, <1>2, <2>2, <2>4, <2>5, <2>6, OneProcessReads
<1> QED
  BY <1>3, <1>4, <1>5, <1>6, <1>7

\* An administrator looks at rows and goes on, or stops.
LEMMA AdminReads ==
    ASSUME RolloutInv, NEW a \in Admins,
           \/ Rollout!SelectRead(a) \/ Rollout!ConfirmRead(a) \/ Rollout!Review(a)
           \/ (\E verdict \in Rollout!Verdict : Rollout!ReviewRequest(a, verdict))
           \/ (\E t \in Rollout!Targets : Rollout!RetryRead(a, t))
           \/ Rollout!AllEnqueued(a) \/ Rollout!Abandon(a)
    PROVE  RolloutInv'
<1>1. /\ process[a] \in Rollout!ProcessRow /\ AdminFollows(process[a]) /\ a \notin Actors
      /\ faults \in 0 .. FaultBound /\ target \in [Rollout!Targets -> Rollout!TargetRow]
      /\ process \in [Actors \cup Admins -> Rollout!ProcessRow]
  BY AdminRow DEF RolloutInv, Rollout!TypeOK
<1>2. ASSUME NEW v \in Rollout!ProcessRow, process' = [process EXCEPT ![a] = v], AdminFollows(v),
             UNCHANGED <<rollout, approval, target, job, updated, trial, regrouped>>, faults' \in 0 .. FaultBound
      PROVE  RolloutInv'
  BY <1>1, <1>2, OneProcessReads DEF AdminFollows
<1>3. AdminFollows(Rollout!Idle)
  BY RolloutFacts DEF AdminFollows
<1>4. CASE Rollout!SelectRead(a)
  <2>1. PICK v : v = [process[a] EXCEPT !.at = "select"]
    OBVIOUS
  <2>2. /\ process' = [process EXCEPT ![a] = v] /\ rollout = "draft"
        /\ UNCHANGED <<rollout, approval, target, job, updated, faults, trial, regrouped>>
    BY <1>1, <1>4, <2>1 DEF Rollout!SelectRead, Rollout!Goto
  <2>3. v \in Rollout!ProcessRow /\ v.at = "select" /\ v.leased = process[a].leased
    BY <1>1, <2>1 DEF Rollout!ProcessRow, Rollout!Place, Rollout!AdminPlace
  <2>4. AdminFollows(v)
    BY <1>1, <2>2, <2>3 DEF AdminFollows, Rollout!AdminPlace
  <2> QED
    BY <1>1, <1>2, <2>2, <2>3, <2>4
<1>5. CASE Rollout!ConfirmRead(a)
  <2>1. PICK v : v = [Rollout!Idle EXCEPT !.at = "review", !.seen = "approved", !.next = "prepare"]
    OBVIOUS
  <2>2. /\ process' = [process EXCEPT ![a] = v] /\ rollout = "draft"
        /\ UNCHANGED <<rollout, approval, target, job, updated, faults, trial, regrouped>>
    BY <1>5, <2>1 DEF Rollout!ConfirmRead
  <2>3. v \in Rollout!ProcessRow /\ v.at = "review" /\ v.leased = FALSE /\ v.next = "prepare" /\ v.seen = "approved"
    BY <2>1, RolloutFacts DEF Rollout!ProcessRow, Rollout!Place, Rollout!AdminPlace, Rollout!Verdict
  <2>4. AdminFollows(v)
    BY <2>2, <2>3 DEF AdminFollows, Rollout!AdminPlace, Rollout!Verdict
  <2> QED
    BY <1>1, <1>2, <2>2, <2>3, <2>4
<1>6. CASE Rollout!Review(a)
  <2>1. CASE approval = "pending"
    <3>1. PICK v : v = [process[a] EXCEPT !.at = "decide"]
      OBVIOUS
    <3>2. /\ process' = [process EXCEPT ![a] = v] /\ process[a].at = "review"
          /\ UNCHANGED <<rollout, approval, target, job, updated, faults, trial, regrouped>>
      BY <1>1, <1>6, <2>1, <3>1 DEF Rollout!Review, Rollout!Goto
    <3>3. /\ v \in Rollout!ProcessRow /\ v.at = "decide" /\ v.leased = process[a].leased
          /\ v.next = process[a].next /\ v.seen = process[a].seen
      BY <1>1, <3>1 DEF Rollout!ProcessRow, Rollout!Place, Rollout!AdminPlace
    <3>4. AdminFollows(v)
      BY <1>1, <3>2, <3>3 DEF AdminFollows, Rollout!AdminPlace
    <3> QED
      BY <1>1, <1>2, <3>2, <3>3, <3>4
  <2>2. CASE approval # "pending"
    BY <1>1, <1>2, <1>3, <1>6, <2>2, RolloutFacts DEF Rollout!Review, Rollout!Rest
  <2> QED
    BY <2>1, <2>2
<1>7. CASE \E verdict \in Rollout!Verdict : Rollout!ReviewRequest(a, verdict)
  <2>1. PICK verdict \in Rollout!Verdict : Rollout!ReviewRequest(a, verdict)
    BY <1>7
  <2>2. PICK v : v = [Rollout!Idle EXCEPT !.at = "review", !.seen = verdict]
    OBVIOUS
  <2>3. /\ process' = [process EXCEPT ![a] = v]
        /\ UNCHANGED <<rollout, approval, target, job, updated, faults, trial, regrouped>>
    BY <2>1, <2>2 DEF Rollout!ReviewRequest
  <2>4. v \in Rollout!ProcessRow /\ v.at = "review" /\ v.leased = FALSE /\ v.next = "idle" /\ v.seen = verdict
    BY <2>2, RolloutFacts DEF Rollout!Idle, Rollout!ProcessRow, Rollout!Place, Rollout!AdminPlace
  <2>5. AdminFollows(v)
    BY <2>4 DEF AdminFollows, Rollout!AdminPlace
  <2> QED
    BY <1>1, <1>2, <2>3, <2>4, <2>5
<1>8. CASE \E t \in Rollout!Targets : Rollout!RetryRead(a, t)
  <2>1. PICK t \in Rollout!Targets : Rollout!RetryRead(a, t)
    BY <1>8
  <2>2. PICK v : v = [Rollout!Idle EXCEPT !.at = "enqueue", !.target = t, !.todo = {t}, !.next = "resume",
                                          !.key = target[t].attemptCount + 1]
    OBVIOUS
  <2>3. /\ process' = [process EXCEPT ![a] = v] /\ rollout # "draft" /\ target[t].attemptCount < AttemptBound
        /\ UNCHANGED <<rollout, approval, target, job, updated, faults, trial, regrouped>>
    BY <2>1, <2>2 DEF Rollout!RetryRead
  <2>4. target[t].attemptCount + 1 \in Rollout!Keys /\ target[t].attemptCount + 1 > 0
    BY <1>1, <2>3, RolloutFacts DEF Rollout!TargetRow, Rollout!Keys
  <2>5. /\ v \in Rollout!ProcessRow /\ v.at = "enqueue" /\ v.leased = FALSE /\ v.next = "resume" /\ v.key > 0
        /\ v.todo = {t}
    BY <2>2, <2>4, RolloutFacts DEF Rollout!ProcessRow, Rollout!Place, Rollout!AdminPlace
  <2>6. Cleared(t)
    BY <2>1 DEF Rollout!RetryRead, RolloutInv, RowsFollow, JobsFollow
  <2>7. AdminFollows(v)
    BY <2>3, <2>5, <2>6 DEF AdminFollows
  <2> QED
    BY <1>1, <1>2, <2>3, <2>5, <2>7
<1>9. CASE Rollout!AllEnqueued(a)
  <2>1. CASE process[a].next = "idle"
    BY <1>1, <1>2, <1>3, <1>9, <2>1, RolloutFacts DEF Rollout!AllEnqueued, Rollout!Rest
  <2>2. CASE process[a].next # "idle"
    <3>1. process[a].next = "resume" /\ process[a].at = "enqueue"
      BY <1>1, <1>9, <2>2 DEF Rollout!AllEnqueued, AdminFollows
    <3>2. PICK v : v = [process[a] EXCEPT !.at = "resume"]
      OBVIOUS
    <3>3. /\ process' = [process EXCEPT ![a] = v]
          /\ UNCHANGED <<rollout, approval, target, job, updated, faults, trial, regrouped>>
      BY <1>1, <1>9, <3>1, <3>2 DEF Rollout!AllEnqueued, Rollout!Goto
    <3>4. v \in Rollout!ProcessRow /\ v.at = "resume" /\ v.leased = process[a].leased
      BY <1>1, <3>2 DEF Rollout!ProcessRow, Rollout!Place, Rollout!AdminPlace
    <3>5. AdminFollows(v)
      BY <1>1, <3>1, <3>4 DEF AdminFollows, Rollout!AdminPlace
    <3> QED
      BY <1>1, <1>2, <3>3, <3>4, <3>5
  <2> QED
    BY <2>1, <2>2
<1>10. CASE Rollout!Abandon(a)
  <2>1. /\ process' = [process EXCEPT ![a] = Rollout!Idle] /\ faults < FaultBound /\ faults' = faults + 1
        /\ UNCHANGED <<rollout, approval, target, job, updated, trial, regrouped>>
    BY <1>10 DEF Rollout!Abandon, Rollout!Faulty, Rollout!Rest
  <2>2. faults' \in 0 .. FaultBound
    BY <1>1, <2>1, RolloutFacts
  <2> QED
    BY <1>2, <1>3, <2>1, <2>2, RolloutFacts
<1> QED
  BY <1>4, <1>5, <1>6, <1>7, <1>8, <1>9, <1>10

\* A worker ends its job, if it still has the lease, and lets go of it.
LEMMA EndingKeepsRollout ==
    ASSUME RolloutInv, NEW w \in Actors, NEW status \in {"done", "parked"}, Rollout!EndJob(w, status),
           NEW v \in Rollout!ProcessRow, process' = [process EXCEPT ![w] = v], ~v.leased,
           process[w].at # "idle", WorkerFollows(v),
           UNCHANGED <<rollout, approval, target, updated, trial, regrouped>>, faults' \in 0 .. FaultBound
    PROVE  RolloutInv'
<1>1. /\ process[w].target \in Rollout!Targets /\ process[w].key \in Rollout!Keys /\ rollout # "draft" /\ w \notin Admins
      /\ job \in [Rollout!Targets -> [Rollout!Keys -> Rollout!JobStatus]]
      /\ process \in [Actors \cup Admins -> Rollout!ProcessRow]
  BY WorkerRow DEF RolloutInv, Rollout!TypeOK
<1>2. job' = IF process[w].leased THEN [job EXCEPT ![process[w].target][process[w].key] = status] ELSE job
  BY DEF Rollout!EndJob
<1>3. process'[w] = v /\ \A q \in Actors \cup Admins : q # w => process'[q] = process[q]
  BY <1>1
<1>4. job' \in [Rollout!Targets -> [Rollout!Keys -> Rollout!JobStatus]]
  BY <1>1, <1>2 DEF Rollout!JobStatus
<1>5. Rollout!TypeOK'
  BY <1>4 DEF RolloutInv, Rollout!TypeOK
<1>6. \A t \in Rollout!Targets, k \in Rollout!Keys :
         job'[t][k] # job[t][k] => t = process[w].target /\ process[w].leased /\ job[t][k] = "active"
  BY <1>1, <1>2 DEF RolloutInv, LeasesFollow
<1>7. LeasesFollow'
  <2> SUFFICES ASSUME NEW p \in Actors, process'[p].leased
               PROVE  /\ process'[p].target \in Rollout!Targets
                      /\ job'[process'[p].target][process'[p].key] = "active"
                      /\ \A q \in Actors : q # p /\ process'[q].leased => process'[q].target # process'[p].target
    BY DEF LeasesFollow
  <2>1. p # w /\ process'[p] = process[p]
    BY <1>3
  <2>2. process[p].key \in Rollout!Keys
    BY WorkerRow
  <2>3. /\ process[p].target \in Rollout!Targets /\ job[process[p].target][process[p].key] = "active"
        /\ \A q \in Actors : q # p /\ process[q].leased => process[q].target # process[p].target
    BY <2>1 DEF RolloutInv, LeasesFollow
  <2>4. job'[process[p].target][process[p].key] = "active"
    BY <1>6, <2>1, <2>2, <2>3
  <2> QED
    BY <1>3, <2>1, <2>3, <2>4
<1>8. RowsFollow'
  <2>1. \A t \in Rollout!Targets, k \in Rollout!Keys : job'[t][k] # "absent" => job[t][k] # "absent"
    BY <1>6
  <2>2. 0 \in Rollout!Keys
    BY RolloutFacts DEF Rollout!Keys
  <2>3. JobsFollow'
    BY <2>1, StandingRows DEF RolloutInv, RowsFollow, JobsFollow
  <2>4. Rollout!CanaryFirst' /\ Rollout!SucceededWasUpdated'
    BY <2>1, <2>2, StandingRows DEF RolloutInv, RowsFollow, Rollout!CanaryFirst, Rollout!SucceededWasUpdated
  <2> QED
    BY <2>3, <2>4, StandingRows DEF RolloutInv, RowsFollow
<1>9. WorkerFollows(v)'
  BY DEF WorkerFollows, CanariesTried, AllUpdated, Cleared, TrialTried, Tried, Rollout!Batched, Rollout!Canaries,
     Rollout!Chosen
<1> QED
  BY <1>1, <1>5, <1>7, <1>8, <1>9, OneProcessMovesOn

LEMMA EndingsKeepRollout ==
    ASSUME RolloutInv, NEW w \in Actors,
           Rollout!Load(w) \/ Rollout!Limit(w) \/ Rollout!Return(w) \/ Rollout!Lost(w) \/ Rollout!LeaseLost(w)
    PROVE  RolloutInv'
<1>1. /\ process[w] \in Rollout!ProcessRow /\ WorkerFollows(process[w]) /\ w \notin Admins
      /\ faults \in 0 .. FaultBound /\ process \in [Actors \cup Admins -> Rollout!ProcessRow]
      /\ \A k \in 0 .. FaultBound : k < FaultBound => k + 1 \in 0 .. FaultBound
  BY WorkerRow, RolloutFacts DEF RolloutInv, Rollout!TypeOK
<1>2. WorkerFollows(Rollout!Idle)
  BY RolloutFacts DEF WorkerFollows, Begun, Rollout!TryPlace
<1>3. ASSUME Rollout!Park(w), process[w].at # "idle", faults' \in 0 .. FaultBound PROVE RolloutInv'
  BY <1>2, <1>3, RolloutFacts, EndingKeepsRollout DEF Rollout!Park, Rollout!Rest
<1>4. CASE Rollout!Load(w) \/ Rollout!Limit(w)
  <2>1. process[w].at \in {"load", "limit"} /\ faults' = faults
    BY <1>4 DEF Rollout!Load, Rollout!Limit
  <2>2. CASE Rollout!Park(w)
    BY <1>1, <1>3, <2>1, <2>2
  <2>3. CASE /\ \E place \in {"limit", "start"} : Rollout!Goto(w, place)
             /\ UNCHANGED <<rollout, approval, target, job, updated, trial, regrouped>>
    <3>1. PICK place \in {"limit", "start"} : process' = [process EXCEPT ![w].at = place]
      BY <2>3 DEF Rollout!Goto
    <3>2. PICK v : v = [process[w] EXCEPT !.at = place]
      OBVIOUS
    <3>3. /\ v \in Rollout!ProcessRow /\ v.at = place /\ v.target = process[w].target
          /\ v.key = process[w].key /\ v.leased = process[w].leased
      BY <1>1, <3>2 DEF Rollout!ProcessRow, Rollout!Place
    <3>4. process' = [process EXCEPT ![w] = v]
      BY <1>1, <3>1, <3>2
    <3>5. WorkerFollows(v) /\ rollout # "draft"
      BY <1>1, <2>1, <3>3 DEF WorkerFollows, Begun, Rollout!TryPlace
    <3> QED
      BY <1>1, <2>1, <2>3, <3>3, <3>4, <3>5, OneProcessReads
  <2> QED
    BY <1>4, <2>2, <2>3 DEF Rollout!Load, Rollout!Limit
<1>5. CASE Rollout!Return(w)
  BY <1>1, <1>2, <1>5, RolloutFacts, EndingKeepsRollout DEF Rollout!Return, Rollout!Rest
<1>6. CASE Rollout!Lost(w)
  BY <1>1, <1>3, <1>6 DEF Rollout!Lost, Rollout!Faulty
<1>7. CASE Rollout!LeaseLost(w)
  <2>1. PICK v : v = [process[w] EXCEPT !.leased = FALSE]
    OBVIOUS
  <2>2. v \in Rollout!ProcessRow /\ v.leased = FALSE
    BY <1>1, <2>1 DEF Rollout!ProcessRow
  <2>3. WorkerFollows(v)
    BY <1>1, <2>1 DEF WorkerFollows, Rollout!ProcessRow
  <2>4. /\ process' = [process EXCEPT ![w] = v] /\ Rollout!EndJob(w, "parked") /\ process[w].leased
        /\ UNCHANGED <<rollout, approval, target, updated, trial, regrouped>> /\ faults < FaultBound /\ faults' = faults + 1
    BY <1>1, <1>7, <2>1 DEF Rollout!LeaseLost, Rollout!Faulty
  <2>5. process[w].at # "idle"
    BY <1>1, <2>4 DEF WorkerFollows
  <2> QED
    BY <1>1, <2>2, <2>3, <2>4, <2>5, EndingKeepsRollout
<1> QED
  BY <1>4, <1>5, <1>6, <1>7

\* A step that changes one job, none that is leased unless it is the one that takes it.
LEMMA JobChangeKeepsRollout ==
    ASSUME RolloutInv, NEW p \in Actors \cup Admins, NEW v \in Rollout!ProcessRow,
           process' = [process EXCEPT ![p] = v],
           NEW t \in Rollout!Targets, NEW k \in Rollout!Keys, NEW status \in Rollout!JobStatus,
           job' = [job EXCEPT ![t][k] = status], job[t][k] # "active",
           UNCHANGED <<rollout, approval, target, updated, faults, trial, regrouped>>, rollout # "draft", Cleared(t),
           p \in Actors => WorkerFollows(v), p \in Admins => AdminFollows(v),
           \/ v.leased = process[p].leased /\ v.target = process[p].target /\ v.key = process[p].key
           \/ /\ v.leased /\ v.target = t /\ v.key = k /\ status = "active"
              /\ \A i \in Rollout!Keys : job[t][i] # "active",
           k = 0 /\ target[t].batch = 1 /\ job[t][k] = "absent" => CanariesTried
    PROVE  RolloutInv'
<1>1. /\ job \in [Rollout!Targets -> [Rollout!Keys -> Rollout!JobStatus]]
      /\ process \in [Actors \cup Admins -> Rollout!ProcessRow]
      /\ 0 \in Rollout!Keys
  BY RolloutFacts DEF RolloutInv, Rollout!TypeOK, Rollout!Keys
<1>2. process'[p] = v /\ \A q \in Actors \cup Admins : q # p => process'[q] = process[q]
  BY <1>1
<1>3. /\ job' \in [Rollout!Targets -> [Rollout!Keys -> Rollout!JobStatus]] /\ job'[t][k] = status
      /\ \A u \in Rollout!Targets, i \in Rollout!Keys : (u # t \/ i # k) => job'[u][i] = job[u][i]
  BY <1>1
<1>4. Rollout!TypeOK'
  BY <1>3 DEF RolloutInv, Rollout!TypeOK
<1>5. LeasesFollow'
  <2>1. ASSUME NEW q \in Actors, process[q].leased
        PROVE  /\ process[q].target \in Rollout!Targets /\ process[q].key \in Rollout!Keys
               /\ job'[process[q].target][process[q].key] = "active"
    <3>1. /\ process[q].target \in Rollout!Targets /\ process[q].key \in Rollout!Keys
          /\ job[process[q].target][process[q].key] = "active"
      BY <2>1, WorkerRow DEF RolloutInv, LeasesFollow
    <3> QED
      BY <1>3, <3>1
  <2>2. CASE v.leased = process[p].leased /\ v.target = process[p].target /\ v.key = process[p].key
    <3>1. \A q \in Actors : /\ process'[q].leased = process[q].leased /\ process'[q].target = process[q].target
                            /\ process'[q].key = process[q].key
      BY <1>2, <2>2
    <3> QED
      BY <2>1, <3>1 DEF RolloutInv, LeasesFollow
  <2>3. CASE /\ v.leased /\ v.target = t /\ v.key = k /\ status = "active"
             /\ \A i \in Rollout!Keys : job[t][i] # "active"
    <3>1. \A q \in Actors : process[q].leased => process[q].target # t
      <4> SUFFICES ASSUME NEW q \in Actors, process[q].leased, process[q].target = t PROVE FALSE
        OBVIOUS
      <4> QED
        BY <2>3, WorkerRow DEF RolloutInv, LeasesFollow
    <3>2. job'[t][k] = "active"
      BY <1>3, <2>3
    <3>3. ASSUME NEW q \in Actors, process'[q].leased
          PROVE  /\ process'[q].target \in Rollout!Targets
                 /\ job'[process'[q].target][process'[q].key] = "active"
                 /\ \A r \in Actors : r # q /\ process'[r].leased => process'[r].target # process'[q].target
      <4>1. CASE q = p
        BY <1>2, <2>3, <3>1, <3>2, <4>1
      <4>2. CASE q # p
        <5>1. process'[q] = process[q] /\ process[q].leased
          BY <1>2, <3>3, <4>2
        <5>2. \A r \in Actors : r # q /\ process[r].leased => process[r].target # process[q].target
          BY <5>1 DEF RolloutInv, LeasesFollow
        <5> QED
          BY <1>2, <2>1, <2>3, <3>1, <5>1, <5>2
      <4> QED
        BY <4>1, <4>2
    <3> QED
      BY <3>3 DEF LeasesFollow
  <2> QED
    BY <2>2, <2>3
<1>6. RowsFollow'
  <2>1. Rollout!CanaryFirst'
    <3> SUFFICES ASSUME ~regrouped, NEW u \in Rollout!Targets, target[u].batch = 1, job'[u][0] # "absent",
                        NEW c \in Rollout!Canaries
                 PROVE  target[c].attemptCount > 0
      BY StandingRows DEF Rollout!CanaryFirst
    <3>1. CASE job[u][0] # "absent"
      BY <3>1 DEF RolloutInv, RowsFollow, Rollout!CanaryFirst
    <3>2. CASE job[u][0] = "absent"
      <4>1. u = t /\ k = 0
        BY <1>1, <1>3, <3>2
      <4> QED
        BY <3>2, <4>1 DEF CanariesTried, Tried
    <3> QED
      BY <3>1, <3>2
  <2>2. JobsFollow'
    <3> SUFFICES ASSUME NEW u \in Rollout!Targets
                 PROVE  /\ \A i \in Rollout!Keys : job'[u][i] # "absent" => rollout' # "draft" /\ Cleared(u)'
                        /\ Tried(u)' => Cleared(u)'
                        /\ target'[u].batch = 0 => u \in trial'
      BY DEF JobsFollow
    <3>1. \A i \in Rollout!Keys : job'[u][i] # "absent" => Cleared(u)
      BY <1>3 DEF RolloutInv, RowsFollow, JobsFollow
    <3> QED
      BY <3>1, StandingRows DEF RolloutInv, RowsFollow, JobsFollow
  <2>3. Rollout!SucceededWasUpdated'
    BY DEF RolloutInv, RowsFollow, Rollout!SucceededWasUpdated
  <2> QED
    BY <2>1, <2>2, <2>3, StandingRows DEF RolloutInv, RowsFollow
<1>7. p \in Actors => WorkerFollows(v)'
  BY DEF WorkerFollows, CanariesTried, AllUpdated, Cleared, TrialTried, Tried, Rollout!Batched, Rollout!Canaries,
     Rollout!Chosen
<1>8. p \in Admins => AdminFollows(v)'
  BY DEF AdminFollows, Cleared, TrialTried, Tried, Rollout!Batched
<1> QED
  BY <1>4, <1>5, <1>6, <1>7, <1>8, OneProcessMovesOn

LEMMA EnqueueKeepsRollout ==
    ASSUME RolloutInv, NEW p \in Actors \cup Admins, NEW t \in Rollout!Targets, Rollout!Enqueue(p, t)
    PROVE  RolloutInv'
<1>1. /\ process[p] \in Rollout!ProcessRow /\ process \in [Actors \cup Admins -> Rollout!ProcessRow]
      /\ job \in [Rollout!Targets -> [Rollout!Keys -> Rollout!JobStatus]]
      /\ p \in Actors => WorkerFollows(process[p])
      /\ p \in Admins => AdminFollows(process[p])
  BY DEF RolloutInv, Rollout!TypeOK
<1>2. PICK v : v = [process[p] EXCEPT !.at = "mark", !.marking = t, !.todo = @ \ {t}]
  OBVIOUS
<1>3. PICK k : k = Rollout!KeyFor(p)
  OBVIOUS
<1>4. /\ process[p].at = "enqueue" /\ t \in process[p].todo
      /\ job' = IF job[t][k] # "absent" THEN job ELSE [job EXCEPT ![t][k] = "queued"]
      /\ process' = [process EXCEPT ![p] = v]
      /\ UNCHANGED <<rollout, approval, target, updated, faults, trial, regrouped>>
  BY <1>1, <1>2, <1>3 DEF Rollout!Enqueue
<1>5. /\ v \in Rollout!ProcessRow /\ v.at = "mark" /\ v.marking = t /\ v.todo \subseteq process[p].todo
      /\ v.next = process[p].next /\ v.target = process[p].target /\ v.key = process[p].key
      /\ v.leased = process[p].leased
  BY <1>1, <1>2 DEF Rollout!ProcessRow, Rollout!Place
<1>6. k \in Rollout!Keys /\ (process[p].next = "resume" => k = process[p].key)
  BY <1>1, <1>3, RolloutFacts DEF Rollout!KeyFor, Rollout!ProcessRow, Rollout!Keys
<1>7. p \in Actors => WorkerFollows(v)
  BY <1>1, <1>4, <1>5 DEF WorkerFollows, Begun, Rollout!TryPlace
<1>8. p \in Admins => AdminFollows(v)
  BY <1>1, <1>4, <1>5 DEF AdminFollows
<1>9. rollout # "draft" /\ Cleared(t)
  <2>1. CASE p \in Admins
    BY <1>1, <1>4, <2>1 DEF AdminFollows
  <2>2. CASE p \in Actors
    BY <1>1, <1>4, <2>2 DEF WorkerFollows, Cleared
  <2> QED
    BY <2>1, <2>2
<1>10. CASE job[t][k] # "absent"
  <2>1. faults' \in 0 .. FaultBound
    BY <1>4 DEF RolloutInv, Rollout!TypeOK
  <2> QED
    BY <1>4, <1>5, <1>7, <1>8, <1>9, <1>10, <2>1, OneProcessReads
<1>11. CASE job[t][k] = "absent"
  <2>1. job' = [job EXCEPT ![t][k] = "queued"]
    BY <1>4, <1>11
  <2>2. k = 0 /\ target[t].batch = 1 => CanariesTried
    <3>1. CASE p \in Admins
      BY <1>1, <1>4, <1>6, <3>1 DEF AdminFollows, CanariesTried
    <3>2. CASE p \in Actors
      BY <1>1, <1>4, <3>2 DEF WorkerFollows
    <3> QED
      BY <3>1, <3>2
  <2>3. "queued" \in Rollout!JobStatus
    BY DEF Rollout!JobStatus
  <2>4. k = 0 /\ target[t].batch = 1 /\ job[t][k] = "absent" => CanariesTried
    BY <2>2
  <2>5. job[t][k] # "active" /\ k \in Rollout!Keys
    BY <1>6, <1>11
  <2>6. v.leased = process[p].leased /\ v.target = process[p].target /\ v.key = process[p].key
    BY <1>5
  <2>7. process' = [process EXCEPT ![p] = v] /\ UNCHANGED <<rollout, approval, target, updated, faults, trial, regrouped>>
    BY <1>4
  <2>8. v \in Rollout!ProcessRow
    BY <1>5
  <2> QED
    BY <1>7, <1>8, <1>9, <2>1, <2>3, <2>4, <2>5, <2>6, <2>7, <2>8, JobChangeKeepsRollout
<1> QED
  BY <1>10, <1>11

LEMMA JobsKeepRollout ==
    ASSUME RolloutInv, NEW t \in Rollout!Targets, NEW k \in Rollout!Keys,
           \/ \E w \in Actors : Rollout!Claim(w, t, k)
           \/ Rollout!RetryJob(t, k) \/ Rollout!CancelJob(t, k)
    PROVE  RolloutInv'
<1>1. process \in [Actors \cup Admins -> Rollout!ProcessRow]
  BY DEF RolloutInv, Rollout!TypeOK
<1>2. /\ job[t][k] \in {"queued", "parked"} /\ UNCHANGED <<rollout, approval, target, updated, faults, trial, regrouped>>
  BY DEF Rollout!Claim, Rollout!RetryJob, Rollout!CancelJob
<1>3. rollout # "draft" /\ Cleared(t)
  BY <1>2 DEF RolloutInv, RowsFollow, JobsFollow
<1>4. {"active", "queued", "cancelled"} \subseteq Rollout!JobStatus
  BY DEF Rollout!JobStatus
<1>5. CASE Rollout!RetryJob(t, k) \/ Rollout!CancelJob(t, k)
  <2>1. PICK status \in {"queued", "cancelled"} : job' = [job EXCEPT ![t][k] = status]
    BY <1>5 DEF Rollout!RetryJob, Rollout!CancelJob
  <2>2. PICK p \in Actors \cup Admins : process' = [process EXCEPT ![p] = process[p]]
    BY <1>1, <1>3, <1>5 DEF Rollout!RetryJob, Rollout!CancelJob, RolloutInv
  <2>3. /\ process[p] \in Rollout!ProcessRow
        /\ p \in Actors => WorkerFollows(process[p])
        /\ p \in Admins => AdminFollows(process[p])
    BY <1>1 DEF RolloutInv
  <2>4. PICK v : v = process[p]
    OBVIOUS
  <2>5. /\ v \in Rollout!ProcessRow /\ process' = [process EXCEPT ![p] = v]
        /\ p \in Actors => WorkerFollows(v)
        /\ p \in Admins => AdminFollows(v)
        /\ v.leased = process[p].leased /\ v.target = process[p].target /\ v.key = process[p].key
    BY <2>2, <2>3, <2>4
  <2>6. job[t][k] # "active" /\ job[t][k] # "absent" /\ status \in Rollout!JobStatus
    BY <1>2, <1>4, <2>1
  <2> QED
    BY <1>2, <1>3, <2>1, <2>5, <2>6, JobChangeKeepsRollout
<1>6. CASE \E w \in Actors : Rollout!Claim(w, t, k)
  <2>1. PICK w \in Actors : Rollout!Claim(w, t, k)
    BY <1>6
  <2>2. PICK v : v = [Rollout!Idle EXCEPT !.at = "load", !.target = t, !.key = k, !.leased = TRUE]
    OBVIOUS
  <2>3. v \in Rollout!ProcessRow /\ v.at = "load" /\ v.target = t /\ v.key = k /\ v.leased = TRUE
    BY <2>2, RolloutFacts DEF Rollout!ProcessRow, Rollout!Place
  <2>4. /\ process' = [process EXCEPT ![w] = v] /\ job' = [job EXCEPT ![t][k] = "active"]
        /\ \A i \in Rollout!Keys : job[t][i] # "active"
    BY <2>1, <2>2 DEF Rollout!Claim
  <2>5. WorkerFollows(v)
    BY <1>3, <2>3 DEF WorkerFollows, Begun, Rollout!TryPlace
  <2>6. w \in Actors \cup Admins /\ (w \in Admins => AdminFollows(v))
    BY RolloutFacts
  <2> DEFINE status == "active"
  <2>7. \/ v.leased = process[w].leased /\ v.target = process[w].target /\ v.key = process[w].key
        \/ /\ v.leased /\ v.target = t /\ v.key = k /\ status = "active"
           /\ \A i \in Rollout!Keys : job[t][i] # "active"
    BY <2>3, <2>4
  <2>8. job[t][k] # "active" /\ (k = 0 /\ target[t].batch = 1 /\ job[t][k] = "absent" => CanariesTried)
    BY <1>2
  <2>9. status \in Rollout!JobStatus /\ v \in Rollout!ProcessRow
    BY <1>4, <2>3
  <2>10. process' = [process EXCEPT ![w] = v] /\ job' = [job EXCEPT ![t][k] = status]
    BY <2>4
  <2> HIDE DEF status
  <2> QED
    BY <1>2, <1>3, <2>5, <2>6, <2>7, <2>8, <2>9, <2>10, JobChangeKeepsRollout
<1> QED
  BY <1>5, <1>6

\* A step that changes the status of one target, or notes that its site was updated.
LEMMA TargetChangeKeepsRollout ==
    ASSUME RolloutInv, NEW p \in Actors \cup Admins, NEW v \in Rollout!ProcessRow,
           process' = [process EXCEPT ![p] = v],
           v.leased = process[p].leased, v.target = process[p].target, v.key = process[p].key,
           NEW t \in Rollout!Targets, NEW row \in Rollout!TargetRow, target' = [target EXCEPT ![t] = row],
           row.selected = target[t].selected, row.batch = target[t].batch,
           row.attemptCount >= target[t].attemptCount,
           row.attemptCount > target[t].attemptCount => Cleared(t),
           row.status \in {"running", "succeeded", "failed"} => row.attemptCount > 0,
           updated \subseteq updated', updated' \subseteq Rollout!Targets,
           row.status = "succeeded" => t \in updated',
           UNCHANGED <<rollout, approval, job, faults, trial, regrouped>>,
           p \in Actors => WorkerFollows(v)', p \in Admins => AdminFollows(v)'
    PROVE  RolloutInv'
<1>1. /\ target \in [Rollout!Targets -> Rollout!TargetRow]
      /\ process \in [Actors \cup Admins -> Rollout!ProcessRow]
  BY DEF RolloutInv, Rollout!TypeOK
<1>2. process'[p] = v /\ \A q \in Actors \cup Admins : q # p => process'[q] = process[q]
  BY <1>1
<1>3. /\ target' \in [Rollout!Targets -> Rollout!TargetRow] /\ target'[t] = row
      /\ \A u \in Rollout!Targets : u # t => target'[u] = target[u]
  BY <1>1
<1>4. \A u \in Rollout!Targets :
         /\ target'[u].attemptCount \in Nat /\ target[u].attemptCount \in Nat
         /\ target'[u].attemptCount >= target[u].attemptCount
         /\ target'[u].selected = target[u].selected /\ target'[u].batch = target[u].batch
  BY <1>1, <1>3 DEF Rollout!TargetRow
<1>5. Rollout!TypeOK'
  BY <1>1, <1>3 DEF RolloutInv, Rollout!TypeOK
<1>6. LeasesFollow'
  <2>1. \A q \in Actors : /\ process'[q].leased = process[q].leased /\ process'[q].target = process[q].target
                          /\ process'[q].key = process[q].key
    BY <1>2
  <2> QED
    BY <2>1 DEF RolloutInv, LeasesFollow
<1>7. Rollout!Batched' = Rollout!Batched /\ Rollout!Chosen' = Rollout!Chosen /\ Rollout!Canaries' = Rollout!Canaries
  BY <1>4 DEF Rollout!Batched, Rollout!Chosen, Rollout!Canaries
<1>8. /\ \A u \in Rollout!Targets : Tried(u) => Tried(u)'
      /\ TrialTried => TrialTried'
      /\ \A u \in Rollout!Targets : Cleared(u) => Cleared(u)'
  BY <1>4, <1>7, ClearedStays
<1>9. RowsFollow'
  <2>1. Rollout!CanaryFirst'
    <3>1. Rollout!Canaries \subseteq Rollout!Targets
      BY DEF Rollout!Canaries, Rollout!Chosen
    <3> QED
      BY <1>4, <1>7, <3>1 DEF RolloutInv, RowsFollow, Rollout!CanaryFirst
  <2>2. \A u \in Rollout!Targets : target'[u].status \in {"running", "succeeded", "failed"} => Tried(u)'
    BY <1>3, <1>4 DEF RolloutInv, RowsFollow, Tried
  <2>3. Rollout!SucceededWasUpdated'
    BY <1>3 DEF RolloutInv, RowsFollow, Rollout!SucceededWasUpdated
  <2>4. JobsFollow'
    <3> SUFFICES ASSUME NEW u \in Rollout!Targets
                 PROVE  /\ \A k \in Rollout!Keys : job'[u][k] # "absent" => rollout' # "draft" /\ Cleared(u)'
                        /\ Tried(u)' => Cleared(u)'
                        /\ target'[u].batch = 0 => u \in trial'
      BY DEF JobsFollow
    <3>1. Tried(u)' => Tried(u) \/ Cleared(u)
      BY <1>1, <1>3, <1>4 DEF Tried
    <3> QED
      BY <1>4, <1>8, <3>1 DEF RolloutInv, RowsFollow, JobsFollow
  <2>5. rollout' = "completed" => Rollout!Batched' /\ AllUpdated'
    BY <1>7 DEF RolloutInv, RowsFollow, AllUpdated
  <2> QED
    BY <2>1, <2>2, <2>3, <2>4, <2>5 DEF RolloutInv, RowsFollow
<1> QED
  BY <1>4, <1>5, <1>6, <1>7, <1>9, OneProcessMoves

LEMMA TargetsKeepRollout ==
    ASSUME RolloutInv, NEW w \in Actors,
           Rollout!Start(w) \/ Rollout!Succeed(w) \/ Rollout!FailTarget(w) \/ Rollout!Remote(w)
    PROVE  RolloutInv'
<1>1. /\ process[w] \in Rollout!ProcessRow /\ WorkerFollows(process[w]) /\ w \notin Admins
      /\ process \in [Actors \cup Admins -> Rollout!ProcessRow]
      /\ target \in [Rollout!Targets -> Rollout!TargetRow] /\ updated \subseteq Rollout!Targets
      /\ process[w].at \in {"start", "succeed", "fail", "remote"}
  BY WorkerRow DEF RolloutInv, Rollout!TypeOK, Rollout!Start, Rollout!Succeed, Rollout!FailTarget, Rollout!Remote
<1>2. PICK t : t = process[w].target
  OBVIOUS
<1>3. /\ t \in Rollout!Targets /\ rollout # "draft" /\ Cleared(t) /\ target[t] \in Rollout!TargetRow
      /\ target[t].attemptCount \in Nat
      /\ process[w].at # "start" => target[t].attemptCount > 0
      /\ process[w].at = "succeed" => t \in updated
  BY <1>1, <1>2 DEF WorkerFollows, Begun, Tried, Rollout!TargetRow
<1>4. ASSUME NEW place \in {"remote", "succeed", "fail", "evaluate"}, NEW caught \in BOOLEAN,
             process' = [process EXCEPT ![w].at = place, ![w].caught = caught],
             NEW row \in Rollout!TargetRow, target' = [target EXCEPT ![t] = row],
             row.selected = target[t].selected, row.batch = target[t].batch,
             row.attemptCount >= target[t].attemptCount, row.attemptCount > 0,
             updated \subseteq updated', updated' \subseteq Rollout!Targets,
             row.status = "succeeded" => t \in updated', place = "succeed" => t \in updated',
             UNCHANGED <<rollout, approval, job, faults, trial, regrouped>>
      PROVE  RolloutInv'
  <2>1. PICK v : v = [process[w] EXCEPT !.at = place, !.caught = caught]
    OBVIOUS
  <2>2. /\ v \in Rollout!ProcessRow /\ v.at = place /\ v.target = t
        /\ v.key = process[w].key /\ v.leased = process[w].leased
    BY <1>1, <1>2, <2>1 DEF Rollout!ProcessRow, Rollout!Place, Rollout!TryPlace
  <2>3. process' = [process EXCEPT ![w] = v]
    BY <1>1, <1>4, <2>1
  <2>4. target'[t] = row
    BY <1>1, <1>3, <1>4
  <2>5. Cleared(t)'
    <3>1. \A u \in Rollout!Targets : /\ target'[u].attemptCount \in Nat /\ target[u].attemptCount \in Nat
                                     /\ target'[u].attemptCount >= target[u].attemptCount
                                     /\ target'[u].batch = target[u].batch
      <4> SUFFICES ASSUME NEW u \in Rollout!Targets
                   PROVE  /\ target'[u].attemptCount \in Nat /\ target[u].attemptCount \in Nat
                          /\ target'[u].attemptCount >= target[u].attemptCount
                          /\ target'[u].batch = target[u].batch
        OBVIOUS
      <4>1. target[u] \in Rollout!TargetRow /\ target'[u] = IF u = t THEN row ELSE target[u]
        BY <1>1, <1>4
      <4> QED
        BY <1>4, <4>1 DEF Rollout!TargetRow
    <3>2. Rollout!Batched => Rollout!Batched'
      BY <3>1 DEF Rollout!Batched
    <3> QED
      BY <1>3, <1>4, <3>1, <3>2, ClearedStays
  <2>6. WorkerFollows(v)'
    <3>1. v.at \in Begun /\ v.at \notin {"idle", "enqueue", "mark", "release", "close"}
      BY <1>4, <2>2 DEF Begun, Rollout!TryPlace
    <3>2. Tried(v.target)'
      BY <2>2, <2>4, <1>4 DEF Tried
    <3>3. rollout' # "draft"
      BY <1>3, <1>4
    <3>4. v.at = "succeed" => v.target \in updated'
      BY <1>4, <2>2
    <3> QED
      BY <1>3, <2>2, <2>5, <3>1, <3>2, <3>3, <3>4 DEF WorkerFollows
  <2>7. v.target = process[w].target /\ v.leased = process[w].leased /\ v.key = process[w].key
    BY <1>2, <2>2
  <2>8. row.status \in {"running", "succeeded", "failed"} => row.attemptCount > 0
    BY <1>4
  <2>9. w \in Actors => WorkerFollows(v)'
    BY <2>6
  <2>10. w \in Admins => AdminFollows(v)'
    BY <1>1
  <2>11. w \in Actors \cup Admins /\ t \in Rollout!Targets /\ v \in Rollout!ProcessRow /\ Cleared(t)
    BY <1>3, <2>2
  <2> QED
    BY <1>4, <2>3, <2>7, <2>8, <2>9, <2>10, <2>11, TargetChangeKeepsRollout
<1>5. target = [target EXCEPT ![t] = target[t]]
  BY <1>1
<1>6. process[w].caught \in BOOLEAN /\ \A place : [process EXCEPT ![w].at = place] =
         [process EXCEPT ![w].at = place, ![w].caught = process[w].caught]
  BY <1>1 DEF Rollout!ProcessRow
<1>7. CASE Rollout!Start(w)
  <2>1. PICK row : row = [target[t] EXCEPT !.status = "running", !.attemptCount = @ + 1]
    OBVIOUS
  <2>2. /\ row \in Rollout!TargetRow /\ row.status = "running" /\ row.attemptCount = target[t].attemptCount + 1
        /\ row.selected = target[t].selected /\ row.batch = target[t].batch
    <3>1. target[t].attemptCount + 1 \in Nat
      BY <1>3
    <3> QED
      BY <1>3, <2>1, <3>1 DEF Rollout!TargetRow, Rollout!TargetStatus
  <2>3. /\ target' = [target EXCEPT ![t] = row]
        /\ process' = [process EXCEPT ![w].at = "remote", ![w].caught = process[w].caught]
        /\ UNCHANGED <<rollout, approval, job, updated, faults, trial, regrouped>>
    BY <1>1, <1>2, <1>6, <1>7, <2>1 DEF Rollout!Start, Rollout!Goto
  <2>4. PICK place : place = "remote"
    OBVIOUS
  <2>5. row.attemptCount >= target[t].attemptCount /\ row.attemptCount > 0
    BY <1>3, <2>2
  <2>6. /\ updated \subseteq updated' /\ updated' \subseteq Rollout!Targets
        /\ (row.status = "succeeded" => t \in updated') /\ (place = "succeed" => t \in updated')
    BY <1>1, <1>3, <2>2, <2>3, <2>4
  <2>7. row \in Rollout!TargetRow /\ row.selected = target[t].selected /\ row.batch = target[t].batch
    BY <2>2
  <2>8. /\ process' = [process EXCEPT ![w].at = place, ![w].caught = process[w].caught]
        /\ place \in {"remote", "succeed", "fail", "evaluate"} /\ process[w].caught \in BOOLEAN
        /\ UNCHANGED <<rollout, approval, job, faults, trial, regrouped>> /\ target' = [target EXCEPT ![t] = row]
    BY <1>6, <2>3, <2>4
  <2> QED
    BY <1>4, <2>5, <2>6, <2>7, <2>8
<1>8. CASE Rollout!Succeed(w)
  <2>1. PICK row : row = [target[t] EXCEPT !.status = "succeeded"]
    OBVIOUS
  <2>2. /\ row \in Rollout!TargetRow /\ row.status = "succeeded" /\ row.attemptCount = target[t].attemptCount
        /\ row.selected = target[t].selected /\ row.batch = target[t].batch
    BY <1>3, <2>1 DEF Rollout!TargetRow, Rollout!TargetStatus
  <2>3. /\ target' = [target EXCEPT ![t] = row] /\ process[w].at = "succeed"
        /\ process' = [process EXCEPT ![w].at = "evaluate", ![w].caught = process[w].caught]
        /\ UNCHANGED <<rollout, approval, job, updated, faults, trial, regrouped>>
    BY <1>1, <1>2, <1>6, <1>8, <2>1 DEF Rollout!Succeed, Rollout!Goto
  <2>4. PICK place : place = "evaluate"
    OBVIOUS
  <2>5. row.attemptCount >= target[t].attemptCount /\ row.attemptCount > 0
    BY <1>3, <2>2, <2>3
  <2>6. /\ updated \subseteq updated' /\ updated' \subseteq Rollout!Targets
        /\ (row.status = "succeeded" => t \in updated') /\ (place = "succeed" => t \in updated')
    BY <1>1, <1>3, <2>2, <2>3, <2>4
  <2>7. row \in Rollout!TargetRow /\ row.selected = target[t].selected /\ row.batch = target[t].batch
    BY <2>2
  <2>8. /\ process' = [process EXCEPT ![w].at = place, ![w].caught = process[w].caught]
        /\ place \in {"remote", "succeed", "fail", "evaluate"} /\ process[w].caught \in BOOLEAN
        /\ UNCHANGED <<rollout, approval, job, faults, trial, regrouped>> /\ target' = [target EXCEPT ![t] = row]
    BY <1>6, <2>3, <2>4
  <2> QED
    BY <1>4, <2>5, <2>6, <2>7, <2>8
<1>9. CASE Rollout!FailTarget(w)
  <2>1. PICK row : row = [target[t] EXCEPT !.status = "failed"]
    OBVIOUS
  <2>2. /\ row \in Rollout!TargetRow /\ row.status = "failed" /\ row.attemptCount = target[t].attemptCount
        /\ row.selected = target[t].selected /\ row.batch = target[t].batch
    BY <1>3, <2>1 DEF Rollout!TargetRow, Rollout!TargetStatus
  <2>3. /\ target' = [target EXCEPT ![t] = row] /\ process[w].at = "fail"
        /\ process' = [process EXCEPT ![w].at = "evaluate", ![w].caught = TRUE]
        /\ UNCHANGED <<rollout, approval, job, updated, faults, trial, regrouped>>
    BY <1>1, <1>2, <1>9, <2>1 DEF Rollout!FailTarget
  <2>4. PICK place, caught : place = "evaluate" /\ caught = TRUE
    OBVIOUS
  <2>5. row.attemptCount >= target[t].attemptCount /\ row.attemptCount > 0
    BY <1>3, <2>2, <2>3
  <2>6. /\ updated \subseteq updated' /\ updated' \subseteq Rollout!Targets
        /\ (row.status = "succeeded" => t \in updated') /\ (place = "succeed" => t \in updated')
    BY <1>1, <1>3, <2>2, <2>3, <2>4
  <2>7. row \in Rollout!TargetRow /\ row.selected = target[t].selected /\ row.batch = target[t].batch
    BY <2>2
  <2>8. /\ process' = [process EXCEPT ![w].at = place, ![w].caught = caught]
        /\ place \in {"remote", "succeed", "fail", "evaluate"} /\ caught \in BOOLEAN
        /\ UNCHANGED <<rollout, approval, job, faults, trial, regrouped>> /\ target' = [target EXCEPT ![t] = row]
    BY <2>3, <2>4
  <2> QED
    BY <1>4, <2>5, <2>6, <2>7, <2>8
<1>10. CASE Rollout!Remote(w)
  <2>1. PICK place \in {"succeed", "fail"} :
          /\ process' = [process EXCEPT ![w].at = place]
          /\ updated' = updated \cup {t} \/ (place = "fail" /\ updated' = updated)
    BY <1>2, <1>10 DEF Rollout!Remote, Rollout!Goto
  <2>2. process' = [process EXCEPT ![w].at = place, ![w].caught = process[w].caught]
    BY <1>6, <2>1
  <2>3. /\ process[w].at = "remote" /\ UNCHANGED <<rollout, approval, target, job, faults, trial, regrouped>>
    BY <1>10 DEF Rollout!Remote
  <2>4. target' = [target EXCEPT ![t] = target[t]]
    BY <1>5, <2>3
  <2>5. target[t].status = "succeeded" => t \in updated
    BY <1>3 DEF RolloutInv, RowsFollow, Rollout!SucceededWasUpdated
  <2>6. updated \subseteq updated' /\ updated' \subseteq Rollout!Targets /\ (place = "succeed" => t \in updated')
    BY <1>1, <1>3, <2>1
  <2>7. PICK row : row = target[t]
    OBVIOUS
  <2>8. row.attemptCount >= target[t].attemptCount /\ row.attemptCount > 0
    BY <1>3, <2>3, <2>7
  <2>9. /\ updated \subseteq updated' /\ updated' \subseteq Rollout!Targets
        /\ (row.status = "succeeded" => t \in updated') /\ (place = "succeed" => t \in updated')
    BY <2>5, <2>6, <2>7
  <2>10. row \in Rollout!TargetRow /\ row.selected = target[t].selected /\ row.batch = target[t].batch
    BY <1>3, <2>7
  <2>11. /\ process' = [process EXCEPT ![w].at = place, ![w].caught = process[w].caught]
         /\ place \in {"remote", "succeed", "fail", "evaluate"} /\ process[w].caught \in BOOLEAN
         /\ UNCHANGED <<rollout, approval, job, faults, trial, regrouped>> /\ target' = [target EXCEPT ![t] = row]
    BY <1>6, <2>2, <2>3, <2>4, <2>7
  <2> QED
    BY <1>4, <2>8, <2>9, <2>10, <2>11
<1> QED
  BY <1>7, <1>8, <1>9, <1>10

LEMMA MarkKeepsRollout ==
    ASSUME RolloutInv, NEW p \in Actors \cup Admins, Rollout!Mark(p)
    PROVE  RolloutInv'
<1>1. /\ process[p] \in Rollout!ProcessRow /\ process \in [Actors \cup Admins -> Rollout!ProcessRow]
      /\ target \in [Rollout!Targets -> Rollout!TargetRow] /\ updated \subseteq Rollout!Targets
      /\ p \in Actors => WorkerFollows(process[p])
      /\ p \in Admins => AdminFollows(process[p])
  BY DEF RolloutInv, Rollout!TypeOK
<1>2. PICK t : t = process[p].marking
  OBVIOUS
<1>3. PICK v : v = [process[p] EXCEPT !.at = "enqueue", !.marking = 0]
  OBVIOUS
<1>4. PICK row : row = [target[t] EXCEPT !.status = "queued"]
  OBVIOUS
<1>5. /\ process[p].at = "mark" /\ process' = [process EXCEPT ![p] = v]
      /\ target' = [target EXCEPT ![t] = row]
      /\ UNCHANGED <<rollout, approval, job, updated, faults, trial, regrouped>>
  BY <1>1, <1>2, <1>3, <1>4 DEF Rollout!Mark
<1>6. t \in Rollout!Targets /\ rollout # "draft"
  BY <1>1, <1>2, <1>5 DEF WorkerFollows, AdminFollows
<1>7. /\ v \in Rollout!ProcessRow /\ v.at = "enqueue" /\ v.todo = process[p].todo
      /\ v.next = process[p].next /\ v.target = process[p].target /\ v.key = process[p].key
      /\ v.leased = process[p].leased
  BY <1>1, <1>3 DEF Rollout!ProcessRow, Rollout!Place
<1>8. /\ row \in Rollout!TargetRow /\ row.status = "queued" /\ row.attemptCount = target[t].attemptCount
      /\ row.selected = target[t].selected /\ row.batch = target[t].batch /\ target[t].attemptCount \in Nat
  BY <1>1, <1>4, <1>6 DEF Rollout!TargetRow, Rollout!TargetStatus
<1>9. /\ \A u \in Rollout!Targets : /\ target'[u].attemptCount = target[u].attemptCount
                                    /\ target'[u].batch = target[u].batch
                                    /\ target'[u].selected = target[u].selected
  BY <1>1, <1>5, <1>8
<1>10. \A u \in Rollout!Targets : Cleared(u) => Cleared(u)'
  <2>1. Rollout!Batched => Rollout!Batched'
    BY <1>9 DEF Rollout!Batched
  <2>2. \A u \in Rollout!Targets : /\ target'[u].attemptCount \in Nat
                                   /\ target'[u].attemptCount >= target[u].attemptCount
    BY <1>1, <1>9 DEF Rollout!TargetRow
  <2>3. trial \subseteq trial'
    BY <1>5
  <2> QED
    BY <2>1, <2>2, <2>3, ClearedStays
<1>11. (p \in Actors => WorkerFollows(v)') /\ (p \in Admins => AdminFollows(v)')
  <2>1. ASSUME p \in Actors PROVE WorkerFollows(v)'
    <3>1. WorkerFollows(process[p])
      BY <1>1, <2>1
    <3>2. Tried(v.target)' /\ v.target \in Rollout!Targets /\ Cleared(v.target)
      BY <1>5, <1>7, <1>9, <3>1 DEF WorkerFollows, Begun, Tried
    <3>3. TrialTried'
      BY <1>5, <1>9, <3>1 DEF WorkerFollows, TrialTried, Tried, RolloutInv, Rollout!TypeOK
    <3>4. CanariesTried'
      BY <1>5, <1>9, <3>1 DEF WorkerFollows, CanariesTried, Tried, Rollout!Canaries, Rollout!Chosen
    <3> QED
      BY <1>5, <1>6, <1>7, <1>10, <3>1, <3>2, <3>3, <3>4 DEF WorkerFollows, Begun
  <2>2. ASSUME p \in Admins PROVE AdminFollows(v)'
    <3>1. process[p].todo \subseteq Rollout!Targets
      BY <1>1 DEF Rollout!ProcessRow
    <3>2. \A u \in v.todo : Cleared(u)'
      BY <1>1, <1>5, <1>7, <1>10, <2>2, <3>1 DEF AdminFollows
    <3> QED
      BY <1>1, <1>5, <1>6, <1>7, <1>9, <2>2, <3>1, <3>2 DEF AdminFollows
  <2> QED
    BY <2>1, <2>2
<1>12. row.attemptCount >= target[t].attemptCount /\ ~(row.attemptCount > target[t].attemptCount)
  BY <1>8
<1>13. row.status \in {"running", "succeeded", "failed"} => row.attemptCount > 0
  BY <1>8
<1>14. /\ updated \subseteq updated' /\ updated' \subseteq Rollout!Targets
       /\ (row.status = "succeeded" => t \in updated') /\ UNCHANGED <<rollout, approval, job, faults, trial, regrouped>>
  BY <1>1, <1>5, <1>8
<1>15. /\ v.leased = process[p].leased /\ v.target = process[p].target /\ v.key = process[p].key
       /\ row.selected = target[t].selected /\ row.batch = target[t].batch
       /\ v \in Rollout!ProcessRow /\ row \in Rollout!TargetRow
       /\ process' = [process EXCEPT ![p] = v] /\ target' = [target EXCEPT ![t] = row]
  BY <1>5, <1>7, <1>8
<1> QED
  BY <1>6, <1>11, <1>12, <1>13, <1>14, <1>15, TargetChangeKeepsRollout

\* A step that changes the status of the rollout.
LEMMA StatusChangeKeepsRollout ==
    ASSUME RolloutInv, NEW p \in Actors \cup Admins, NEW v \in Rollout!ProcessRow,
           process' = [process EXCEPT ![p] = v],
           rollout' \in Rollout!RolloutStatus, rollout' # "draft", approval # "pending",
           rollout' = "completed" => Rollout!Batched /\ AllUpdated,
           UNCHANGED <<approval, target, job, updated, faults, trial, regrouped>>,
           v.leased => process[p].leased /\ v.target = process[p].target /\ v.key = process[p].key,
           p \in Actors => WorkerFollows(v)', p \in Admins => AdminFollows(v)'
    PROVE  RolloutInv'
<1>1. process'[p] = v /\ \A q \in Actors \cup Admins : q # p => process'[q] = process[q]
  BY DEF RolloutInv, Rollout!TypeOK
<1>2. Rollout!TypeOK'
  BY DEF RolloutInv, Rollout!TypeOK
<1>3. RowsFollow'
  <2>1. Rollout!CanaryFirst' /\ Rollout!SucceededWasUpdated'
    BY StandingRows DEF RolloutInv, RowsFollow, Rollout!CanaryFirst, Rollout!SucceededWasUpdated
  <2>2. JobsFollow'
    BY StandingRows DEF RolloutInv, RowsFollow, JobsFollow
  <2> QED
    BY <2>1, <2>2, StandingRows DEF RolloutInv, RowsFollow
<1>4. LeasesFollow'
  <2>1. \A q \in Actors : process'[q].leased =>
           /\ process[q].leased /\ process'[q].target = process[q].target /\ process'[q].key = process[q].key
    BY <1>1
  <2> QED
    BY <2>1 DEF RolloutInv, LeasesFollow
<1> QED
  BY <1>2, <1>3, <1>4, OneProcessMovesOn

LEMMA DecisionsKeepRollout ==
    ASSUME RolloutInv, NEW w \in Actors, Rollout!Pause(w) \/ Rollout!Release(w) \/ Rollout!Close(w)
    PROVE  RolloutInv'
<1>1. /\ process[w] \in Rollout!ProcessRow /\ WorkerFollows(process[w]) /\ w \notin Admins
      /\ process \in [Actors \cup Admins -> Rollout!ProcessRow]
      /\ process[w].at \in {"pause", "release", "close"}
      /\ UNCHANGED <<approval, target, job, updated, faults, trial, regrouped>>
  BY WorkerRow DEF RolloutInv, Rollout!TypeOK, Rollout!Pause, Rollout!Release, Rollout!Close
<1>2. /\ rollout # "draft" /\ approval # "pending" /\ process[w].target \in Rollout!Targets
      /\ Tried(process[w].target) /\ Cleared(process[w].target) /\ Rollout!Batched
  BY <1>1 DEF WorkerFollows, Begun, Rollout!TryPlace, RolloutInv, RowsFollow, Cleared
<1>3. PICK place \in {"return", "enqueue"}, next \in {process[w].next, "refresh"},
           status \in {"paused", "running", "failed", "completed"} :
        /\ process' = [process EXCEPT ![w].at = place, ![w].next = next] /\ rollout' = status
        /\ status = "completed" => AllUpdated
        /\ place = "enqueue" => next = "refresh" /\ CanariesTried /\ TrialTried
  <2>1. process[w].next = process[w].next /\ \A place : [process EXCEPT ![w].at = place] =
           [process EXCEPT ![w].at = place, ![w].next = process[w].next]
    BY <1>1 DEF Rollout!ProcessRow
  <2>2. CASE Rollout!Pause(w)
    BY <2>1, <2>2 DEF Rollout!Pause, Rollout!Goto
  <2>3. CASE Rollout!Close(w)
    <3>1. process[w].at = "close" /\ rollout' = process[w].seen /\ process' = [process EXCEPT ![w].at = "return"]
      BY <2>3 DEF Rollout!Close, Rollout!Goto
    <3>2. /\ process[w].seen \in {"failed", "completed"}
          /\ process[w].seen = "completed" => AllUpdated
      BY <1>1, <3>1 DEF WorkerFollows
    <3>3. process' = [process EXCEPT ![w].at = "return", ![w].next = process[w].next]
      BY <2>1, <3>1
    <3> QED
      BY <3>1, <3>2, <3>3
  <2>4. CASE Rollout!Release(w)
    BY <1>1, <2>4 DEF Rollout!Release, WorkerFollows
  <2> QED
    BY <2>2, <2>3, <2>4
<1>4. PICK v : v = [process[w] EXCEPT !.at = place, !.next = next]
  OBVIOUS
<1>5. /\ v \in Rollout!ProcessRow /\ v.at = place /\ v.next = next /\ v.target = process[w].target
      /\ v.key = process[w].key /\ v.leased = process[w].leased
  BY <1>1, <1>4 DEF Rollout!ProcessRow, Rollout!Place, Rollout!TryPlace
<1>6. process' = [process EXCEPT ![w] = v]
  BY <1>1, <1>3, <1>4
<1>7. rollout' \in Rollout!RolloutStatus /\ rollout' # "draft"
  BY <1>3 DEF Rollout!RolloutStatus
<1>8. WorkerFollows(v)'
  <2>1. v.at \in Begun /\ v.at \notin {"idle", "mark", "release", "close", "succeed"}
    BY <1>3, <1>5 DEF Begun, Rollout!TryPlace
  <2>2. Tried(v.target)' /\ Cleared(v.target)'
    BY <1>1, <1>2, <1>5 DEF Tried, Cleared, TrialTried, Rollout!Batched
  <2>3. CanariesTried /\ TrialTried => CanariesTried' /\ TrialTried'
    BY <1>1 DEF CanariesTried, TrialTried, Tried, Rollout!Canaries, Rollout!Chosen
  <2> QED
    BY <1>2, <1>3, <1>5, <1>7, <2>1, <2>2, <2>3 DEF WorkerFollows
<1>9. (w \in Actors => WorkerFollows(v)') /\ (w \in Admins => AdminFollows(v)')
  BY <1>1, <1>8
<1>10. rollout' = "completed" => Rollout!Batched /\ AllUpdated
  BY <1>2, <1>3
<1> QED
  BY <1>1, <1>2, <1>5, <1>6, <1>7, <1>9, <1>10, StatusChangeKeepsRollout

\* An administrator's step that lets the rollout start, or go on.
LEMMA ApprovalKeepsRollout ==
    ASSUME RolloutInv, NEW a \in Admins, Rollout!Approve(a) \/ Rollout!Resume(a)
    PROVE  RolloutInv'
<1>1. /\ process[a] \in Rollout!ProcessRow /\ AdminFollows(process[a])
      /\ process[a].todo \subseteq Rollout!Targets /\ a \notin Actors
      /\ process \in [Actors \cup Admins -> Rollout!ProcessRow]
      /\ rollout \in Rollout!RolloutStatus
      /\ UNCHANGED <<approval, target, job, updated, faults, trial, regrouped>>
  BY AdminRow DEF RolloutInv, Rollout!TypeOK, Rollout!Approve, Rollout!Resume
<1>2. rollout = "completed" => Rollout!Batched /\ AllUpdated
  BY DEF RolloutInv, RowsFollow
<1>3. CASE Rollout!Approve(a)
  <2>1. PICK v : v = [process[a] EXCEPT !.at = "enqueue", !.next = "idle"]
    OBVIOUS
  <2>2. /\ v \in Rollout!ProcessRow /\ v.at = "enqueue" /\ v.next = "idle" /\ v.todo = process[a].todo
        /\ v.leased = process[a].leased /\ v.target = process[a].target /\ v.key = process[a].key
    BY <1>1, <2>1 DEF Rollout!ProcessRow, Rollout!Place
  <2>3. /\ process' = [process EXCEPT ![a] = v] /\ process[a].at = "approve"
        /\ rollout' = IF rollout = "draft" THEN "canary-running" ELSE rollout
    BY <1>1, <1>3, <2>1 DEF Rollout!Approve
  <2>4. /\ rollout' \in Rollout!RolloutStatus /\ rollout' # "draft"
        /\ rollout' = "completed" => Rollout!Batched /\ AllUpdated
    BY <1>1, <1>2, <2>3 DEF Rollout!RolloutStatus
  <2>5. approval # "pending" /\ ~v.leased /\ \A t \in v.todo : Cleared(t) /\ (regrouped \/ target[t].batch = 0)
    BY <1>1, <2>2, <2>3 DEF AdminFollows
  <2>6. AdminFollows(v)'
    BY <1>1, <2>2, <2>4, <2>5 DEF AdminFollows, Cleared, TrialTried, Tried, Rollout!Batched
  <2>7. (a \in Actors => WorkerFollows(v)') /\ (a \in Admins => AdminFollows(v)')
    BY <1>1, <2>6
  <2> QED
    BY <1>1, <2>2, <2>3, <2>4, <2>5, <2>7, StatusChangeKeepsRollout
<1>4. CASE Rollout!Resume(a)
  <2>1. /\ process' = [process EXCEPT ![a] = Rollout!Idle] /\ process[a].at = "resume"
        /\ rollout' \in {"canary-running", "running"}
    BY <1>4 DEF Rollout!Resume, Rollout!Rest
  <2>2. rollout # "draft" /\ approval # "pending"
    BY <1>1, <2>1 DEF AdminFollows, RolloutInv, RowsFollow
  <2>3. AdminFollows(Rollout!Idle)'
    BY RolloutFacts DEF AdminFollows
  <2>4. PICK v : v = Rollout!Idle
    OBVIOUS
  <2>5. /\ v \in Rollout!ProcessRow /\ ~v.leased /\ process' = [process EXCEPT ![a] = v]
    BY <2>1, <2>4, RolloutFacts
  <2>6. v.at = "idle"
    BY <2>4, RolloutFacts
  <2>7. AdminFollows(v)'
    BY <2>5, <2>6 DEF AdminFollows
  <2>8. (a \in Actors => WorkerFollows(v)') /\ (a \in Admins => AdminFollows(v)')
    BY <1>1, <2>7
  <2>9. rollout' \in Rollout!RolloutStatus /\ rollout' # "draft" /\ rollout' # "completed"
    BY <2>1 DEF Rollout!RolloutStatus
  <2> QED
    BY <1>1, <2>2, <2>5, <2>8, <2>9, StatusChangeKeepsRollout
<1> QED
  BY <1>3, <1>4

\* An administrator's step that writes selections or batches, whatever the rollout is
\* by then: either nothing moves, or there were no batches and so no jobs, or it counts
\* as regrouping.
LEMMA RegroupKeepsRollout ==
    ASSUME RolloutInv, NEW a \in Admins, NEW v \in Rollout!ProcessRow, AdminFollows(v)',
           process' = [process EXCEPT ![a] = v], ~v.leased,
           target' \in [Rollout!Targets -> Rollout!TargetRow],
           \A t \in Rollout!Targets : /\ target'[t].status = target[t].status
                                      /\ target'[t].attemptCount = target[t].attemptCount
                                      /\ target[t].batch # Rollout!NoBatch => target'[t].batch # Rollout!NoBatch
                                      /\ target'[t].batch = 0 => t \in trial',
           trial \subseteq trial', trial' \subseteq Rollout!Targets, Rollout!Regroup,
           UNCHANGED <<rollout, approval, job, updated, faults>>
    PROVE  RolloutInv'
<1>1. process'[a] = v /\ (\A q \in Actors \cup Admins : q # a => process'[q] = process[q]) /\ a \notin Actors
  BY AdminRow DEF RolloutInv, Rollout!TypeOK
<1>2. regrouped' \in BOOLEAN /\ (regrouped => regrouped')
  BY DEF Rollout!Regroup, RolloutInv, Rollout!TypeOK
<1>3. Rollout!TypeOK'
  BY <1>2 DEF RolloutInv, Rollout!TypeOK
<1>4. Rollout!Batched => Rollout!Batched'
  BY DEF Rollout!Batched
<1>5. \A t \in Rollout!Targets : target'[t].attemptCount \in Nat /\ target'[t].attemptCount >= target[t].attemptCount
  BY DEF Rollout!TargetRow
<1>6. /\ TrialTried => TrialTried'
      /\ \A t \in Rollout!Targets : Cleared(t) => Cleared(t)'
  BY <1>4, <1>5, ClearedStays
<1>7. Rollout!Batched /\ ~regrouped' => \A t \in Rollout!Targets : /\ target'[t].selected = target[t].selected
                                                                  /\ target'[t].batch = target[t].batch
  BY DEF Rollout!Regroup, Rollout!Regroups
<1>8. Rollout!Batched /\ ~regrouped' => Rollout!Canaries' = Rollout!Canaries /\ Rollout!Chosen' = Rollout!Chosen
  BY <1>7 DEF Rollout!Canaries, Rollout!Chosen
<1>9. RowsFollow'
  <2>1. JobsFollow'
    BY <1>6 DEF RolloutInv, RowsFollow, JobsFollow, Tried
  <2>2. Rollout!CanaryFirst'
    <3> SUFFICES ASSUME ~regrouped', NEW t \in Rollout!Targets, target'[t].batch = 1, job[t][0] # "absent",
                        NEW c \in Rollout!Canaries'
                 PROVE  target'[c].attemptCount > 0
      BY DEF Rollout!CanaryFirst
    <3>1. 0 \in Rollout!Keys
      BY RolloutFacts DEF Rollout!Keys
    <3>2. Rollout!Batched
      BY <3>1 DEF RolloutInv, RowsFollow, JobsFollow, Cleared
    <3>3. c \in Rollout!Canaries /\ c \in Rollout!Targets /\ target[t].batch = 1 /\ ~regrouped
      BY <1>2, <1>7, <1>8, <3>2 DEF Rollout!Canaries, Rollout!Chosen
    <3> QED
      BY <3>3 DEF RolloutInv, RowsFollow, Rollout!CanaryFirst
  <2>3. Rollout!SucceededWasUpdated'
    BY DEF RolloutInv, RowsFollow, Rollout!SucceededWasUpdated
  <2>4. \A t \in Rollout!Targets : target'[t].status \in {"running", "succeeded", "failed"} => Tried(t)'
    BY DEF RolloutInv, RowsFollow, Tried
  <2>5. rollout' = "completed" => Rollout!Batched' /\ AllUpdated'
    BY <1>2, <1>4, <1>8 DEF RolloutInv, RowsFollow, AllUpdated
  <2> QED
    BY <2>1, <2>2, <2>3, <2>4, <2>5 DEF RolloutInv, RowsFollow
<1>10. LeasesFollow'
  <2>1. \A q \in Actors : process'[q] = process[q]
    BY <1>1
  <2> QED
    BY <2>1 DEF RolloutInv, LeasesFollow
<1>11. (a \in Actors => WorkerFollows(v)') /\ (a \in Admins => AdminFollows(v)')
  BY <1>1
<1>12. updated \subseteq updated'
  OBVIOUS
<1> QED
  BY <1>2, <1>3, <1>4, <1>5, <1>7, <1>9, <1>10, <1>11, <1>12, OneProcessMoves

LEMMA DraftsKeepRollout ==
    ASSUME RolloutInv, NEW a \in Admins, Rollout!Select(a) \/ Rollout!Prepare(a)
    PROVE  RolloutInv'
<1>1. /\ process[a] \in Rollout!ProcessRow /\ AdminFollows(process[a])
      /\ process \in [Actors \cup Admins -> Rollout!ProcessRow]
      /\ target \in [Rollout!Targets -> Rollout!TargetRow]
      /\ process[a].at \in {"select", "prepare"}
      /\ trial \subseteq Rollout!Targets
      /\ UNCHANGED <<rollout, approval, job, updated, faults>> /\ Rollout!Regroup
  BY AdminRow DEF RolloutInv, Rollout!TypeOK, Rollout!Select, Rollout!Prepare
<1>2. /\ ~process[a].leased
      /\ \A t \in Rollout!Targets : target[t].batch = 0 => t \in trial
  BY <1>1 DEF AdminFollows, RolloutInv, RowsFollow, JobsFollow
<1>3. CASE Rollout!Select(a)
  <2>1. PICK S \in SUBSET Rollout!Targets :
          target' = [t \in Rollout!Targets |->
            IF target[t].status = "pending"
            THEN [target[t] EXCEPT !.selected = t \in S] ELSE target[t]]
    BY <1>3 DEF Rollout!Select
  <2>2. \A t \in Rollout!Targets : /\ target'[t] \in Rollout!TargetRow
                                   /\ target'[t].status = target[t].status
                                   /\ target'[t].attemptCount = target[t].attemptCount
                                   /\ target'[t].batch = target[t].batch
    <3> SUFFICES ASSUME NEW t \in Rollout!Targets
                 PROVE  /\ target'[t] \in Rollout!TargetRow
                        /\ target'[t].status = target[t].status
                        /\ target'[t].attemptCount = target[t].attemptCount
                        /\ target'[t].batch = target[t].batch
      OBVIOUS
    <3>1. (t \in S) \in BOOLEAN
      OBVIOUS
    <3>2. target'[t] = IF target[t].status = "pending" THEN [target[t] EXCEPT !.selected = t \in S] ELSE target[t]
      BY <2>1
    <3>3. target[t] \in Rollout!TargetRow
      BY <1>1
    <3> QED
      BY <3>1, <3>2, <3>3 DEF Rollout!TargetRow
  <2>3. target' \in [Rollout!Targets -> Rollout!TargetRow]
    BY <2>1, <2>2
  <2>4. PICK v : v = Rollout!Idle
    OBVIOUS
  <2>5. v \in Rollout!ProcessRow /\ ~v.leased /\ v.at = "idle" /\ process' = [process EXCEPT ![a] = v]
    BY <1>3, <2>4, RolloutFacts DEF Rollout!Select, Rollout!Rest
  <2>6. AdminFollows(v)'
    BY <2>5 DEF AdminFollows
  <2>7. trial' = trial
    BY <1>3 DEF Rollout!Select
  <2>8. trial \subseteq trial' /\ trial' \subseteq Rollout!Targets
    BY <1>1, <2>7
  <2>9. \A t \in Rollout!Targets : /\ target'[t].status = target[t].status
                                   /\ target'[t].attemptCount = target[t].attemptCount
                                   /\ target[t].batch # Rollout!NoBatch => target'[t].batch # Rollout!NoBatch
                                   /\ target'[t].batch = 0 => t \in trial'
    BY <1>2, <2>2, <2>7
  <2> QED
    BY <1>1, <2>3, <2>5, <2>6, <2>8, <2>9, RegroupKeepsRollout
<1>4. CASE Rollout!Prepare(a)
  <2>1. PICK todo \in SUBSET Rollout!Targets :
          /\ process' = [process EXCEPT ![a].at = "approve", ![a].todo = todo]
          /\ \A t \in todo : t \in Rollout!Chosen /\ Rollout!Batch(t) = 0
    <3>1. PICK todo : todo = {t \in Rollout!Chosen \cap Ready : Rollout!Batch(t) = 0}
      OBVIOUS
    <3>2. todo \in SUBSET Rollout!Targets /\ \A t \in todo : t \in Rollout!Chosen /\ Rollout!Batch(t) = 0
      BY <3>1 DEF Rollout!Chosen
    <3>3. process' = [process EXCEPT ![a].at = "approve", ![a].todo = todo]
      BY <1>4, <3>1 DEF Rollout!Prepare
    <3> QED
      BY <3>2, <3>3
  <2>2. /\ process[a].at = "prepare"
        /\ target' = [t \in Rollout!Targets |->
             IF t \in Rollout!Chosen THEN [target[t] EXCEPT !.batch = Rollout!Batch(t)] ELSE target[t]]
    BY <1>4 DEF Rollout!Prepare
  <2>3. \A t : Rollout!Batch(t) \in {0, 1}
    BY DEF Rollout!Batch
  <2>4. \A t \in Rollout!Targets :
           /\ target'[t] \in Rollout!TargetRow
           /\ target'[t].status = target[t].status
           /\ target'[t].attemptCount = target[t].attemptCount
           /\ target'[t].batch = IF t \in Rollout!Chosen THEN Rollout!Batch(t) ELSE target[t].batch
    <3> SUFFICES ASSUME NEW t \in Rollout!Targets
                 PROVE  /\ target'[t] \in Rollout!TargetRow
                        /\ target'[t].status = target[t].status
                        /\ target'[t].attemptCount = target[t].attemptCount
                        /\ target'[t].batch = IF t \in Rollout!Chosen THEN Rollout!Batch(t) ELSE target[t].batch
      OBVIOUS
    <3>1. PICK b : b = Rollout!Batch(t)
      OBVIOUS
    <3>2. b \in {0, 1} /\ target[t] \in Rollout!TargetRow
      BY <1>1, <2>3, <3>1
    <3>3. target'[t] = IF t \in Rollout!Chosen THEN [target[t] EXCEPT !.batch = b] ELSE target[t]
      BY <2>2, <3>1
    <3> QED
      BY <3>1, <3>2, <3>3 DEF Rollout!TargetRow
  <2>5. target' \in [Rollout!Targets -> Rollout!TargetRow]
    BY <2>2, <2>4
  <2>6. PICK v : v = [process[a] EXCEPT !.at = "approve", !.todo = todo]
    OBVIOUS
  <2>7. /\ v \in Rollout!ProcessRow /\ v.at = "approve" /\ v.todo = todo /\ v.leased = process[a].leased
        /\ process' = [process EXCEPT ![a] = v]
    BY <1>1, <2>1, <2>6 DEF Rollout!ProcessRow, Rollout!Place, Rollout!AdminPlace
  <2>8. trial' = trial \cup {t \in Rollout!Chosen : Rollout!Batch(t) = 0}
    BY <1>4 DEF Rollout!Prepare
  <2>9. trial \subseteq trial' /\ trial' \subseteq Rollout!Targets
    BY <1>1, <2>8 DEF Rollout!Chosen
  <2>10. \A t \in Rollout!Targets : /\ target'[t].status = target[t].status
                                    /\ target'[t].attemptCount = target[t].attemptCount
                                    /\ target[t].batch # Rollout!NoBatch => target'[t].batch # Rollout!NoBatch
                                    /\ target'[t].batch = 0 => t \in trial'
    BY <1>2, <2>3, <2>4, <2>8 DEF Rollout!NoBatch
  <2>11. \A t \in todo : target'[t].batch = 0 /\ t \in trial' /\ t \in Rollout!Targets
    BY <2>1, <2>4, <2>8
  <2>12. \A t \in todo : Cleared(t)'
    BY <2>11 DEF Cleared, Rollout!Batched, Rollout!NoBatch
  <2>13. approval' # "pending"
    BY <1>1, <2>2 DEF AdminFollows
  <2>14. AdminFollows(v)'
    BY <1>2, <2>7, <2>11, <2>12, <2>13 DEF AdminFollows, Rollout!AdminPlace
  <2>15. ~v.leased
    BY <1>2, <2>7
  <2> QED
    BY <1>1, <2>5, <2>7, <2>9, <2>10, <2>14, <2>15, RegroupKeepsRollout
<1> QED
  BY <1>3, <1>4

\* The verdict on the action request of the rollout.
LEMMA VerdictKeepsRollout ==
    ASSUME RolloutInv, NEW a \in Admins, Rollout!Decide(a)
    PROVE  RolloutInv'
<1>1. /\ process[a] \in Rollout!ProcessRow /\ AdminFollows(process[a]) /\ a \notin Actors
      /\ process \in [Actors \cup Admins -> Rollout!ProcessRow]
      /\ process[a].at = "decide" /\ approval' = process[a].seen
      /\ UNCHANGED <<rollout, target, job, updated, faults, trial, regrouped>>
  BY AdminRow DEF RolloutInv, Rollout!TypeOK, Rollout!Decide
<1>2. /\ approval' \in Rollout!Verdict /\ approval' # "pending" /\ ~process[a].leased
      /\ process[a].next \in {"idle", "prepare"}
  BY <1>1 DEF AdminFollows, Rollout!Verdict
<1>3. PICK v \in Rollout!ProcessRow : /\ process' = [process EXCEPT ![a] = v] /\ ~v.leased
                                      /\ v.at \in {"idle", "prepare"}
  <2>1. CASE process[a].next = "idle"
    BY <2>1, RolloutFacts DEF Rollout!Decide, Rollout!Rest
  <2>2. CASE process[a].next # "idle"
    <3>1. PICK v : v = [process[a] EXCEPT !.at = "prepare"]
      OBVIOUS
    <3>2. v \in Rollout!ProcessRow /\ v.at = "prepare" /\ v.leased = process[a].leased
      BY <1>1, <3>1 DEF Rollout!ProcessRow, Rollout!Place, Rollout!AdminPlace
    <3>3. process' = [process EXCEPT ![a] = v]
      BY <1>1, <1>2, <2>2, <3>1 DEF Rollout!Decide, Rollout!Goto
    <3> QED
      BY <1>2, <3>2, <3>3
  <2> QED
    BY <2>1, <2>2
<1>4. process'[a] = v /\ \A q \in Actors \cup Admins : q # a => process'[q] = process[q]
  BY <1>1, <1>3
<1>5. Rollout!TypeOK'
  BY <1>1, <1>2, <1>3 DEF RolloutInv, Rollout!TypeOK
<1>6. RowsFollow'
  <2>1. Rollout!CanaryFirst' /\ Rollout!SucceededWasUpdated'
    BY <1>1, StandingRows DEF RolloutInv, RowsFollow, Rollout!CanaryFirst, Rollout!SucceededWasUpdated
  <2>2. JobsFollow'
    BY <1>1, StandingRows DEF RolloutInv, RowsFollow, JobsFollow
  <2> QED
    BY <1>1, <1>2, <2>1, <2>2, StandingRows DEF RolloutInv, RowsFollow
<1>7. LeasesFollow'
  <2>1. \A q \in Actors : process'[q] = process[q]
    BY <1>1, <1>4
  <2> QED
    BY <1>1, <2>1 DEF RolloutInv, LeasesFollow
<1>8. AdminFollows(v)'
  BY <1>1, <1>2, <1>3 DEF AdminFollows, Rollout!AdminPlace
<1>9. /\ rollout # "draft" => rollout' # "draft"
      /\ approval # "pending" => approval' # "pending"
      /\ a \in Actors => WorkerFollows(v)'
      /\ UNCHANGED <<target, updated, trial, regrouped>>
  BY <1>1, <1>2
<1> QED
  BY <1>3, <1>5, <1>6, <1>7, <1>8, <1>9, OneProcessMovesOn

LEMMA InitRollout == Rollout!Init => RolloutInv
<1> SUFFICES ASSUME Rollout!Init PROVE RolloutInv
  OBVIOUS
<1>1. /\ rollout = "draft" /\ approval = "pending" /\ updated = {} /\ faults = 0
      /\ trial = {} /\ regrouped = FALSE
      /\ target = [t \in Rollout!Targets |->
            [selected |-> t \in Selected, batch |-> Rollout!NoBatch, status |-> "pending", attemptCount |-> 0]]
      /\ job = [t \in Rollout!Targets |-> [k \in Rollout!Keys |-> "absent"]]
      /\ process = [p \in Actors \cup Admins |-> Rollout!Idle]
  BY DEF Rollout!Init
<1>2. \A p \in Actors \cup Admins : process[p] \in Rollout!ProcessRow /\ process[p].at = "idle" /\ ~process[p].leased
  BY <1>1, RolloutFacts
<1>3. 0 \in Rollout!Keys
  BY RolloutFacts DEF Rollout!Keys
<1>4. \A t \in Rollout!Targets : /\ target[t] \in Rollout!TargetRow /\ target[t].status = "pending"
                                 /\ target[t].attemptCount = 0 /\ target[t].batch = Rollout!NoBatch
                                 /\ \A k \in Rollout!Keys : job[t][k] = "absent"
  BY <1>1 DEF Rollout!TargetRow, Rollout!TargetStatus, Rollout!NoBatch
<1>5. Rollout!TypeOK
  <2>1. process \in [Actors \cup Admins -> Rollout!ProcessRow]
    BY <1>1, <1>2
  <2>2. target \in [Rollout!Targets -> Rollout!TargetRow]
    BY <1>1, <1>4
  <2>3. job \in [Rollout!Targets -> [Rollout!Keys -> Rollout!JobStatus]]
    BY <1>1 DEF Rollout!JobStatus
  <2>4. faults \in 0 .. FaultBound
    BY <1>1, RolloutFacts
  <2>5. updated \subseteq Rollout!Targets /\ rollout \in Rollout!RolloutStatus
    BY <1>1 DEF Rollout!RolloutStatus
  <2> QED
    BY <1>1, <2>1, <2>2, <2>3, <2>4, <2>5 DEF Rollout!TypeOK
<1>6. \A w \in Actors : WorkerFollows(process[w])
  BY <1>2 DEF WorkerFollows, Begun, Rollout!TryPlace
<1>7. \A a \in Admins : AdminFollows(process[a])
  BY <1>2 DEF AdminFollows
<1>8. LeasesFollow
  BY <1>2 DEF LeasesFollow
<1>9. RowsFollow
  BY <1>1, <1>3, <1>4 DEF RowsFollow, JobsFollow, Tried, Rollout!NoBatch, Rollout!CanaryFirst,
     Rollout!SucceededWasUpdated
<1> QED
  BY <1>1, <1>5, <1>6, <1>7, <1>8, <1>9 DEF RolloutInv

LEMMA NextKeepsRollout ==
    ASSUME RolloutInv, Rollout!Next
    PROVE  RolloutInv'
<1>1. ASSUME NEW a \in Admins, Rollout!Administer(a) \/ Rollout!Serve(a) \/ Rollout!Abandon(a)
      PROVE  RolloutInv'
  BY <1>1, AdminReads, DraftsKeepRollout, VerdictKeepsRollout, ApprovalKeepsRollout, EnqueueKeepsRollout,
     MarkKeepsRollout DEF Rollout!Administer, Rollout!Serve
<1>2. ASSUME NEW w \in Actors, Rollout!Execute(w) \/ Rollout!Throw(w) \/ Rollout!Lost(w) \/ Rollout!LeaseLost(w)
      PROVE  RolloutInv'
  <2>1. w \in Actors \cup Admins
    OBVIOUS
  <2>2. CASE \E t \in Rollout!Targets, k \in Rollout!Keys : Rollout!Claim(w, t, k)
    BY <2>2, JobsKeepRollout
  <2>3. CASE (\E t \in Rollout!Targets : Rollout!Enqueue(w, t)) \/ Rollout!Mark(w)
    BY <2>1, <2>3, EnqueueKeepsRollout, MarkKeepsRollout
  <2>4. CASE \/ Rollout!ReadRollout(w) \/ Rollout!Survey(w) \/ Rollout!Refresh(w) \/ Rollout!AllEnqueued(w)
             \/ Rollout!Throw(w)
    BY <2>4, WorkersRead
  <2>5. CASE Rollout!Load(w) \/ Rollout!Limit(w) \/ Rollout!Return(w) \/ Rollout!Lost(w) \/ Rollout!LeaseLost(w)
    BY <2>5, EndingsKeepRollout
  <2>6. CASE Rollout!Start(w) \/ Rollout!Succeed(w) \/ Rollout!FailTarget(w) \/ Rollout!Remote(w)
    BY <2>6, TargetsKeepRollout
  <2>7. CASE Rollout!Pause(w) \/ Rollout!Release(w) \/ Rollout!Close(w)
    BY <2>7, DecisionsKeepRollout
  <2> QED
    BY <1>2, <2>2, <2>3, <2>4, <2>5, <2>6, <2>7 DEF Rollout!Execute
<1>3. ASSUME NEW t \in Rollout!Targets, NEW k \in Rollout!Keys, Rollout!RetryJob(t, k) \/ Rollout!CancelJob(t, k)
      PROVE  RolloutInv'
  BY <1>3, JobsKeepRollout
<1> QED
  BY <1>1, <1>2, <1>3 DEF Rollout!Next

\* No step enqueues, ends or requeues a job that is done or cancelled.
LEMMA EndedJobsStay ==
    ASSUME RolloutInv, Rollout!Next
    PROVE  Rollout!EndedStaysEnded
<1> SUFFICES ASSUME NEW t \in Rollout!Targets, NEW k \in Rollout!Keys, job[t][k] \in {"done", "cancelled"}
             PROVE  job'[t][k] = job[t][k]
  BY DEF Rollout!EndedStaysEnded
<1>1. job \in [Rollout!Targets -> [Rollout!Keys -> Rollout!JobStatus]]
  BY DEF RolloutInv, Rollout!TypeOK
<1>2. ASSUME NEW u, NEW i, NEW status, job' = [job EXCEPT ![u][i] = status], job[u][i] \notin {"done", "cancelled"}
      PROVE  job'[t][k] = job[t][k]
  BY <1>1, <1>2
<1>3. ASSUME NEW w \in Actors, NEW status, Rollout!EndJob(w, status)
      PROVE  job'[t][k] = job[t][k]
  <2>1. CASE process[w].leased
    <3>1. /\ job' = [job EXCEPT ![process[w].target][process[w].key] = status]
          /\ job[process[w].target][process[w].key] = "active"
      BY <1>3, <2>1 DEF Rollout!EndJob, RolloutInv, LeasesFollow
    <3> QED
      BY <1>2, <3>1
  <2>2. CASE ~process[w].leased
    BY <1>3, <2>2 DEF Rollout!EndJob
  <2> QED
    BY <2>1, <2>2
<1>4. ASSUME NEW p, NEW u, Rollout!Enqueue(p, u) PROVE job'[t][k] = job[t][k]
  <2>1. PICK i : i = Rollout!KeyFor(p)
    OBVIOUS
  <2>2. job' = IF job[u][i] # "absent" THEN job ELSE [job EXCEPT ![u][i] = "queued"]
    BY <1>4, <2>1 DEF Rollout!Enqueue
  <2> QED
    BY <1>2, <2>2
<1>5. ASSUME NEW a \in Admins, Rollout!Administer(a) \/ Rollout!Serve(a) \/ Rollout!Abandon(a)
      PROVE  job'[t][k] = job[t][k]
  <2>1. CASE Rollout!Administer(a) \/ Rollout!Abandon(a)
    BY <2>1 DEF Rollout!Administer, Rollout!Abandon, Rollout!SelectRead, Rollout!ConfirmRead, Rollout!RetryRead,
       Rollout!ReviewRequest
  <2>2. CASE Rollout!Serve(a)
    BY <1>4, <2>2 DEF Rollout!Serve, Rollout!Select, Rollout!Review, Rollout!Decide, Rollout!Prepare,
       Rollout!Approve, Rollout!Resume, Rollout!Mark, Rollout!AllEnqueued
  <2> QED
    BY <1>5, <2>1, <2>2
<1>6. ASSUME NEW w \in Actors, Rollout!Execute(w) \/ Rollout!Throw(w) \/ Rollout!Lost(w) \/ Rollout!LeaseLost(w)
      PROVE  job'[t][k] = job[t][k]
  <2>1. CASE \E u \in Rollout!Targets, i \in Rollout!Keys : Rollout!Claim(w, u, i)
    <3>1. PICK u \in Rollout!Targets, i \in Rollout!Keys : Rollout!Claim(w, u, i)
      BY <2>1
    <3>2. job' = [job EXCEPT ![u][i] = "active"] /\ job[u][i] = "queued"
      BY <3>1 DEF Rollout!Claim
    <3> QED
      BY <1>2, <3>2
  <2>2. CASE Rollout!Load(w) \/ Rollout!Limit(w) \/ Rollout!Return(w) \/ Rollout!Lost(w) \/ Rollout!LeaseLost(w)
    BY <1>3, <2>2 DEF Rollout!Load, Rollout!Limit, Rollout!Return, Rollout!Lost, Rollout!LeaseLost, Rollout!Park
  <2>3. CASE \/ Rollout!Start(w) \/ Rollout!Remote(w) \/ Rollout!Succeed(w) \/ Rollout!FailTarget(w)
             \/ Rollout!ReadRollout(w) \/ Rollout!Survey(w) \/ Rollout!Pause(w) \/ Rollout!Release(w)
             \/ Rollout!Mark(w) \/ Rollout!AllEnqueued(w) \/ Rollout!Refresh(w) \/ Rollout!Close(w)
             \/ Rollout!Throw(w)
    BY <2>3 DEF Rollout!Start, Rollout!Remote, Rollout!Succeed, Rollout!FailTarget, Rollout!ReadRollout,
       Rollout!Survey, Rollout!Pause, Rollout!Release, Rollout!Mark, Rollout!AllEnqueued, Rollout!Refresh,
       Rollout!Close, Rollout!Throw
  <2> QED
    BY <1>4, <1>6, <2>1, <2>2, <2>3 DEF Rollout!Execute
<1>7. ASSUME NEW u \in Rollout!Targets, NEW i \in Rollout!Keys, Rollout!RetryJob(u, i) \/ Rollout!CancelJob(u, i)
      PROVE  job'[t][k] = job[t][k]
  BY <1>2, <1>7 DEF Rollout!RetryJob, Rollout!CancelJob
<1> QED
  BY <1>5, <1>6, <1>7 DEF Rollout!Next

RolledInv == part = "rollouts" => RolloutInv

LEMMA RolloutsKept == (Init => RolledInv) /\ (RolledInv /\ [Next]_vars => RolledInv')
<1>1. Init => RolledInv
  BY InitRollout DEF Init, RolledInv
<1>2. RolledInv /\ [Next]_vars => RolledInv'
  <2> SUFFICES ASSUME RolledInv, [Next]_vars, part' = "rollouts" PROVE RolloutInv'
    BY DEF RolledInv
  <2>1. CASE Next
    <3>1. part = "rollouts" /\ Rollout!Next
      BY <2>1 DEF Next
    <3> QED
      BY <3>1, NextKeepsRollout DEF RolledInv
  <2>2. CASE UNCHANGED vars
    BY <2>2 DEF vars, rollouts, RolledInv, RolloutInv, WorkerFollows, AdminFollows, LeasesFollow, RowsFollow,
       JobsFollow, Tried, Cleared, TrialTried, CanariesTried, AllUpdated, Rollout!TypeOK, Rollout!Batched,
       Rollout!CanaryFirst, Rollout!SucceededWasUpdated, Rollout!Chosen, Rollout!Canaries
  <2> QED
    BY <2>1, <2>2
<1> QED
  BY <1>1, <1>2

\* Every job of a rollout waits for the review and, outside the canary batch, for the
\* canaries, however the statements of any number of administrators, the workers'
\* evaluations, retries, lost leases and crashes interleave (plugin-rollout-service.ts);
\* when a selection or a batch moved after batches existed, it waits for one canary.
THEOREM RolloutsWaitTheirTurn == Spec => []JobsWaitTheirTurn
<1>1. RolledInv => JobsWaitTheirTurn
  <2> SUFFICES ASSUME RolloutInv PROVE Rollout!JobsWaitTheirTurn
    BY DEF RolledInv, JobsWaitTheirTurn
  <2>1. Rollout!TrialFirst
    BY DEF RolloutInv, RowsFollow, JobsFollow, Cleared, TrialTried, Tried, Rollout!TrialFirst
  <2>2. Rollout!ReviewedBeforeJobs
    BY DEF RolloutInv, RowsFollow, JobsFollow, Rollout!ReviewedBeforeJobs
  <2> QED
    BY <2>1, <2>2 DEF RolloutInv, RowsFollow, Rollout!JobsWaitTheirTurn
<1> QED
  BY <1>1, RolloutsKept, PTL DEF Spec

\* No target is shown as succeeded before its site was updated, nor a rollout whose
\* selection stood still as completed before all its sites were, although both are
\* decided from rows read earlier and several administrators confirm and retry at once.
THEOREM RolloutsShowWhatHappened == Spec => []ShownAsUpdated
<1>1. RolledInv => ShownAsUpdated
  <2> SUFFICES ASSUME RolloutInv PROVE Rollout!ShownAsUpdated
    BY DEF RolledInv, ShownAsUpdated
  <2> QED
    BY DEF RolloutInv, RowsFollow, AllUpdated, Rollout!ShownAsUpdated, Rollout!CompletedWasUpdated,
       Rollout!Chosen
<1> QED
  BY <1>1, RolloutsKept, PTL DEF Spec

\* A job of a rollout that is done or cancelled is never run again: enqueueing finds
\* its key taken, and only the worker that holds its lease ends a job.
THEOREM EndedJobsStayEnded == Spec => EndedJobKept
<1>1. RolledInv /\ [Next]_vars => [part = "rollouts" => Rollout!EndedStaysEnded]_vars
  <2> SUFFICES ASSUME RolledInv, Next, part = "rollouts" PROVE Rollout!EndedStaysEnded
    OBVIOUS
  <2>1. RolloutInv /\ Rollout!Next
    BY DEF RolledInv, Next
  <2> QED
    BY <2>1, EndedJobsStay
<1> QED
  BY <1>1, RolloutsKept, PTL DEF Spec, EndedJobKept

--------------------------------------------------------------------------------
(* Recoveries.  A completed backup is never written again and has all its     *)
(* objects; a request rests on rows it read before, so what it read must say  *)
(* something of the rows that are there now.                                  *)

PreflightCall ==
    [does : {"preflight"}, policy : BOOLEAN \cup {none}, artifact : Recovery!Artifact \cup {none},
     objects : (SUBSET Recovery!Portable) \cup {none}, allowed : BOOLEAN]

OutcomeCall == [does : {"outcome"}, read : Recovery!Plan, downloaded : BOOLEAN, completed : BOOLEAN]

DiscoveryCall ==
    [does : {"discovery"}, step : {"plan", "backup", "save", "found"},
     found : Recovery!Evidence \cup {none}, at : 0 .. MaxRecoveryTime]

ConfirmationCall == [does : {"confirmation"}, age : Int]

RecoveryCall == PreflightCall \cup OutcomeCall \cup DiscoveryCall \cup ConfirmationCall \cup {Recovery!Idle}

\* What makes a piece of evidence good for as long as it says.
Vouched(e) ==
    IF e.source = "sitecare-backup"
    THEN artifact.status = "completed" /\ artifact.completed = e.completed
         /\ e.until = e.completed + DerivedDays
    ELSE e.until <= e.completed + ConfirmedDays

\* How old the backup of it may have been when it was looked at.
Recent(e, age) == age <= IF e.source = "sitecare-backup" THEN DerivedDays ELSE ConfirmedDays

\* What a request has read, and what is still true of it.
RecoveryCallFollows(k) ==
    /\ k.does = "preflight" =>
          /\ policy = TRUE => k.allowed = TRUE
          /\ k.policy = TRUE => k.allowed = TRUE
          /\ k.artifact # none /\ k.artifact.status = "completed" => k.artifact = artifact
          /\ k.objects # none => k.objects \subseteq objects
    /\ k.does = "outcome" =>
          /\ plan # none /\ k.read.status = plan.status
          /\ crossed = FALSE => k.read = plan
    /\ k.does = "discovery" =>
          /\ k.step = "save" => k.found \in Recovery!Evidence /\ Vouched(k.found)
          /\ k.found # none => Vouched(k.found)
    /\ k.does = "confirmation" => goal # none /\ goal.evidence # none /\ Recent(goal.evidence, k.age)

\* A completed backup has all its objects, and nobody is left to write it.
BackupWhole ==
    /\ objects \subseteq artifact.included \cup {"readme"}
    /\ artifact.status = "completed" =>
          /\ worker = [at |-> "ended", claimed |-> FALSE]
          /\ artifact.included \cup {"readme"} \subseteq objects
          /\ artifact.completed \in 0 .. MaxRecoveryTime

OutcomesAlone ==
    crossed = FALSE =>
        \A c, d \in Actors : doing[c].does = "outcome" /\ doing[d].does = "outcome" => c = d

EvidenceVouched ==
    /\ \A e \in evidences : Vouched(e)
    /\ goal # none /\ goal.evidence # none => Vouched(goal.evidence)

RecoveryInv ==
    /\ Recovery!RecoveriesTypeOK
    /\ doing \in [Actors -> RecoveryCall]
    /\ verified \in BOOLEAN /\ crossed \in BOOLEAN /\ unallowed \in BOOLEAN
    /\ \A c \in Actors : RecoveryCallFollows(doing[c])
    /\ BackupWhole
    /\ OutcomesAlone
    /\ EvidenceVouched
    /\ Recovery!PassedPlanIsWhole
    /\ verified = TRUE /\ crossed = FALSE => plan # none /\ plan.downloaded = TRUE
    /\ Recovery!RestsOnRecentBackup

RecoveriesInv == part \in {"restores", "evidence"} => RecoveryInv

LEMMA RecoveryFacts ==
    /\ DerivedDays \in Nat /\ ConfirmedDays \in Nat /\ MaxRecoveryTime \in Nat /\ MaxRecoveryErrands \in Nat
    /\ none \notin Recovery!Plan /\ none \notin Recovery!Target
BY OperationsAssumption DEF Recovery!RecoveriesAssumption

\* What makes evidence good outlives every step that leaves a completed backup alone.
LEMMA VouchedGoesOn ==
    ASSUME NEW e, Vouched(e), artifact.status = "completed" => artifact' = artifact
    PROVE  Vouched(e)'
BY DEF Vouched

\* What a request has read stays true of rows that only move on.
LEMMA RecoveryCallGoesOn ==
    ASSUME NEW k, RecoveryCallFollows(k), policy' = policy,
           artifact.status = "completed" => artifact' = artifact,
           objects \subseteq objects',
           plan # none => plan' # none /\ plan'.status = plan.status,
           crossed' = FALSE => crossed = FALSE /\ (plan' = plan \/ k.does # "outcome"),
           goal # none => goal' # none /\ goal'.evidence = goal.evidence
    PROVE  RecoveryCallFollows(k)'
<1>1. k.does = "preflight" =>
         /\ policy' = TRUE => k.allowed = TRUE
         /\ k.policy = TRUE => k.allowed = TRUE
         /\ k.artifact # none /\ k.artifact.status = "completed" => k.artifact = artifact'
         /\ k.objects # none => k.objects \subseteq objects'
  BY DEF RecoveryCallFollows
<1>2. k.does = "outcome" =>
         /\ plan' # none /\ k.read.status = plan'.status
         /\ crossed' = FALSE => k.read = plan'
  BY DEF RecoveryCallFollows
<1>3. k.does = "discovery" =>
         /\ k.step = "save" => k.found \in Recovery!Evidence /\ Vouched(k.found)'
         /\ k.found # none => Vouched(k.found)'
  <2>1. k.does = "discovery" => (k.found # none \/ k.step = "save" => Vouched(k.found))
    BY DEF RecoveryCallFollows
  <2>2. Vouched(k.found) => Vouched(k.found)'
    BY VouchedGoesOn
  <2> QED
    BY <2>1, <2>2 DEF RecoveryCallFollows
<1>4. k.does = "confirmation" => goal' # none /\ goal'.evidence # none /\ Recent(goal'.evidence, k.age)
  BY DEF RecoveryCallFollows
<1> QED
  BY <1>1, <1>2, <1>3, <1>4 DEF RecoveryCallFollows

\* One request moves; the others go on with what they read.
LEMMA OneRecoveryCallMoves ==
    ASSUME RecoveryInv, NEW c \in Actors, NEW k \in RecoveryCall, doing' = [doing EXCEPT ![c] = k],
           RecoveryCallFollows(k)',
           \A d \in Actors \ {c} : RecoveryCallFollows(doing[d]) => RecoveryCallFollows(doing[d])',
           crossed' = FALSE => crossed = FALSE /\ (k.does = "outcome" =>
               \A d \in Actors \ {c} : doing[d].does # "outcome")
    PROVE  /\ doing' \in [Actors -> RecoveryCall]
           /\ \A d \in Actors : RecoveryCallFollows(doing[d])'
           /\ OutcomesAlone'
<1>1. doing \in [Actors -> RecoveryCall] /\ (\A d \in Actors : RecoveryCallFollows(doing[d])) /\ OutcomesAlone
  BY DEF RecoveryInv
<1>2. doing' \in [Actors -> RecoveryCall]
  BY <1>1
<1>3. doing'[c] = k /\ \A d \in Actors \ {c} : doing'[d] = doing[d]
  BY <1>1
<1>4. OutcomesAlone'
  BY <1>1, <1>3 DEF OutcomesAlone
<1> QED
  BY <1>1, <1>2, <1>3, <1>4

LEMMA RecoveryCallKinds ==
    ASSUME NEW k \in RecoveryCall
    PROVE  /\ k.does = "preflight" => k \in PreflightCall
           /\ k.does = "outcome" => k \in OutcomeCall
           /\ k.does = "discovery" => k \in DiscoveryCall
           /\ k.does = "confirmation" => k \in ConfirmationCall
BY DEF RecoveryCall, PreflightCall, OutcomeCall, DiscoveryCall, ConfirmationCall, Recovery!Idle

\* An ended request has read nothing.
LEMMA IdleRecoveryCall ==
    /\ Recovery!Idle \in RecoveryCall /\ Recovery!Idle.does = "nothing"
    /\ RecoveryCallFollows(Recovery!Idle) /\ RecoveryCallFollows(Recovery!Idle)'
BY DEF RecoveryCall, RecoveryCallFollows, Recovery!Idle

\* A step of one request that writes no row.
LEMMA RecoveryRequestMoves ==
    ASSUME RecoveryInv, NEW c \in Actors, NEW k \in RecoveryCall, doing' = [doing EXCEPT ![c] = k],
           RecoveryCallFollows(k),
           UNCHANGED <<policy, pro, artifact, objects, worker, plan, evidences, goal, day, verified,
                       approved, unallowed>>,
           asked' \in 0 .. MaxRecoveryErrands, crossed' \in BOOLEAN,
           crossed' = FALSE => crossed = FALSE /\ (k.does = "outcome" =>
               \A d \in Actors \ {c} : doing[d].does # "outcome")
    PROVE  RecoveryInv'
<1>1. ASSUME NEW j, RecoveryCallFollows(j) PROVE RecoveryCallFollows(j)'
  BY <1>1, RecoveryCallGoesOn
<1>2. \A d \in Actors \ {c} : RecoveryCallFollows(doing[d]) => RecoveryCallFollows(doing[d])'
  <2>1. ASSUME NEW d \in Actors \ {c}, RecoveryCallFollows(doing[d]) PROVE RecoveryCallFollows(doing[d])'
    <3>1. PICK j : j = doing[d] /\ j = doing'[d]
      BY DEF RecoveryInv
    <3>2. RecoveryCallFollows(j)
      BY <2>1, <3>1
    <3> QED
      BY <1>1, <3>1, <3>2
  <2> QED
    BY <2>1
<1>3. /\ doing' \in [Actors -> RecoveryCall]
      /\ \A d \in Actors : RecoveryCallFollows(doing[d])'
      /\ OutcomesAlone'
  <2>1. RecoveryCallFollows(k)'
    BY <1>1
  <2> QED
    BY <1>2, <2>1, OneRecoveryCallMoves
<1>4. Recovery!RecoveriesTypeOK' /\ BackupWhole' /\ EvidenceVouched'
  BY DEF RecoveryInv, Recovery!RecoveriesTypeOK, BackupWhole, EvidenceVouched, Vouched
<1>5. Recovery!PassedPlanIsWhole' /\ Recovery!RestsOnRecentBackup'
  BY DEF RecoveryInv, Recovery!PassedPlanIsWhole, Recovery!RestsOnRecentBackup
<1>6. verified' \in BOOLEAN /\ unallowed' \in BOOLEAN
      /\ (verified' = TRUE /\ crossed' = FALSE => plan' # none /\ plan'.downloaded = TRUE)
  BY DEF RecoveryInv
<1> QED
  BY <1>3, <1>4, <1>5, <1>6 DEF RecoveryInv

\* The worker moves, or loses its job.
LEMMA BackupMovesRecovery ==
    ASSUME RecoveryInv,
           UNCHANGED <<policy, pro, plan, evidences, goal, doing, day, asked, verified, crossed,
                       approved, unallowed>>,
           artifact' \in Recovery!Artifact, worker' \in [at : {"packing", "uploading", "ended"}, claimed : BOOLEAN],
           objects' \subseteq Recovery!Portable, objects \subseteq objects',
           artifact.status = "completed" => artifact' = artifact,
           BackupWhole'
    PROVE  RecoveryInv'
<1>1. \A d \in Actors : RecoveryCallFollows(doing[d])'
  <2>1. ASSUME NEW d \in Actors PROVE RecoveryCallFollows(doing[d])'
    <3>1. PICK j : j = doing[d] /\ j = doing'[d]
      OBVIOUS
    <3>2. RecoveryCallFollows(j)
      BY <3>1 DEF RecoveryInv
    <3>3. RecoveryCallFollows(j)'
      BY <3>2, RecoveryCallGoesOn
    <3> QED
      BY <3>1, <3>3
  <2> QED
    BY <2>1
<1>2. EvidenceVouched'
  <2>1. \A e : Vouched(e) => Vouched(e)'
    BY VouchedGoesOn
  <2> QED
    BY <2>1 DEF RecoveryInv, EvidenceVouched
<1>3. Recovery!PassedPlanIsWhole' /\ Recovery!RestsOnRecentBackup'
  BY DEF RecoveryInv, Recovery!PassedPlanIsWhole, Recovery!RestsOnRecentBackup
<1>4. Recovery!RecoveriesTypeOK' /\ OutcomesAlone'
  BY DEF RecoveryInv, Recovery!RecoveriesTypeOK, OutcomesAlone
<1> QED
  BY <1>1, <1>2, <1>3, <1>4 DEF RecoveryInv

LEMMA BackupKeepsRecovery ==
    ASSUME RecoveryInv, Recovery!Backup
    PROVE  RecoveryInv'
<1>1. /\ artifact \in Recovery!Artifact /\ objects \subseteq Recovery!Portable /\ BackupWhole
      /\ worker \in [at : {"packing", "uploading", "ended"}, claimed : BOOLEAN] /\ day \in 0 .. MaxRecoveryTime
  BY DEF RecoveryInv, Recovery!RecoveriesTypeOK
<1>2. artifact.status = "completed" => worker.at = "ended" /\ worker.claimed = FALSE
  BY <1>1 DEF BackupWhole
<1>3. artifact.included \cup {"readme"} \subseteq Recovery!Portable
  BY <1>1 DEF Recovery!Artifact, Recovery!Portable
<1>4. UNCHANGED <<policy, pro, plan, evidences, goal, doing, day, asked, verified, crossed, approved, unallowed>>
  BY DEF Recovery!Backup, Recovery!RecordPackage, Recovery!UploadObject, Recovery!FinishBackup,
     Recovery!FailStale, Recovery!settings, Recovery!outcome, Recovery!rollout
<1>5. CASE Recovery!RecordPackage
  <2>1. worker.at = "packing" /\ worker' = [worker EXCEPT !.at = "uploading"] /\ objects' = objects
    BY <1>5 DEF Recovery!RecordPackage
  <2>2. artifact' = [status |-> "running", included |-> artifact.included, recorded |-> TRUE,
                     uploaded |-> FALSE, completed |-> none]
    BY <1>5 DEF Recovery!RecordPackage
  <2>3. artifact' \in Recovery!Artifact
    BY <1>1, <2>2 DEF Recovery!Artifact
  <2>4. BackupWhole'
    BY <1>1, <2>1, <2>2 DEF BackupWhole
  <2>5. worker' \in [at : {"packing", "uploading", "ended"}, claimed : BOOLEAN]
    BY <1>1, <2>1
  <2>6. artifact.status # "completed"
    BY <1>2, <2>1
  <2> QED
    BY <1>1, <1>4, <2>1, <2>3, <2>4, <2>5, <2>6, BackupMovesRecovery
<1>6. CASE Recovery!UploadObject
  <2>1. PICK object \in (artifact.included \cup {"readme"}) \ objects : objects' = objects \cup {object}
    BY <1>6 DEF Recovery!UploadObject, Recovery!SaveObject
  <2>2. UNCHANGED <<artifact, worker>>
    BY <1>6 DEF Recovery!UploadObject
  <2>3. BackupWhole'
    BY <1>1, <2>1, <2>2 DEF BackupWhole
  <2> QED
    BY <1>1, <1>3, <1>4, <2>1, <2>2, <2>3, BackupMovesRecovery
<1>7. CASE Recovery!FinishBackup
  <2>1. worker.at # "ended" /\ worker' = [at |-> "ended", claimed |-> FALSE] /\ objects' = objects
    BY <1>7 DEF Recovery!FinishBackup, Recovery!Finish
  <2>2. \/ artifact' = artifact
        \/ /\ artifact.included \cup {"readme"} \subseteq objects
           /\ artifact' = [artifact EXCEPT !.status = "completed", !.uploaded = TRUE, !.completed = day]
        \/ artifact' = [artifact EXCEPT !.status = "failed", !.completed = day]
    BY <1>7 DEF Recovery!FinishBackup, Recovery!Finish
  <2>3. artifact' \in Recovery!Artifact /\ artifact'.included = artifact.included
    BY <1>1, <2>2 DEF Recovery!Artifact
  <2>4. artifact.status # "completed"
    BY <1>2, <2>1
  <2>5. artifact'.status = "completed" => artifact.included \cup {"readme"} \subseteq objects /\ artifact'.completed = day
    BY <1>1, <2>2, <2>4 DEF Recovery!Artifact
  <2>6. BackupWhole'
    BY <1>1, <2>1, <2>3, <2>5 DEF BackupWhole
  <2> QED
    BY <1>1, <1>4, <2>1, <2>3, <2>4, <2>6, BackupMovesRecovery
<1>8. CASE Recovery!FailStale
  <2>1. worker.claimed = TRUE /\ objects' = objects
    BY <1>1, <1>8 DEF Recovery!FailStale
  <2>2. worker' \in [at : {"packing", "uploading", "ended"}, claimed : BOOLEAN]
    BY <1>1, <1>8 DEF Recovery!FailStale
  <2>3. artifact' = artifact \/ artifact' = [artifact EXCEPT !.status = "failed", !.completed = day]
    BY <1>8 DEF Recovery!FailStale
  <2>4. artifact.status # "completed"
    BY <1>2, <2>1
  <2>5. artifact' \in Recovery!Artifact /\ artifact'.included = artifact.included /\ artifact'.status # "completed"
    BY <1>1, <2>3, <2>4 DEF Recovery!Artifact
  <2>6. BackupWhole'
    BY <1>1, <2>1, <2>5 DEF BackupWhole
  <2> QED
    BY <1>1, <1>4, <2>1, <2>2, <2>4, <2>5, <2>6, BackupMovesRecovery
<1> QED
  BY <1>5, <1>6, <1>7, <1>8 DEF Recovery!Backup

\* The kinds of steps that only read.
LEMMA ReadsKeepRecovery ==
    ASSUME RecoveryInv, NEW c \in Actors,
           \/ Recovery!BeginPreflight(c) \/ Recovery!Read(c) \/ Recovery!ReadPlan(c)
           \/ Recovery!FindEvidence(c) \/ Recovery!FindPlan(c) \/ Recovery!FindBackup(c)
           \/ Recovery!CheckEvidence(c) \/ Recovery!Abandon(c)
    PROVE  RecoveryInv'
<1>1. /\ doing \in [Actors -> RecoveryCall] /\ doing[c] \in RecoveryCall /\ RecoveryCallFollows(doing[c])
      /\ policy \in BOOLEAN /\ pro \in BOOLEAN /\ artifact \in Recovery!Artifact
      /\ objects \subseteq Recovery!Portable /\ day \in 0 .. MaxRecoveryTime /\ asked \in 0 .. MaxRecoveryErrands
      /\ plan \in Recovery!Plan \cup {none} /\ evidences \subseteq Recovery!Evidence
      /\ goal \in Recovery!Target \cup {none}
      /\ crossed \in BOOLEAN
  BY DEF RecoveryInv, Recovery!RecoveriesTypeOK
<1>2. UNCHANGED <<policy, pro, artifact, objects, worker, plan, evidences, goal, day, verified, approved, unallowed>>
  BY DEF Recovery!BeginPreflight, Recovery!Read, Recovery!ReadPlan, Recovery!FindEvidence, Recovery!FindPlan,
     Recovery!FindBackup, Recovery!CheckEvidence, Recovery!Abandon, Recovery!settings, Recovery!backup,
     Recovery!outcome, Recovery!rollout
<1>3. ASSUME NEW k, Recovery!Begin(c, k)
      PROVE  doing' = [doing EXCEPT ![c] = k] /\ asked' \in 0 .. MaxRecoveryErrands
  BY <1>1, <1>3, RecoveryFacts DEF Recovery!Begin
<1>4. CASE Recovery!BeginPreflight(c)
  <2>1. PICK k : /\ k = [does |-> "preflight", policy |-> none, artifact |-> none, objects |-> none, allowed |-> policy]
                 /\ Recovery!Begin(c, k)
    BY <1>4 DEF Recovery!BeginPreflight
  <2>2. k \in RecoveryCall
    BY <1>1, <2>1 DEF RecoveryCall, PreflightCall
  <2>3. RecoveryCallFollows(k)
    <3>1. none = TRUE => FALSE
      BY OperationsAssumption DEF Recovery!RecoveriesAssumption
    <3> QED
      BY <2>1, <3>1 DEF RecoveryCallFollows
  <2>4. crossed' = crossed /\ k.does # "outcome"
    BY <1>4, <2>1 DEF Recovery!BeginPreflight, Recovery!outcome
  <2>5. doing' = [doing EXCEPT ![c] = k] /\ asked' \in 0 .. MaxRecoveryErrands
    BY <1>3, <2>1
  <2> QED
    BY <1>1, <1>2, <2>2, <2>3, <2>4, <2>5, RecoveryRequestMoves
<1>5. CASE Recovery!Read(c)
  <2>1. doing[c].does = "preflight" /\ doing[c] \in PreflightCall
    BY <1>1, <1>5, RecoveryCallKinds DEF Recovery!Read
  <2>2. PICK k : /\ doing' = [doing EXCEPT ![c] = k]
                 /\ \/ k = [doing[c] EXCEPT !.policy = policy]
                    \/ k = [doing[c] EXCEPT !.artifact = artifact]
                    \/ k = [doing[c] EXCEPT !.objects = objects]
    BY <1>1, <1>5 DEF Recovery!Read
  <2>3. k \in PreflightCall /\ k.does = "preflight" /\ k.allowed = doing[c].allowed
    BY <1>1, <2>1, <2>2 DEF PreflightCall
  <2>4. /\ k.policy = policy \/ k.policy = doing[c].policy
        /\ k.artifact = artifact \/ k.artifact = doing[c].artifact
        /\ k.objects = objects \/ k.objects = doing[c].objects
    BY <2>1, <2>2 DEF PreflightCall
  <2>5. RecoveryCallFollows(k)
    BY <1>1, <2>1, <2>3, <2>4 DEF RecoveryCallFollows
  <2>6. crossed' = crossed /\ asked' = asked
    BY <1>5 DEF Recovery!Read, Recovery!outcome
  <2>7. k \in RecoveryCall
    BY <2>3 DEF RecoveryCall
  <2> QED
    BY <1>1, <1>2, <2>2, <2>3, <2>5, <2>6, <2>7, RecoveryRequestMoves
<1>6. CASE Recovery!ReadPlan(c)
  <2>1. PICK downloaded, completed \in BOOLEAN :
            Recovery!Begin(c, [does |-> "outcome", read |-> plan, downloaded |-> downloaded, completed |-> completed])
    BY <1>6 DEF Recovery!ReadPlan
  <2>2. plan # none /\ crossed' = (crossed \/ \E d \in Actors : doing[d].does = "outcome")
    BY <1>6 DEF Recovery!ReadPlan
  <2>3. PICK k : k = [does |-> "outcome", read |-> plan, downloaded |-> downloaded, completed |-> completed]
    OBVIOUS
  <2>4. k \in RecoveryCall
    BY <1>1, <2>1, <2>2, <2>3 DEF RecoveryCall, OutcomeCall
  <2>5. RecoveryCallFollows(k)
    BY <2>2, <2>3 DEF RecoveryCallFollows
  <2>6. doing' = [doing EXCEPT ![c] = k] /\ asked' \in 0 .. MaxRecoveryErrands
    BY <1>3, <2>1, <2>3
  <2>7. /\ crossed' \in BOOLEAN
        /\ crossed' = FALSE => crossed = FALSE /\ (k.does = "outcome" =>
               \A d \in Actors \ {c} : doing[d].does # "outcome")
    BY <1>1, <2>2
  <2> QED
    BY <1>1, <1>2, <2>4, <2>5, <2>6, <2>7, RecoveryRequestMoves
<1>7. CASE Recovery!FindEvidence(c)
  <2>1. PICK found \in evidences \cup {none} :
           Recovery!Begin(c, [does |-> "discovery", step |-> IF found = none THEN "plan" ELSE "found",
                              found |-> found, at |-> day])
    BY <1>7 DEF Recovery!FindEvidence
  <2>2. PICK k : k = [does |-> "discovery", step |-> IF found = none THEN "plan" ELSE "found",
                      found |-> found, at |-> day]
    OBVIOUS
  <2>3. k \in RecoveryCall
    BY <1>1, <2>1, <2>2 DEF RecoveryCall, DiscoveryCall
  <2>4. found # none => Vouched(found)
    BY <2>1 DEF RecoveryInv, EvidenceVouched
  <2>5. RecoveryCallFollows(k)
    BY <2>2, <2>4 DEF RecoveryCallFollows
  <2>6. crossed' = crossed /\ k.does # "outcome"
    BY <1>7, <2>2 DEF Recovery!FindEvidence, Recovery!outcome
  <2>7. doing' = [doing EXCEPT ![c] = k] /\ asked' \in 0 .. MaxRecoveryErrands
    BY <1>3, <2>1, <2>2
  <2> QED
    BY <1>1, <1>2, <2>3, <2>5, <2>6, <2>7, RecoveryRequestMoves
<1>8. CASE Recovery!FindPlan(c)
  <2>1. doing[c].does = "discovery" /\ doing[c].step = "plan" /\ doing[c] \in DiscoveryCall
    BY <1>1, <1>8, RecoveryCallKinds DEF Recovery!FindPlan
  <2>2. PICK k : doing' = [doing EXCEPT ![c] = k] /\ k = [doing[c] EXCEPT !.step = IF pro THEN "backup" ELSE "found"]
    BY <1>1, <1>8 DEF Recovery!FindPlan
  <2>3. k \in DiscoveryCall /\ k.does = "discovery" /\ k.found = doing[c].found /\ k.step # "save"
    BY <2>1, <2>2 DEF DiscoveryCall
  <2>4. RecoveryCallFollows(k)
    BY <1>1, <2>1, <2>3 DEF RecoveryCallFollows
  <2>5. crossed' = crossed /\ asked' = asked /\ k \in RecoveryCall
    BY <1>8, <2>3 DEF Recovery!FindPlan, Recovery!outcome, RecoveryCall
  <2> QED
    BY <1>1, <1>2, <2>2, <2>3, <2>4, <2>5, RecoveryRequestMoves
<1>9. CASE Recovery!FindBackup(c)
  <2>1. doing[c].does = "discovery" /\ doing[c].step = "backup" /\ doing[c] \in DiscoveryCall
    BY <1>1, <1>9, RecoveryCallKinds DEF Recovery!FindBackup
  <2>2. PICK k : /\ doing' = [doing EXCEPT ![c] = k]
                 /\ \/ /\ Recovery!Verified
                       /\ k = [doing[c] EXCEPT !.step = "save",
                                 !.found = [source |-> "sitecare-backup", completed |-> artifact.completed,
                                            until |-> artifact.completed + DerivedDays]]
                    \/ k = [doing[c] EXCEPT !.step = "found"]
    BY <1>1, <1>9 DEF Recovery!FindBackup, Recovery!ValidUntil
  <2>3. CASE k = [doing[c] EXCEPT !.step = "found"]
    <3>1. k \in DiscoveryCall /\ k.does = "discovery" /\ k.found = doing[c].found /\ k.step # "save"
      BY <2>1, <2>3 DEF DiscoveryCall
    <3>2. RecoveryCallFollows(k) /\ k \in RecoveryCall
      BY <1>1, <2>1, <3>1 DEF RecoveryCallFollows, RecoveryCall
    <3>3. crossed' = crossed /\ asked' = asked
      BY <1>9 DEF Recovery!FindBackup, Recovery!outcome
    <3> QED
      BY <1>1, <1>2, <2>2, <3>1, <3>2, <3>3, RecoveryRequestMoves
  <2>4. CASE k # [doing[c] EXCEPT !.step = "found"]
    <3>1. PICK e : /\ e = [source |-> "sitecare-backup", completed |-> artifact.completed,
                           until |-> artifact.completed + DerivedDays]
                   /\ k = [doing[c] EXCEPT !.step = "save", !.found = e]
      BY <2>2, <2>4
    <3>2. artifact.status = "completed" /\ artifact.completed \in 0 .. MaxRecoveryTime
      BY <2>2, <2>4 DEF Recovery!Verified, RecoveryInv, BackupWhole
    <3>3. e \in Recovery!Evidence
      <4>1. artifact.completed + DerivedDays \in 0 .. MaxRecoveryTime + DerivedDays + ConfirmedDays
        BY <3>2, RecoveryFacts
      <4> QED
        BY <3>1, <3>2, <4>1 DEF Recovery!Evidence
    <3>4. Vouched(e)
      BY <3>1, <3>2 DEF Vouched
    <3>5. k \in DiscoveryCall /\ k.does = "discovery" /\ k.found = e
      BY <2>1, <3>1, <3>3 DEF DiscoveryCall
    <3>6. RecoveryCallFollows(k) /\ k \in RecoveryCall
      BY <3>3, <3>4, <3>5 DEF RecoveryCallFollows, RecoveryCall
    <3>7. crossed' = crossed /\ asked' = asked
      BY <1>9 DEF Recovery!FindBackup, Recovery!outcome
    <3> QED
      BY <1>1, <1>2, <2>2, <3>5, <3>6, <3>7, RecoveryRequestMoves
  <2> QED
    BY <2>3, <2>4
<1>10. CASE Recovery!CheckEvidence(c)
  <2>1. /\ goal # none /\ goal.evidence # none /\ goal.evidence.until >= day
        /\ Recovery!Begin(c, [does |-> "confirmation", age |-> day - goal.evidence.completed])
    BY <1>10 DEF Recovery!CheckEvidence, Recovery!StillValid
  <2>2. PICK k : k = [does |-> "confirmation", age |-> day - goal.evidence.completed]
    OBVIOUS
  <2>3. goal.evidence \in Recovery!Evidence /\ Vouched(goal.evidence)
    BY <1>1, <2>1 DEF RecoveryInv, EvidenceVouched, Recovery!Target
  <2>4. goal.evidence.completed \in Int /\ goal.evidence.until \in Int /\ day \in Int
    BY <1>1, <2>3, RecoveryFacts DEF Recovery!Evidence
  <2>5. k \in RecoveryCall
    BY <2>2, <2>4 DEF RecoveryCall, ConfirmationCall
  <2>6. Recent(goal.evidence, k.age)
    BY <2>1, <2>2, <2>3, <2>4, RecoveryFacts DEF Recent, Vouched
  <2>7. RecoveryCallFollows(k)
    BY <2>1, <2>2, <2>6 DEF RecoveryCallFollows
  <2>8. crossed' = crossed /\ k.does # "outcome"
    BY <1>10, <2>2 DEF Recovery!CheckEvidence, Recovery!outcome
  <2>9. doing' = [doing EXCEPT ![c] = k] /\ asked' \in 0 .. MaxRecoveryErrands
    BY <1>3, <2>1, <2>2
  <2> QED
    BY <1>1, <1>2, <2>5, <2>7, <2>8, <2>9, RecoveryRequestMoves
<1>11. CASE Recovery!Abandon(c)
  <2>1. doing' = [doing EXCEPT ![c] = Recovery!Idle] /\ crossed' = crossed /\ asked' = asked
    BY <1>11 DEF Recovery!Abandon, Recovery!End, Recovery!outcome
  <2>2. PICK k : k = Recovery!Idle /\ k \in RecoveryCall /\ RecoveryCallFollows(k) /\ k.does # "outcome"
    BY IdleRecoveryCall
  <2> QED
    BY <1>1, <1>2, <2>1, <2>2, RecoveryRequestMoves
<1> QED
  BY <1>4, <1>5, <1>6, <1>7, <1>8, <1>9, <1>10, <1>11

\* A request ends; the rows only move on.
LEMMA RecoveryCallEnds ==
    ASSUME RecoveryInv, NEW c \in Actors, doing' = [doing EXCEPT ![c] = Recovery!Idle],
           UNCHANGED <<policy, artifact, objects, crossed>>,
           plan # none => plan' # none /\ plan'.status = plan.status,
           plan' = plan \/ plan = none \/ doing[c].does = "outcome",
           goal # none => goal' # none /\ goal'.evidence = goal.evidence
    PROVE  /\ doing' \in [Actors -> RecoveryCall]
           /\ \A d \in Actors : RecoveryCallFollows(doing[d])'
           /\ OutcomesAlone'
<1>1. \A d \in Actors \ {c} : RecoveryCallFollows(doing[d]) => RecoveryCallFollows(doing[d])'
  <2>1. ASSUME NEW d \in Actors \ {c}, RecoveryCallFollows(doing[d]) PROVE RecoveryCallFollows(doing[d])'
    <3>1. PICK j : j = doing[d] /\ j = doing'[d]
      BY DEF RecoveryInv
    <3>2. RecoveryCallFollows(j)
      BY <2>1, <3>1
    <3>3. crossed' = FALSE => crossed = FALSE /\ (plan' = plan \/ j.does # "outcome")
      <4>1. j.does = "outcome" => plan # none
        BY <3>2 DEF RecoveryCallFollows
      <4>2. crossed = FALSE /\ doing[c].does = "outcome" => j.does # "outcome"
        BY <3>1 DEF RecoveryInv, OutcomesAlone
      <4> QED
        BY <4>1, <4>2
    <3>4. RecoveryCallFollows(j)'
      BY <3>2, <3>3, RecoveryCallGoesOn
    <3> QED
      BY <3>1, <3>4
  <2> QED
    BY <2>1
<1>2. PICK k : k = Recovery!Idle /\ k \in RecoveryCall /\ k.does = "nothing"
  BY IdleRecoveryCall
<1>3. RecoveryCallFollows(k)'
  BY <1>2 DEF RecoveryCallFollows
<1> QED
  BY <1>1, <1>2, <1>3, OneRecoveryCallMoves

LEMMA PlansKeepRecovery ==
    ASSUME RecoveryInv, NEW c \in Actors, Recovery!CreateRestorePlan(c) \/ Recovery!RecordOutcome(c)
    PROVE  RecoveryInv'
<1>1. /\ doing[c] \in RecoveryCall /\ RecoveryCallFollows(doing[c])
      /\ plan \in Recovery!Plan \cup {none} /\ verified \in BOOLEAN
  BY DEF RecoveryInv, Recovery!RecoveriesTypeOK
<1>2. /\ UNCHANGED <<policy, pro, artifact, objects, worker, evidences, goal, day, approved, asked, crossed>>
      /\ doing' = [doing EXCEPT ![c] = Recovery!Idle]
  BY DEF Recovery!CreateRestorePlan, Recovery!RecordOutcome, Recovery!End, Recovery!settings, Recovery!backup,
     Recovery!outcome, Recovery!rollout
<1>3. ASSUME plan # none => plan' # none /\ plan'.status = plan.status,
             plan' = plan \/ plan = none \/ doing[c].does = "outcome",
             plan' \in Recovery!Plan \cup {none},
             Recovery!PassedPlanIsWhole', verified' \in BOOLEAN, unallowed' \in BOOLEAN,
             verified' = TRUE /\ crossed = FALSE => plan' # none /\ plan'.downloaded = TRUE
      PROVE  RecoveryInv'
  <2>1. /\ doing' \in [Actors -> RecoveryCall]
        /\ \A d \in Actors : RecoveryCallFollows(doing[d])'
        /\ OutcomesAlone'
    BY <1>2, <1>3, RecoveryCallEnds
  <2>2. Recovery!RecoveriesTypeOK' /\ BackupWhole' /\ EvidenceVouched'
    BY <1>2, <1>3 DEF RecoveryInv, Recovery!RecoveriesTypeOK, BackupWhole, EvidenceVouched, Vouched
  <2>3. Recovery!RestsOnRecentBackup' /\ crossed' \in BOOLEAN
    BY <1>2 DEF RecoveryInv, Recovery!RestsOnRecentBackup
  <2> QED
    BY <1>2, <1>3, <2>1, <2>2, <2>3 DEF RecoveryInv
<1>4. CASE Recovery!CreateRestorePlan(c)
  <2>1. /\ doing[c] \in PreflightCall /\ doing[c].does = "preflight"
        /\ doing[c].policy # none /\ doing[c].artifact # none /\ doing[c].objects # none
        /\ plan = none /\ verified' = verified
    BY <1>1, <1>4, RecoveryCallKinds DEF Recovery!CreateRestorePlan, Recovery!CreatePlan
  <2>2. /\ plan' = [status |-> IF Recovery!Passes(c) THEN "preflight-passed" ELSE "preflight-failed",
                    downloaded |-> FALSE, completed |-> FALSE]
        /\ unallowed' = (Recovery!Passes(c) /\ ~doing[c].allowed)
    BY <1>4 DEF Recovery!CreateRestorePlan, Recovery!CreatePlan
  <2>3. plan' \in Recovery!Plan
    BY <2>2 DEF Recovery!Plan
  <2>4. Recovery!Passes(c) =>
           /\ artifact.status = "completed" /\ Recovery!Portable \subseteq objects /\ doing[c].allowed = TRUE
    <3>1. SUFFICES ASSUME Recovery!Passes(c)
                   PROVE  artifact.status = "completed" /\ Recovery!Portable \subseteq objects /\ doing[c].allowed = TRUE
      OBVIOUS
    <3>2. /\ doing[c].policy \in BOOLEAN /\ doing[c].policy
          /\ doing[c].artifact.status = "completed" /\ Recovery!Portable \subseteq doing[c].objects
      BY <2>1, <3>1 DEF Recovery!Passes, PreflightCall
    <3> QED
      BY <1>1, <2>1, <3>2 DEF RecoveryCallFollows
  <2>5. artifact.included \in SUBSET {"files", "database"} /\ objects \subseteq artifact.included \cup {"readme"}
    BY DEF RecoveryInv, Recovery!RecoveriesTypeOK, Recovery!Artifact, BackupWhole
  <2>6. Recovery!PassedPlanIsWhole'
    <3>1. SUFFICES ASSUME plan'.status = "preflight-passed"
                   PROVE  /\ artifact'.status = "completed" /\ artifact'.included \cup {"readme"} = Recovery!Portable
                          /\ Recovery!Portable \subseteq objects' /\ ~unallowed'
      BY DEF Recovery!PassedPlanIsWhole
    <3>2. Recovery!Passes(c)
      BY <2>2, <3>1
    <3> QED
      BY <1>2, <2>2, <2>4, <2>5, <3>2 DEF Recovery!Portable
  <2>7. unallowed' \in BOOLEAN
    BY <2>2
  <2>8. ~ (verified = TRUE /\ crossed = FALSE)
    BY <2>1 DEF RecoveryInv
  <2> QED
    BY <1>1, <1>3, <2>1, <2>3, <2>6, <2>7, <2>8
<1>5. CASE Recovery!RecordOutcome(c)
  <2>1. doing[c] \in OutcomeCall /\ doing[c].does = "outcome" /\ unallowed' = unallowed
    BY <1>1, <1>5, RecoveryCallKinds DEF Recovery!RecordOutcome
  <2>2. PICK k : k = doing[c] /\ k \in OutcomeCall /\ RecoveryCallFollows(k) /\ k.does = "outcome"
    BY <1>1, <2>1
  <2>3. /\ plan' = [k.read EXCEPT !.downloaded = k.downloaded \/ k.read.downloaded, !.completed = k.completed]
        /\ verified' = (verified \/ k.downloaded)
    BY <1>5, <2>2 DEF Recovery!RecordOutcome, Recovery!UpdatePlan, Recovery!Downloaded
  <2>4. k.read \in Recovery!Plan /\ k.downloaded \in BOOLEAN /\ k.completed \in BOOLEAN
    BY <2>2 DEF OutcomeCall
  <2>5. PICK b \in BOOLEAN : b = (k.downloaded \/ k.read.downloaded)
    OBVIOUS
  <2>6. plan' \in Recovery!Plan /\ plan'.status = k.read.status /\ plan'.downloaded = b
    BY <2>3, <2>4, <2>5 DEF Recovery!Plan
  <2>7. plan # none /\ k.read.status = plan.status /\ (crossed = FALSE => k.read = plan)
    BY <2>2 DEF RecoveryCallFollows
  <2>8. verified' \in BOOLEAN /\ (verified' = TRUE /\ crossed = FALSE => plan'.downloaded = TRUE)
    <3>1. verified' = TRUE => verified = TRUE \/ k.downloaded = TRUE
      BY <1>1, <2>3, <2>4
    <3>2. verified = TRUE /\ crossed = FALSE => k.read.downloaded = TRUE
      BY <2>7 DEF RecoveryInv
    <3>3. k.downloaded = TRUE \/ k.read.downloaded = TRUE => b = TRUE
      BY <2>5
    <3>4. verified' \in BOOLEAN
      BY <1>1, <2>3, <2>4
    <3> QED
      BY <2>6, <3>1, <3>2, <3>3, <3>4
  <2>9. plan' # none
    BY <2>6, RecoveryFacts
  <2>10. Recovery!PassedPlanIsWhole'
    BY <1>2, <2>1, <2>6, <2>7 DEF RecoveryInv, Recovery!PassedPlanIsWhole
  <2>11. unallowed' \in BOOLEAN
    BY <2>1 DEF RecoveryInv
  <2> QED
    BY <1>3, <2>1, <2>2, <2>6, <2>7, <2>8, <2>9, <2>10, <2>11
<1> QED
  BY <1>4, <1>5

\* Evidence is written once and for what it was found to be.
LEMMA EvidenceKeepsRecovery ==
    ASSUME RecoveryInv, Recovery!RecordEvidence \/ \E c \in Actors : Recovery!DeriveEvidence(c)
    PROVE  RecoveryInv'
<1>1. /\ day \in 0 .. MaxRecoveryTime /\ asked \in 0 .. MaxRecoveryErrands /\ evidences \subseteq Recovery!Evidence
      /\ doing \in [Actors -> RecoveryCall]
  BY DEF RecoveryInv, Recovery!RecoveriesTypeOK
<1>2. /\ UNCHANGED <<policy, pro, artifact, objects, worker, plan, goal, day, approved, verified, crossed, unallowed>>
  BY DEF Recovery!RecordEvidence, Recovery!DeriveEvidence, Recovery!settings, Recovery!backup, Recovery!outcome
<1>3. ASSUME NEW e \in Recovery!Evidence, Vouched(e), evidences' = evidences \cup {e},
             asked' \in 0 .. MaxRecoveryErrands,
             doing' \in [Actors -> RecoveryCall], \A d \in Actors : RecoveryCallFollows(doing[d])', OutcomesAlone'
      PROVE  RecoveryInv'
  <2>1. EvidenceVouched'
    BY <1>2, <1>3 DEF RecoveryInv, EvidenceVouched, Vouched
  <2>2. Recovery!RecoveriesTypeOK' /\ BackupWhole'
    BY <1>2, <1>3 DEF RecoveryInv, Recovery!RecoveriesTypeOK, BackupWhole
  <2>3. Recovery!PassedPlanIsWhole' /\ Recovery!RestsOnRecentBackup'
    BY <1>2 DEF RecoveryInv, Recovery!PassedPlanIsWhole, Recovery!RestsOnRecentBackup
  <2> QED
    BY <1>2, <1>3, <2>1, <2>2, <2>3 DEF RecoveryInv
<1>4. ASSUME NEW k, RecoveryCallFollows(k) PROVE RecoveryCallFollows(k)'
  BY <1>2, <1>4, RecoveryCallGoesOn
<1>5. CASE Recovery!RecordEvidence
  <2>1. PICK completed \in 0 .. day, until \in 0 .. MaxRecoveryTime + DerivedDays :
            /\ until > day /\ until <= completed + ConfirmedDays
            /\ evidences' = evidences \cup {[source |-> "hostinger-technician-confirmed", completed |-> completed,
                                             until |-> until]}
    BY <1>5 DEF Recovery!RecordEvidence, Recovery!Acceptable, Recovery!SaveEvidence
  <2>2. PICK e : e = [source |-> "hostinger-technician-confirmed", completed |-> completed, until |-> until]
    OBVIOUS
  <2>3. e \in Recovery!Evidence
    <3>1. completed \in 0 .. MaxRecoveryTime /\ until \in 0 .. MaxRecoveryTime + DerivedDays + ConfirmedDays
      BY <1>1, <2>1, RecoveryFacts
    <3> QED
      BY <2>2, <3>1 DEF Recovery!Evidence
  <2>4. Vouched(e)
    BY <2>1, <2>2 DEF Vouched
  <2>5. asked' \in 0 .. MaxRecoveryErrands /\ doing' = doing
    BY <1>1, <1>5, RecoveryFacts DEF Recovery!RecordEvidence
  <2>6. \A d \in Actors : RecoveryCallFollows(doing[d])'
    <3>1. ASSUME NEW d \in Actors PROVE RecoveryCallFollows(doing[d])'
      <4>1. PICK j : j = doing[d] /\ j = doing'[d]
        BY <2>5
      <4>2. RecoveryCallFollows(j)
        BY <4>1 DEF RecoveryInv
      <4> QED
        BY <1>4, <4>1, <4>2
    <3> QED
      BY <3>1
  <2>7. OutcomesAlone'
    BY <1>2, <2>5 DEF RecoveryInv, OutcomesAlone
  <2>8. evidences' = evidences \cup {e}
    BY <2>1, <2>2
  <2> QED
    BY <1>1, <1>3, <2>3, <2>4, <2>5, <2>6, <2>7, <2>8
<1>6. CASE \E c \in Actors : Recovery!DeriveEvidence(c)
  <2>1. PICK c \in Actors : Recovery!DeriveEvidence(c)
    BY <1>6
  <2>2. doing[c].does = "discovery" /\ doing[c].step = "save" /\ doing[c] \in DiscoveryCall /\ asked' = asked
    BY <1>1, <2>1, RecoveryCallKinds DEF Recovery!DeriveEvidence
  <2>3. PICK r : r = doing[c] /\ r \in DiscoveryCall /\ RecoveryCallFollows(r) /\ r.does = "discovery" /\ r.step = "save"
    BY <2>2 DEF RecoveryInv
  <2>4. r.found \in Recovery!Evidence /\ Vouched(r.found)
    BY <2>3 DEF RecoveryCallFollows
  <2>5. PICK k : k = [r EXCEPT !.step = "found"] /\ doing' = [doing EXCEPT ![c] = k]
    BY <1>1, <2>1, <2>3 DEF Recovery!DeriveEvidence
  <2>6. k \in DiscoveryCall /\ k.does = "discovery" /\ k.found = r.found /\ k.step = "found"
    BY <2>3, <2>5 DEF DiscoveryCall
  <2>7. RecoveryCallFollows(k) /\ k \in RecoveryCall
    BY <2>4, <2>6 DEF RecoveryCallFollows, RecoveryCall
  <2>8. RecoveryCallFollows(k)'
    BY <1>4, <2>7
  <2>9. \A d \in Actors \ {c} : RecoveryCallFollows(doing[d]) => RecoveryCallFollows(doing[d])'
    <3>1. ASSUME NEW d \in Actors \ {c}, RecoveryCallFollows(doing[d]) PROVE RecoveryCallFollows(doing[d])'
      <4>1. PICK j : j = doing[d] /\ j = doing'[d]
        BY <1>1, <2>5
      <4>2. RecoveryCallFollows(j)
        BY <3>1, <4>1
      <4> QED
        BY <1>4, <4>1, <4>2
    <3> QED
      BY <3>1
  <2>10. crossed' = FALSE => crossed = FALSE /\ (k.does = "outcome" =>
             \A d \in Actors \ {c} : doing[d].does # "outcome")
    BY <1>2, <2>6
  <2>11. /\ doing' \in [Actors -> RecoveryCall]
         /\ \A d \in Actors : RecoveryCallFollows(doing[d])'
         /\ OutcomesAlone'
    BY <2>5, <2>7, <2>8, <2>9, <2>10, OneRecoveryCallMoves
  <2>12. evidences' = evidences \cup {r.found}
    BY <2>1, <2>3 DEF Recovery!DeriveEvidence, Recovery!SaveEvidence
  <2> QED
    BY <1>1, <1>3, <2>2, <2>4, <2>11, <2>12
<1> QED
  BY <1>5, <1>6

LEMMA RolloutKeepsRecovery ==
    ASSUME RecoveryInv, NEW c \in Actors, Recovery!CreateRollout(c) \/ Recovery!ApproveRollout(c)
    PROVE  RecoveryInv'
<1>1. /\ goal \in Recovery!Target \cup {none} /\ doing[c] \in RecoveryCall /\ RecoveryCallFollows(doing[c])
      /\ EvidenceVouched /\ Recovery!RestsOnRecentBackup
  BY DEF RecoveryInv, Recovery!RecoveriesTypeOK
<1>2. /\ UNCHANGED <<policy, pro, artifact, objects, worker, plan, evidences, day, asked, verified, crossed, unallowed>>
      /\ doing' = [doing EXCEPT ![c] = Recovery!Idle]
  BY DEF Recovery!CreateRollout, Recovery!ApproveRollout, Recovery!End, Recovery!settings, Recovery!backup,
     Recovery!outcome
<1>3. ASSUME goal' \in Recovery!Target \cup {none}, EvidenceVouched', Recovery!RestsOnRecentBackup',
             goal # none => goal' # none /\ goal'.evidence = goal.evidence
      PROVE  RecoveryInv'
  <2>1. /\ doing' \in [Actors -> RecoveryCall]
        /\ \A d \in Actors : RecoveryCallFollows(doing[d])'
        /\ OutcomesAlone'
    BY <1>2, <1>3, RecoveryCallEnds
  <2>2. Recovery!RecoveriesTypeOK' /\ BackupWhole' /\ Recovery!PassedPlanIsWhole'
    BY <1>2, <1>3 DEF RecoveryInv, Recovery!RecoveriesTypeOK, BackupWhole, Recovery!PassedPlanIsWhole
  <2> QED
    BY <1>2, <1>3, <2>1, <2>2 DEF RecoveryInv
<1>4. CASE Recovery!CreateRollout(c)
  <2>1. /\ doing[c].does = "discovery" /\ goal = none /\ approved' = approved
        /\ goal' = [evidence |-> doing[c].found, status |-> "draft"]
    BY <1>4 DEF Recovery!CreateRollout
  <2>2. doing[c].found \in Recovery!Evidence \cup {none} /\ (doing[c].found # none => Vouched(doing[c].found))
    BY <1>1, <2>1, RecoveryCallKinds DEF DiscoveryCall, RecoveryCallFollows
  <2>3. goal' \in Recovery!Target
    BY <2>1, <2>2 DEF Recovery!Target
  <2>4. EvidenceVouched'
    BY <1>1, <1>2, <2>1, <2>2 DEF EvidenceVouched, Vouched
  <2>5. Recovery!RestsOnRecentBackup'
    BY <1>1, <1>2, <2>1 DEF Recovery!RestsOnRecentBackup
  <2> QED
    BY <1>3, <2>1, <2>3, <2>4, <2>5
<1>5. CASE Recovery!ApproveRollout(c)
  <2>1. doing[c].does = "confirmation" /\ doing[c] \in ConfirmationCall
    BY <1>1, <1>5, RecoveryCallKinds DEF Recovery!ApproveRollout
  <2>2. goal # none /\ goal.evidence # none /\ Recent(goal.evidence, doing[c].age)
    BY <1>1, <2>1 DEF RecoveryCallFollows
  <2>3. goal \in Recovery!Target /\ goal.evidence \in Recovery!Evidence /\ Vouched(goal.evidence)
    BY <1>1, <2>2 DEF Recovery!Target, EvidenceVouched
  <2>4. CASE goal.status = "draft"
    <3>1. /\ goal' = [goal EXCEPT !.status = "approved"]
          /\ approved' = [evidence |-> goal.evidence, age |-> doing[c].age]
      BY <1>5, <2>4 DEF Recovery!ApproveRollout
    <3>2. goal' \in Recovery!Target /\ goal'.evidence = goal.evidence
      BY <2>3, <3>1 DEF Recovery!Target
    <3>3. goal' # none
      BY <3>2, RecoveryFacts
    <3>4. EvidenceVouched'
      BY <1>1, <1>2, <2>3, <3>2 DEF EvidenceVouched, Vouched
    <3>5. Recovery!RestsOnRecentBackup'
      <4>1. CASE goal.evidence.source = "sitecare-backup"
        <5>1. artifact.status = "completed" /\ artifact.completed = goal.evidence.completed /\ doing[c].age <= DerivedDays
          BY <2>2, <2>3, <4>1 DEF Vouched, Recent
        <5>2. artifact.included \cup {"readme"} \subseteq objects
          BY <5>1 DEF RecoveryInv, BackupWhole
        <5> QED
          BY <1>2, <3>1, <4>1, <5>1, <5>2 DEF Recovery!RestsOnRecentBackup
      <4>2. CASE goal.evidence.source # "sitecare-backup"
        <5>1. goal.evidence.source = "hostinger-technician-confirmed" /\ doing[c].age <= ConfirmedDays
          BY <2>2, <2>3, <4>2 DEF Recovery!Evidence, Recent
        <5> QED
          BY <3>1, <5>1 DEF Recovery!RestsOnRecentBackup
      <4> QED
        BY <4>1, <4>2
    <3> QED
      BY <1>3, <3>2, <3>3, <3>4, <3>5
  <2>5. CASE goal.status # "draft"
    <3>1. goal' = goal /\ approved' = approved
      BY <1>5, <2>5 DEF Recovery!ApproveRollout
    <3>2. EvidenceVouched' /\ Recovery!RestsOnRecentBackup'
      BY <1>1, <1>2, <3>1 DEF EvidenceVouched, Vouched, Recovery!RestsOnRecentBackup
    <3> QED
      BY <1>1, <1>3, <3>1, <3>2
  <2> QED
    BY <2>4, <2>5
<1> QED
  BY <1>4, <1>5

LEMMA SettingsKeepRecovery ==
    ASSUME RecoveryInv, Recovery!ChangePolicy \/ Recovery!ChangeServicePlan \/ Recovery!TimePasses
    PROVE  RecoveryInv'
<1>1. /\ policy \in BOOLEAN /\ pro \in BOOLEAN /\ day \in 0 .. MaxRecoveryTime /\ doing \in [Actors -> RecoveryCall]
  BY DEF RecoveryInv, Recovery!RecoveriesTypeOK
<1>2. UNCHANGED <<artifact, objects, worker, plan, evidences, goal, asked, verified, crossed, approved, unallowed>>
  BY DEF Recovery!ChangePolicy, Recovery!ChangeServicePlan, Recovery!TimePasses, Recovery!settings,
     Recovery!backup, Recovery!outcome, Recovery!rollout
<1>3. policy' \in BOOLEAN /\ pro' \in BOOLEAN /\ day' \in 0 .. MaxRecoveryTime
  <2>1. \/ day' = day
        \/ day < MaxRecoveryTime /\ day' = day + 1
    BY DEF Recovery!ChangePolicy, Recovery!ChangeServicePlan, Recovery!TimePasses
  <2>2. day' \in 0 .. MaxRecoveryTime
    BY <1>1, <2>1, RecoveryFacts
  <2>3. /\ policy' = (~policy) \/ policy' = policy
        /\ pro' = (~pro) \/ pro' = pro
    BY DEF Recovery!ChangePolicy, Recovery!ChangeServicePlan, Recovery!TimePasses, Recovery!settings
  <2>4. policy' \in BOOLEAN /\ pro' \in BOOLEAN
    BY <1>1, <2>3
  <2> QED
    BY <2>2, <2>4
<1>4. ASSUME doing' \in [Actors -> RecoveryCall], \A d \in Actors : RecoveryCallFollows(doing[d])',
             \A d \in Actors : doing'[d].does = doing[d].does
      PROVE  RecoveryInv'
  <2>1. Recovery!RecoveriesTypeOK' /\ BackupWhole' /\ OutcomesAlone' /\ EvidenceVouched'
    BY <1>2, <1>3, <1>4 DEF RecoveryInv, Recovery!RecoveriesTypeOK, BackupWhole, OutcomesAlone, EvidenceVouched, Vouched
  <2>2. Recovery!PassedPlanIsWhole' /\ Recovery!RestsOnRecentBackup'
    BY <1>2 DEF RecoveryInv, Recovery!PassedPlanIsWhole, Recovery!RestsOnRecentBackup
  <2> QED
    BY <1>2, <1>4, <2>1, <2>2 DEF RecoveryInv
<1>5. CASE Recovery!ChangePolicy
  <2>1. \A d \in Actors : doing'[d] = IF doing[d].does = "preflight"
                                      THEN [doing[d] EXCEPT !.allowed = @ \/ policy'] ELSE doing[d]
    BY <1>5 DEF Recovery!ChangePolicy
  <2>2. ASSUME NEW d \in Actors
        PROVE  doing'[d] \in RecoveryCall /\ doing'[d].does = doing[d].does /\ RecoveryCallFollows(doing[d])'
    <3>1. PICK j : j = doing[d] /\ j \in RecoveryCall /\ RecoveryCallFollows(j)
      BY <1>1 DEF RecoveryInv
    <3>2. CASE j.does = "preflight"
      <4>1. j \in PreflightCall
        BY <3>1, <3>2, RecoveryCallKinds
      <4>2. PICK b \in BOOLEAN : b = (j.allowed \/ policy')
        OBVIOUS
      <4>3. (policy' = TRUE => b = TRUE) /\ (j.allowed = TRUE => b = TRUE)
        BY <4>2
      <4>4. PICK k : k = doing'[d] /\ k = [j EXCEPT !.allowed = b]
        BY <2>1, <3>1, <3>2, <4>2
      <4>5. k \in PreflightCall /\ k.does = "preflight" /\ k.allowed = b /\ k.policy = j.policy
            /\ k.artifact = j.artifact /\ k.objects = j.objects
        BY <4>1, <4>4 DEF PreflightCall
      <4>6. RecoveryCallFollows(k)'
        BY <1>2, <3>1, <3>2, <4>3, <4>5 DEF RecoveryCallFollows
      <4> QED
        BY <3>1, <3>2, <4>4, <4>5, <4>6 DEF RecoveryCall
    <3>3. CASE j.does # "preflight"
      <4>1. j = doing'[d]
        BY <2>1, <3>1, <3>3
      <4>2. RecoveryCallFollows(j)'
        BY <1>2, <3>1, <3>3 DEF RecoveryCallFollows, Vouched
      <4> QED
        BY <3>1, <4>1, <4>2
    <3> QED
      BY <3>2, <3>3
  <2>3. doing' \in [Actors -> RecoveryCall]
    <3>1. doing' = [d \in Actors |-> doing'[d]]
      BY <1>5 DEF Recovery!ChangePolicy
    <3> QED
      BY <2>2, <3>1
  <2> QED
    BY <1>4, <2>2, <2>3
<1>6. CASE Recovery!ChangeServicePlan \/ Recovery!TimePasses
  <2>1. doing' = doing /\ policy' = policy
    BY <1>6 DEF Recovery!ChangeServicePlan, Recovery!TimePasses, Recovery!settings
  <2>2. ASSUME NEW d \in Actors PROVE RecoveryCallFollows(doing[d])'
    <3>1. PICK j : j = doing[d] /\ j = doing'[d] /\ RecoveryCallFollows(j)
      BY <2>1 DEF RecoveryInv
    <3>2. RecoveryCallFollows(j)'
      BY <1>2, <2>1, <3>1, RecoveryCallGoesOn
    <3> QED
      BY <3>1, <3>2
  <2> QED
    BY <1>1, <1>4, <2>1, <2>2
<1> QED
  BY <1>5, <1>6

LEMMA RecoveriesStart == Recovery!Init => RecoveryInv
<1>1. SUFFICES ASSUME Recovery!Init PROVE RecoveryInv
  OBVIOUS
<1>2. PICK included \in {{"database"}, {"files", "database"}} :
          artifact = [status |-> "running", included |-> included, recorded |-> FALSE, uploaded |-> FALSE,
                      completed |-> none]
  BY <1>1 DEF Recovery!Init
<1>3. /\ policy = TRUE /\ pro = TRUE /\ worker = [at |-> "packing", claimed |-> TRUE]
      /\ objects = {} /\ plan = none /\ evidences = {} /\ goal = none
      /\ doing = [c \in Actors |-> Recovery!Idle] /\ day = 0 /\ asked = 0
      /\ verified = FALSE /\ crossed = FALSE /\ approved = none /\ unallowed = FALSE
  BY <1>1 DEF Recovery!Init
<1>4. artifact \in Recovery!Artifact /\ artifact.status = "running"
  BY <1>2 DEF Recovery!Artifact
<1>5. Recovery!RecoveriesTypeOK
  BY <1>3, <1>4, RecoveryFacts DEF Recovery!RecoveriesTypeOK
<1>6. doing \in [Actors -> RecoveryCall] /\ \A c \in Actors : RecoveryCallFollows(doing[c])
  BY <1>3, IdleRecoveryCall
<1>7. OutcomesAlone
  BY <1>3, IdleRecoveryCall DEF OutcomesAlone
<1>8. BackupWhole /\ EvidenceVouched
  BY <1>3, <1>4 DEF BackupWhole, EvidenceVouched
<1>9. Recovery!PassedPlanIsWhole /\ Recovery!RestsOnRecentBackup
  BY <1>3 DEF Recovery!PassedPlanIsWhole, Recovery!RestsOnRecentBackup
<1> QED
  BY <1>3, <1>5, <1>6, <1>7, <1>8, <1>9 DEF RecoveryInv

LEMMA RecoveriesKept == (Init => RecoveriesInv) /\ (RecoveriesInv /\ [Next]_vars => RecoveriesInv')
<1>1. Init => RecoveriesInv
  BY RecoveriesStart DEF Init, RecoveriesInv
<1>2. ASSUME RecoveriesInv, [Next]_vars PROVE RecoveriesInv'
  <2>1. part' = part
    BY <1>2 DEF Next, vars
  <2>2. SUFFICES ASSUME part \in {"restores", "evidence"}, RecoveryInv PROVE RecoveryInv'
    BY <1>2, <2>1 DEF RecoveriesInv
  <2>3. CASE Recovery!Restore \/ Recovery!Rely
    <3>1. CASE Recovery!Backup
      BY <2>2, <3>1, BackupKeepsRecovery
    <3>2. CASE Recovery!ChangePolicy \/ Recovery!ChangeServicePlan \/ Recovery!TimePasses
      BY <2>2, <3>2, SettingsKeepRecovery
    <3>3. CASE Recovery!RecordEvidence \/ \E c \in Actors : Recovery!DeriveEvidence(c)
      BY <2>2, <3>3, EvidenceKeepsRecovery
    <3>4. CASE \E c \in Actors : Recovery!CreateRestorePlan(c) \/ Recovery!RecordOutcome(c)
      BY <2>2, <3>4, PlansKeepRecovery
    <3>5. CASE \E c \in Actors : Recovery!CreateRollout(c) \/ Recovery!ApproveRollout(c)
      BY <2>2, <3>5, RolloutKeepsRecovery
    <3>6. CASE \E c \in Actors :
                  \/ Recovery!BeginPreflight(c) \/ Recovery!Read(c) \/ Recovery!ReadPlan(c)
                  \/ Recovery!FindEvidence(c) \/ Recovery!FindPlan(c) \/ Recovery!FindBackup(c)
                  \/ Recovery!CheckEvidence(c) \/ Recovery!Abandon(c)
      BY <2>2, <3>6, ReadsKeepRecovery
    <3> QED
      BY <2>3, <3>1, <3>2, <3>3, <3>4, <3>5, <3>6 DEF Recovery!Restore, Recovery!Rely
  <2>4. CASE UNCHANGED recoveries
    <3>1. UNCHANGED <<policy, pro, artifact, objects, worker, plan, evidences, goal, doing, day, asked, verified,
                      crossed, approved, unallowed>>
      BY <2>4 DEF recoveries
    <3> QED
      BY <2>2, <3>1 DEF RecoveryInv, Recovery!RecoveriesTypeOK, RecoveryCallFollows, Vouched, BackupWhole,
         OutcomesAlone, EvidenceVouched, Recovery!PassedPlanIsWhole, Recovery!RestsOnRecentBackup
  <2> QED
    BY <1>2, <2>2, <2>3, <2>4 DEF Next, vars
<1> QED
  BY <1>1, <1>2

\* A restore plan passes for a whole backup only, a verified download stays on record
\* while no two records of the outcome overlap, and a rollout is confirmed on evidence
\* of a backup that was recent then, for any lifetimes and any number of requests
\* (prepareRestore, recordRestoreOutcome, recoveryEvidence, confirm).
THEOREM RecoveriesAreSound == Spec => []RecoveriesSound
<1>1. RecoveriesInv => RecoveriesSound
  <2>1. SUFFICES ASSUME RecoveriesInv, part \in {"restores", "evidence"} PROVE Recovery!RecoveriesSound
    BY DEF RecoveriesSound
  <2>2. RecoveryInv
    BY <2>1 DEF RecoveriesInv
  <2>3. Recovery!DownloadKept
    BY <2>2 DEF RecoveryInv, Recovery!DownloadKept
  <2> QED
    BY <2>2, <2>3 DEF RecoveryInv, Recovery!RecoveriesSound
<1> QED
  BY <1>1, RecoveriesKept, PTL DEF Spec

--------------------------------------------------------------------------------
(* Security controls.  Every call has a time of its own, so a row that is     *)
(* superseded never comes back; a synchronization leaves a row of every       *)
(* control, and a statement leaves one of its control.                        *)

\* A row that a technician stated.
Technical(e) == e.source = "technician"

\* What a call is about to write.
ControlCallFollows(k) ==
    /\ k.at # "idle" => k.time < now /\ \A e \in k.rows : e.at = k.time
    /\ k.at = "sync" =>
          /\ \A e \in k.rows : ~Technical(e)
          /\ \A control \in {"level", "platform"} : \E e \in k.rows : e.control = control
    /\ k.at \in {"supersede", "insert"} =>
          /\ \E row \in Security!Evidence : k.rows = {row} /\ Technical(row)
          /\ \A s \in statements : s.at # k.time
    /\ k.at = "insert" =>
          /\ \A e \in k.replaced : Technical(e) /\ \E row \in k.rows : e.control = row.control
          /\ \A row \in k.rows, e \in evidence :
                <<e, row>> \in precedes /\ e.control = row.control => e \in k.replaced

CallsHaveTheirTimes ==
    \A c, d \in Actors :
        call[c].at # "idle" /\ call[d].at # "idle" /\ call[c].time = call[d].time => c = d

\* Every control that was stated once is stated by a row, and none that was replaced.
StatementsAreRows ==
    /\ \A s \in statements : Technical(s) /\ s.at < now
    /\ \A s \in statements : \E e \in evidence : Technical(e) /\ e.control = s.control
    /\ \A e \in evidence : Technical(e) => e \in statements
    /\ \A pair \in precedes : pair[2].at < now
    /\ \A e \in evidence, f \in statements : e.control = f.control => <<e, f>> \notin precedes

\* Everything read is of a synchronization, and each has read every control.
ReadingsAreChecks ==
    /\ \A e \in evidence : ~Technical(e) => e.at \in syncs
    /\ \A t \in syncs, control \in {"level", "platform"} :
          \E e \in evidence : ~Technical(e) /\ e.control = control /\ e.at = t

ControlInv ==
    /\ Security!SecurityTypeOK
    /\ \A c \in Actors : ControlCallFollows(call[c])
    /\ CallsHaveTheirTimes
    /\ StatementsAreRows
    /\ ReadingsAreChecks

LEMMA ControlFacts ==
    /\ MaxEvidenceTime \in Nat /\ Security!Times \subseteq Nat
    /\ \A e : e \in Security!Evidence =>
                 /\ e.control \in {"level", "platform"} /\ e.source \in Security!Source
                 /\ e.at \in Security!Times /\ e.at \in Nat
    /\ \A k : k \in Security!Call =>
                 /\ k.time \in Nat /\ k.rows \subseteq Security!Evidence /\ k.replaced \subseteq Security!Evidence
BY OperationsAssumption DEF Security!SecurityAssumption, Security!Times, Security!Evidence, Security!Call

\* What the steps of calls leave of the types.
LEMMA ControlTypes ==
    ASSUME ControlInv
    PROVE  /\ evidence \subseteq Security!Evidence /\ syncs \subseteq Security!Times
           /\ now \in Nat /\ now \in 1 .. MaxEvidenceTime + 1
           /\ call \in [Actors -> Security!Call]
           /\ statements \subseteq Security!Evidence
           /\ precedes \subseteq statements \X Security!Evidence
BY ControlFacts DEF ControlInv, Security!SecurityTypeOK, Security!Call

\* A call that begins gets the next time.
LEMMA BeginKeepsControls ==
    ASSUME ControlInv, NEW c \in Actors, NEW k \in Security!Call, Security!Begin(c, k),
           k.at \in {"sync", "supersede"}, k.time = now, \A e \in k.rows : e.at = now,
           k.at = "sync" => /\ \A e \in k.rows : ~Technical(e)
                            /\ \A control \in {"level", "platform"} : \E e \in k.rows : e.control = control,
           k.at = "supersede" => \E row \in Security!Evidence : k.rows = {row} /\ Technical(row),
           precedes' \subseteq statements \X Security!Evidence,
           \A pair \in precedes' : pair \in precedes \/ pair[2].at = now,
           UNCHANGED <<evidence, syncs, statements>>
    PROVE  ControlInv'
<1>1. /\ now' = now + 1 /\ now <= MaxEvidenceTime /\ now' \in 1 .. MaxEvidenceTime + 1 /\ now < now'
      /\ call[c].at = "idle" /\ call' = [call EXCEPT ![c] = k] /\ call' \in [Actors -> Security!Call]
      /\ call'[c] = k /\ \A d \in Actors \ {c} : call'[d] = call[d]
  BY ControlTypes, ControlFacts DEF Security!Begin
<1>2. /\ \A s \in statements : s.at < now /\ s.at \in Nat
      /\ \A d \in Actors : call[d].at # "idle" => call[d].time < now /\ call[d].time \in Nat
      /\ \A pair \in precedes : pair[2].at < now /\ pair[2].at \in Nat
  BY ControlTypes, ControlFacts DEF ControlInv, ControlCallFollows, StatementsAreRows
<1>3. Security!SecurityTypeOK'
  BY <1>1 DEF ControlInv, Security!SecurityTypeOK, Security!Call
<1>4. ASSUME NEW d \in Actors PROVE ControlCallFollows(call[d])'
  <2>1. PICK j : j = call'[d]
    OBVIOUS
  <2>2. CASE d = c
    <3>1. j = k
      BY <1>1, <2>1, <2>2
    <3>2. \A s \in statements : s.at # now
      BY <1>2
    <3>3. k.at = "supersede" => \E row \in Security!Evidence : k.rows = {row} /\ Technical(row)
      OBVIOUS
    <3>4. now < now' /\ k.at # "insert"
      BY <1>1
    <3> QED
      BY <2>1, <3>1, <3>2, <3>3, <3>4 DEF ControlCallFollows
  <2>3. CASE d # c
    <3>1. j = call[d] /\ ControlCallFollows(j)
      BY <1>1, <2>1, <2>3 DEF ControlInv
    <3>2. /\ j.at # "idle" => j.time < now'
          /\ j.at # "idle" => \A row \in j.rows, e \in evidence : <<e, row>> \in precedes' => <<e, row>> \in precedes
      <4>1. j.at # "idle" => j.time < now /\ j.time \in Nat /\ \A row \in j.rows : row.at < now
        BY <1>2, <3>1 DEF ControlCallFollows
      <4> QED
        BY <1>1, <1>2, <4>1, ControlTypes
    <3> QED
      BY <2>1, <3>1, <3>2 DEF ControlCallFollows
  <2> QED
    BY <2>2, <2>3
<1>5. CallsHaveTheirTimes'
  <2> SUFFICES ASSUME NEW d \in Actors, NEW e \in Actors, call'[d].at # "idle", call'[e].at # "idle",
                      call'[d].time = call'[e].time
               PROVE  d = e
    BY DEF CallsHaveTheirTimes
  <2>1. CASE d # c /\ e # c
    BY <1>1, <2>1 DEF ControlInv, CallsHaveTheirTimes
  <2>2. CASE d = c \/ e = c
    BY <1>1, <1>2, <2>2
  <2> QED
    BY <2>1, <2>2
<1>6. StatementsAreRows'
  <2>1. \A pair \in precedes' : pair[2].at < now'
    BY <1>1, <1>2, ControlTypes
  <2>2. \A e \in evidence, f \in statements : <<e, f>> \in precedes' => <<e, f>> \in precedes
    BY <1>2
  <2>3. \A s \in statements : s.at < now'
    BY <1>1, <1>2, ControlTypes
  <2> QED
    BY <2>1, <2>2, <2>3 DEF ControlInv, StatementsAreRows
<1> QED
  BY <1>3, <1>4, <1>5, <1>6 DEF ControlInv, ReadingsAreChecks

\* A call that goes on, and what it leaves in the tables.
LEMMA StepKeepsControlCalls ==
    ASSUME ControlInv, NEW c \in Actors, NEW k \in Security!Call, call' = [call EXCEPT ![c] = k],
           now' = now, precedes' = precedes, k.time = call[c].time \/ k.at = "idle",
           call[c].at # "idle",
           \A e \in evidence' \ evidence, d \in Actors \ {c} : call[d].at = "insert" =>
               \A row \in call[d].rows : <<e, row>> \notin precedes,
           \A s \in statements' \ statements, d \in Actors \ {c} :
               call[d].at \in {"supersede", "insert"} => s.at # call[d].time,
           ControlCallFollows(k)'
    PROVE  (\A d \in Actors : ControlCallFollows(call[d])') /\ CallsHaveTheirTimes'
<1>1. call'[c] = k /\ \A d \in Actors \ {c} : call'[d] = call[d]
  BY ControlTypes
<1>2. ASSUME NEW d \in Actors PROVE ControlCallFollows(call[d])'
  <2>1. PICK j : j = call'[d]
    OBVIOUS
  <2>2. CASE d = c
    BY <1>1, <2>1, <2>2
  <2>3. CASE d # c
    <3>1. j = call[d] /\ ControlCallFollows(j)
      BY <1>1, <2>1, <2>3 DEF ControlInv
    <3>2. j.at = "insert" => \A row \in j.rows, e \in evidence' \ evidence : <<e, row>> \notin precedes
      BY <2>3, <3>1
    <3>3. j.at \in {"supersede", "insert"} => \A s \in statements' \ statements : s.at # j.time
      BY <2>3, <3>1
    <3> QED
      BY <2>1, <3>1, <3>2, <3>3 DEF ControlCallFollows
  <2> QED
    BY <2>2, <2>3
<1>3. CallsHaveTheirTimes'
  <2> SUFFICES ASSUME NEW d \in Actors, NEW e \in Actors, call'[d].at # "idle", call'[e].at # "idle",
                      call'[d].time = call'[e].time
               PROVE  d = e
    BY DEF CallsHaveTheirTimes
  <2> QED
    BY <1>1 DEF ControlInv, CallsHaveTheirTimes
<1> QED
  BY <1>2, <1>3

LEMMA SynchronizeKeepsControls ==
    ASSUME ControlInv, NEW c \in Actors, Security!SynchronizeSecurity(c)
    PROVE  ControlInv'
<1>1. PICK answer \in [{"level", "platform"} -> UNION {Security!Answers(d) : d \in {"level", "platform"}}] :
         /\ call[c].at = "idle" /\ now <= MaxEvidenceTime /\ now' = now + 1
         /\ call' = [call EXCEPT ![c] = [Security!IdleCall EXCEPT !.at = "sync", !.time = now,
                                                         !.rows = Security!SecurityEvidence(answer, now)]]
  BY DEF Security!SynchronizeSecurity, Security!Begin
<1>2. PICK rows : rows = Security!SecurityEvidence(answer, now)
  OBVIOUS
<1>3. now \in Security!Times
  BY <1>1, ControlTypes, ControlFacts DEF Security!Times
<1>4. rows = {[control |-> d, source |-> Security!SourceOf(d), status |-> Security!StatusOf(d, answer[d]), at |-> now] :
                 d \in {"level", "platform"}}
  BY <1>2 DEF Security!SecurityEvidence
<1>5. \A d \in {"level", "platform"} :
         Security!SourceOf(d) \in {"cloudflare-api", "informational"} /\ Security!StatusOf(d, answer[d]) \in Security!Status
  BY DEF Security!SourceOf, Security!StatusOf, Security!Status
<1>6. /\ rows \subseteq Security!Evidence
      /\ \A e \in rows : e.at = now /\ ~Technical(e)
      /\ \A control \in {"level", "platform"} : \E e \in rows : e.control = control
  <2>1. ASSUME NEW e \in rows
        PROVE  e \in Security!Evidence /\ e.at = now /\ ~Technical(e)
    <3>1. PICK d \in {"level", "platform"} :
             e = [control |-> d, source |-> Security!SourceOf(d), status |-> Security!StatusOf(d, answer[d]), at |-> now]
      BY <1>4, <2>1
    <3>2. e.source # "technician" /\ e.at = now
      BY <1>5, <3>1
    <3>3. Security!SourceOf(d) \in Security!Source
      BY <1>5, <3>1 DEF Security!Source
    <3> QED
      BY <1>3, <1>5, <3>1, <3>2, <3>3 DEF Security!Evidence, Technical
  <2>2. ASSUME NEW control \in {"level", "platform"} PROVE \E e \in rows : e.control = control
    <3>1. PICK e : e = [control |-> control, source |-> Security!SourceOf(control),
                        status |-> Security!StatusOf(control, answer[control]), at |-> now]
      OBVIOUS
    <3> QED
      BY <1>4, <3>1
  <2> QED
    BY <2>1, <2>2
<1>7. PICK k : k = [Security!IdleCall EXCEPT !.at = "sync", !.time = now, !.rows = Security!SecurityEvidence(answer, now)]
  OBVIOUS
<1>8. k \in Security!Call /\ k.at = "sync" /\ k.time = now /\ k.rows = rows
  BY <1>2, <1>3, <1>6, <1>7 DEF Security!Call, Security!IdleCall
<1>9. Security!Begin(c, k)
  BY <1>1, <1>7 DEF Security!Begin
<1>10. UNCHANGED <<evidence, syncs, statements, precedes>>
  BY DEF Security!SynchronizeSecurity
<1>11. precedes' \subseteq statements \X Security!Evidence /\ \A pair \in precedes' : pair \in precedes \/ pair[2].at = now
  BY <1>10, ControlTypes
<1> QED
  BY <1>6, <1>8, <1>9, <1>10, <1>11, BeginKeepsControls

LEMMA StateKeepsControls ==
    ASSUME ControlInv, NEW c \in Actors, Security!SetTechnicianStatus(c)
    PROVE  ControlInv'
<1>1. PICK control \in {"level", "platform"}, status \in Security!Stated :
         LET row == [control |-> control, source |-> "technician", status |-> status, at |-> now] IN
         /\ call[c].at = "idle" /\ now <= MaxEvidenceTime /\ now' = now + 1
         /\ call' = [call EXCEPT ![c] = [Security!IdleCall EXCEPT !.at = "supersede", !.time = now, !.rows = {row}]]
         /\ precedes' = precedes \cup {<<old, row>> : old \in statements}
  BY DEF Security!SetTechnicianStatus, Security!Begin
<1>2. PICK row : row = [control |-> control, source |-> "technician", status |-> status, at |-> now]
  OBVIOUS
<1>3. now \in Security!Times
  BY <1>1, ControlTypes, ControlFacts DEF Security!Times
<1>4. row \in Security!Evidence /\ Technical(row) /\ row.at = now
  BY <1>2, <1>3 DEF Security!Evidence, Security!Source, Security!Stated, Security!Status, Technical
<1>5. PICK k : k = [Security!IdleCall EXCEPT !.at = "supersede", !.time = now, !.rows = {row}]
  OBVIOUS
<1>6. k \in Security!Call /\ k.at = "supersede" /\ k.time = now /\ k.rows = {row}
  BY <1>3, <1>4, <1>5 DEF Security!Call, Security!IdleCall
<1>7. Security!Begin(c, k) /\ precedes' = precedes \cup {<<old, row>> : old \in statements}
  BY <1>1, <1>2, <1>5 DEF Security!Begin
<1>8. UNCHANGED <<evidence, syncs, statements>>
  BY DEF Security!SetTechnicianStatus
<1>9. precedes' \subseteq statements \X Security!Evidence /\ \A pair \in precedes' : pair \in precedes \/ pair[2].at = now
  BY <1>4, <1>7, ControlTypes
<1> QED
  BY <1>4, <1>6, <1>7, <1>8, <1>9, BeginKeepsControls

LEMMA IdleIsCall == Security!IdleCall \in Security!Call
BY OperationsAssumption DEF Security!SecurityAssumption, Security!Times, Security!IdleCall, Security!Call

LEMMA CreateSyncKeepsControls ==
    ASSUME ControlInv, NEW c \in Actors, Security!CreateSync(c)
    PROVE  ControlInv'
<1>1. PICK k : k = call[c]
  OBVIOUS
<1>2. /\ k \in Security!Call /\ k.at = "sync" /\ ControlCallFollows(k)
      /\ k.rows \subseteq Security!Evidence /\ k.time \in Security!Times
      /\ syncs' = syncs \cup {k.time} /\ evidence' = evidence \cup k.rows
      /\ call' = [call EXCEPT ![c] = Security!IdleCall]
      /\ UNCHANGED <<now, statements, precedes>>
  BY <1>1, ControlTypes DEF ControlInv, Security!CreateSync, Security!Call
<1>3. /\ \A e \in k.rows : ~Technical(e) /\ e.at = k.time
      /\ \A control \in {"level", "platform"} : \E e \in k.rows : e.control = control
  BY <1>2 DEF ControlCallFollows
<1>4. \A e \in k.rows : e \notin statements /\ \A f : <<e, f>> \notin precedes
  BY <1>3, ControlTypes DEF ControlInv, StatementsAreRows
<1>5. Security!IdleCall \in Security!Call /\ ControlCallFollows(Security!IdleCall)'
  BY <1>2, IdleIsCall DEF Security!IdleCall, ControlCallFollows
<1>6. (\A d \in Actors : ControlCallFollows(call[d])') /\ CallsHaveTheirTimes'
  BY <1>1, <1>2, <1>4, <1>5, StepKeepsControlCalls DEF Security!IdleCall
<1>7. Security!SecurityTypeOK'
  BY <1>2, <1>5, ControlTypes DEF ControlInv, Security!SecurityTypeOK, Security!Call
<1>8. StatementsAreRows'
  BY <1>2, <1>3, <1>4 DEF ControlInv, StatementsAreRows
<1>9. ReadingsAreChecks'
  BY <1>2, <1>3 DEF ControlInv, ReadingsAreChecks
<1> QED
  BY <1>6, <1>7, <1>8, <1>9 DEF ControlInv

LEMMA SupersedeKeepsControls ==
    ASSUME ControlInv, NEW c \in Actors, Security!SupersedeOthers(c)
    PROVE  ControlInv'
<1>1. PICK k : k = call[c]
  OBVIOUS
<1>2. PICK replaced : replaced = {e \in evidence : e.source = "technician" /\ \E row \in k.rows : e.control = row.control}
  OBVIOUS
<1>3. PICK j : j = [k EXCEPT !.at = "insert", !.replaced = replaced]
  OBVIOUS
<1>4. /\ k \in Security!Call /\ k.at = "supersede" /\ ControlCallFollows(k)
      /\ UNCHANGED <<evidence, syncs, now, statements, precedes>>
  BY <1>1, ControlTypes DEF ControlInv, Security!SupersedeOthers
<1>5. /\ j \in Security!Call /\ j.at = "insert" /\ j.time = k.time /\ j.rows = k.rows /\ j.replaced = replaced
  BY <1>2, <1>3, <1>4, ControlTypes DEF Security!Call
<1>6. call' = [call EXCEPT ![c] = j]
  BY <1>1, <1>2, <1>3, <1>4, ControlTypes DEF Security!SupersedeOthers, Security!Call
<1>7. ControlCallFollows(j)'
  <2>1. \A e \in evidence, row \in j.rows : <<e, row>> \in precedes /\ e.control = row.control => e \in replaced
    BY <1>2, <1>5, ControlTypes DEF ControlInv, StatementsAreRows, Technical
  <2>2. \A e \in replaced : Technical(e) /\ \E row \in j.rows : e.control = row.control
    BY <1>2, <1>5 DEF Technical
  <2> QED
    BY <1>4, <1>5, <2>1, <2>2 DEF ControlCallFollows
<1>8. (\A d \in Actors : ControlCallFollows(call[d])') /\ CallsHaveTheirTimes'
  BY <1>1, <1>4, <1>5, <1>6, <1>7, StepKeepsControlCalls
<1>9. Security!SecurityTypeOK'
  BY <1>4, <1>5, <1>6, ControlTypes DEF ControlInv, Security!SecurityTypeOK, Security!Call
<1> QED
  BY <1>4, <1>8, <1>9 DEF ControlInv, StatementsAreRows, ReadingsAreChecks

\* The row replaces what it supersedes for good: every row before it had another time.
LEMMA InsertKeepsControls ==
    ASSUME ControlInv, NEW c \in Actors, Security!InsertStatement(c)
    PROVE  ControlInv'
<1>1. PICK k : k = call[c]
  OBVIOUS
<1>2. /\ k \in Security!Call /\ k.at = "insert" /\ ControlCallFollows(k)
      /\ evidence' = (evidence \ k.replaced) \cup k.rows /\ statements' = statements \cup k.rows
      /\ call' = [call EXCEPT ![c] = Security!IdleCall]
      /\ UNCHANGED <<syncs, now, precedes>>
  BY <1>1, ControlTypes DEF ControlInv, Security!InsertStatement
<1>3. PICK row \in Security!Evidence : k.rows = {row} /\ Technical(row)
  BY <1>2 DEF ControlCallFollows
<1>4. /\ row.at = k.time /\ k.time < now /\ row \notin statements
      /\ \A e \in k.replaced : Technical(e) /\ e.control = row.control
      /\ \A e \in evidence : <<e, row>> \in precedes /\ e.control = row.control => e \in k.replaced
  BY <1>2, <1>3 DEF ControlCallFollows
<1>5. \A f : <<row, f>> \notin precedes
  BY <1>4, ControlTypes
<1>6. Security!IdleCall \in Security!Call /\ ControlCallFollows(Security!IdleCall)'
  BY <1>2, IdleIsCall DEF Security!IdleCall, ControlCallFollows
<1>7. (\A d \in Actors : ControlCallFollows(call[d])') /\ CallsHaveTheirTimes'
  <2>1. \A e \in evidence' \ evidence, d \in Actors \ {c} : call[d].at = "insert" =>
            \A r \in call[d].rows : <<e, r>> \notin precedes
    BY <1>2, <1>3, <1>5
  <2>2. \A s \in statements' \ statements, d \in Actors \ {c} :
            call[d].at \in {"supersede", "insert"} => s.at # call[d].time
    BY <1>1, <1>2, <1>3, <1>4 DEF ControlInv, CallsHaveTheirTimes
  <2> QED
    BY <1>1, <1>2, <1>6, <2>1, <2>2, StepKeepsControlCalls DEF Security!IdleCall
<1>8. Security!SecurityTypeOK'
  BY <1>2, <1>3, <1>6, ControlTypes DEF ControlInv, Security!SecurityTypeOK, Security!Call
<1>9. StatementsAreRows'
  <2>1. \A s \in statements' : Technical(s) /\ s.at < now
    BY <1>2, <1>3, <1>4 DEF ControlInv, StatementsAreRows
  <2>2. ASSUME NEW s \in statements' PROVE \E e \in evidence' : Technical(e) /\ e.control = s.control
    <3>1. CASE s.control = row.control
      BY <1>2, <1>3, <3>1
    <3>2. CASE s.control # row.control
      <4>1. PICK e \in evidence : Technical(e) /\ e.control = s.control
        BY <1>2, <1>3, <3>2 DEF ControlInv, StatementsAreRows
      <4> QED
        BY <1>2, <1>4, <3>2, <4>1
    <3> QED
      BY <3>1, <3>2
  <2>3. \A e \in evidence' : Technical(e) => e \in statements'
    BY <1>2 DEF ControlInv, StatementsAreRows
  <2>4. \A e \in evidence', f \in statements' : e.control = f.control => <<e, f>> \notin precedes
    BY <1>2, <1>3, <1>4, <1>5 DEF ControlInv, StatementsAreRows
  <2> QED
    BY <1>2, <2>1, <2>2, <2>3, <2>4 DEF ControlInv, StatementsAreRows
<1>10. ReadingsAreChecks'
  BY <1>2, <1>3, <1>4 DEF ControlInv, ReadingsAreChecks
<1> QED
  BY <1>7, <1>8, <1>9, <1>10 DEF ControlInv

LEMMA EndKeepsControls ==
    ASSUME ControlInv, NEW c \in Actors, Security!End(c)
    PROVE  ControlInv'
<1>1. /\ call' = [call EXCEPT ![c] = Security!IdleCall] /\ call[c].at # "idle"
      /\ UNCHANGED <<evidence, syncs, now, statements, precedes>>
  BY DEF Security!End
<1>2. Security!IdleCall \in Security!Call /\ ControlCallFollows(Security!IdleCall)'
  BY IdleIsCall DEF Security!IdleCall, ControlCallFollows
<1>3. (\A d \in Actors : ControlCallFollows(call[d])') /\ CallsHaveTheirTimes'
  BY <1>1, <1>2, StepKeepsControlCalls DEF Security!IdleCall
<1>4. Security!SecurityTypeOK'
  BY <1>1, <1>2, ControlTypes DEF ControlInv, Security!SecurityTypeOK, Security!Call
<1> QED
  BY <1>1, <1>3, <1>4 DEF ControlInv, StatementsAreRows, ReadingsAreChecks

\* A set of natural numbers has a least one (of WFMin, which takes no operator).
LEMMA LeastNatural ==
    ASSUME NEW S \in SUBSET Nat, S # {}
    PROVE  \E n \in S : \A m \in S : n <= m
<1>1. PICK R : R = {ss \in Nat \X Nat : ss[1] < ss[2]}
  OBVIOUS
<1>2. IsWellFoundedOn(R, Nat)
  BY <1>1, NatLessThanWellFounded DEF OpToRel
<1>3. PICK n \in S : \A m \in S : ~ (<<m, n>> \in R)
  BY <1>2, WFMin
<1>4. ASSUME NEW m \in S PROVE n <= m
  <2>1. m \in Nat /\ n \in Nat /\ ~ (<<m, n>> \in R)
    BY <1>3
  <2>2. <<m, n>> \in Nat \X Nat /\ <<m, n>>[1] = m /\ <<m, n>>[2] = n
    BY <2>1
  <2>3. ~ (m < n)
    BY <1>1, <2>1, <2>2
  <2> QED
    BY <2>1, <2>3
<1> QED
  BY <1>4

\* What a site shows of a control is what the portfolio shows: the latest row of a
\* technician, or the latest of all where there is none.
LEMMA ShownIsLatest ==
    ASSUME ControlInv, NEW control \in {"level", "platform"}
    PROVE  LET all == {e \in evidence : e.control = control}
               stated == {e \in all : Technical(e)}
               shown == IF stated # {} THEN Security!Latest(stated) ELSE Security!Latest(all)
           IN  Security!EffectiveControl(control) = shown /\ Security!PortfolioStatus(control) = shown
<1> DEFINE all == {e \in evidence : e.control = control}
           stated == {e \in all : Technical(e)}
           Of(s) == {e \in evidence : e.control = control /\ e.source = s}
           effective == Security!EffectiveEvidence(control)
<1>1. /\ \A e \in all : e.at \in Nat /\ e.source \in Security!Source
      /\ all \subseteq evidence
  BY ControlTypes, ControlFacts
<1>2. ASSUME NEW rows \in SUBSET all, rows # {}
      PROVE  \E e \in rows : \A f \in rows : f.at <= e.at
  <2>1. MaxEvidenceTime \in Nat /\ \A e \in rows : e.at \in 1 .. MaxEvidenceTime
    BY ControlTypes, ControlFacts DEF Security!Times
  <2>2. PICK times : times = {MaxEvidenceTime - e.at : e \in rows}
    OBVIOUS
  <2>3. times \in SUBSET Nat /\ times # {}
    <3>1. \A e \in rows : MaxEvidenceTime - e.at \in Nat
      BY <2>1
    <3> QED
      BY <1>2, <2>2, <3>1
  <2>4. PICK n \in times : \A m \in times : n <= m
    BY <2>3, LeastNatural
  <2>5. PICK e \in rows : n = MaxEvidenceTime - e.at
    BY <2>2, <2>4
  <2>6. \A f \in rows : MaxEvidenceTime - e.at <= MaxEvidenceTime - f.at
    BY <2>2, <2>4, <2>5
  <2>7. \A f \in rows : f.at <= e.at
    BY <2>1, <2>5, <2>6
  <2> QED
    BY <2>7
<1>3. effective = {e \in all : \A f \in all : f.source = e.source => f.at <= e.at}
  <2>1. effective = UNION {Security!Latest(Of(s)) : s \in Security!Source}
    BY DEF Security!EffectiveEvidence
  <2>2. ASSUME NEW e PROVE e \in effective <=> e \in all /\ \A f \in all : f.source = e.source => f.at <= e.at
    <3>1. e \in effective <=> \E s \in Security!Source : e \in Security!Latest(Of(s))
      BY <2>1
    <3>2. \A s : e \in Security!Latest(Of(s)) <=> e \in all /\ e.source = s /\ \A f \in all : f.source = s => f.at <= e.at
      BY DEF Security!Latest
    <3> QED
      BY <1>1, <3>1, <3>2
  <2> QED
    BY <2>2
<1>4. Security!EffectiveControl(control) =
         IF {e \in effective : Technical(e)} # {} THEN {e \in effective : Technical(e)} ELSE Security!Latest(effective)
  BY DEF Security!EffectiveControl, Technical
<1>5. {e \in effective : Technical(e)} = Security!Latest(stated)
  BY <1>3 DEF Technical, Security!Latest
<1>6. stated # {} => Security!Latest(stated) # {}
  BY <1>2 DEF Security!Latest
<1>7. stated = {} => Security!Latest(stated) = {}
  BY DEF Security!Latest
<1>8. Security!Latest(effective) = Security!Latest(all)
  <2>1. ASSUME NEW e \in Security!Latest(all) PROVE e \in Security!Latest(effective)
    BY <1>3, <2>1 DEF Security!Latest
  <2>2. ASSUME NEW e \in Security!Latest(effective) PROVE e \in Security!Latest(all)
    <3>1. e \in all
      BY <1>3, <2>2 DEF Security!Latest
    <3>2. PICK f \in all : \A g \in all : g.at <= f.at
      BY <1>2, <3>1
    <3>3. f \in effective
      BY <1>3, <3>2
    <3>4. f.at <= e.at
      BY <2>2, <3>3 DEF Security!Latest
    <3> QED
      BY <1>1, <3>1, <3>2, <3>4 DEF Security!Latest
  <2> QED
    BY <2>1, <2>2
<1>9. Security!PortfolioStatus(control) =
         {e \in all : \A f \in all : \/ Technical(e) /\ ~Technical(f)
                                     \/ (Technical(e) <=> Technical(f)) /\ e.at >= f.at}
  BY DEF Security!PortfolioStatus, Technical
<1>10. CASE stated = {}
  <2>1. \A e \in all : ~Technical(e)
    BY <1>10
  <2>2. Security!PortfolioStatus(control) = Security!Latest(all)
    BY <1>1, <1>9, <2>1 DEF Security!Latest
  <2> QED
    BY <1>4, <1>5, <1>7, <1>8, <1>10, <2>2
<1>11. CASE stated # {}
  <2>1. PICK t \in all : Technical(t)
    BY <1>11
  <2>2. Security!PortfolioStatus(control) = Security!Latest(stated)
    BY <1>1, <1>9, <2>1 DEF Security!Latest
  <2> QED
    BY <1>4, <1>5, <1>6, <1>11, <2>2
<1> QED
  BY <1>10, <1>11

LEMMA ControlsFollow == ControlInv => Security!ControlsSound
<1> SUFFICES ASSUME ControlInv PROVE Security!ControlsSound
  OBVIOUS
<1>1. Security!ViewsAgree
  BY ShownIsLatest DEF Security!ViewsAgree
<1>2. Security!StatementsHold
  <2> SUFFICES ASSUME NEW control \in {"level", "platform"}, NEW s \in statements, s.control = control,
                      NEW e \in Security!EffectiveControl(control)
               PROVE  /\ e \in statements /\ e.control = control
                      /\ \A f \in statements : f.control = control => <<e, f>> \notin precedes
    BY DEF Security!StatementsHold
  <2>1. PICK t \in evidence : Technical(t) /\ t.control = control
    BY DEF ControlInv, StatementsAreRows
  <2>2. e \in evidence /\ e.control = control /\ Technical(e)
    BY <2>1, ShownIsLatest DEF Security!Latest
  <2> QED
    BY <2>2 DEF ControlInv, StatementsAreRows
<1>3. Security!ShownAsOfCheck
  <2> SUFFICES ASSUME NEW control \in {"level", "platform"}, NEW t \in syncs, \A u \in syncs : u <= t,
                      NEW e \in Security!EffectiveControl(control), ~Technical(e)
               PROVE  e.at = t
    BY DEF Security!ShownAsOfCheck, Security!CheckedAt, Technical
  <2>1. /\ e \in evidence /\ e.control = control
        /\ \A f \in evidence : f.control = control => f.at <= e.at
    BY ShownIsLatest DEF Security!Latest
  <2>2. PICK f \in evidence : f.control = control /\ f.at = t
    BY DEF ControlInv, ReadingsAreChecks
  <2>3. e.at \in syncs
    BY <2>1 DEF ControlInv, ReadingsAreChecks
  <2>4. e.at \in Nat /\ t \in Nat
    BY <2>1, <2>2, ControlTypes, ControlFacts
  <2> QED
    BY <2>1, <2>2, <2>3, <2>4
<1> QED
  BY <1>1, <1>2, <1>3 DEF ControlInv, Security!ControlsSound

ControlsInv == part = "security" => ControlInv

LEMMA ControlsStart == Security!Init => ControlInv
<1> SUFFICES ASSUME Security!Init PROVE ControlInv
  OBVIOUS
<1>1. \A c \in Actors : call[c] = Security!IdleCall /\ call[c].at = "idle"
  BY DEF Security!Init, Security!IdleCall
<1>2. Security!SecurityTypeOK
  BY IdleIsCall, ControlFacts DEF Security!Init, Security!SecurityTypeOK, Security!Call
<1>3. \A c \in Actors : ControlCallFollows(call[c])
  BY <1>1 DEF ControlCallFollows
<1>4. CallsHaveTheirTimes
  BY <1>1 DEF CallsHaveTheirTimes
<1> QED
  BY <1>2, <1>3, <1>4 DEF Security!Init, ControlInv, StatementsAreRows, ReadingsAreChecks

LEMMA ControlsKept == (Init => ControlsInv) /\ (ControlsInv /\ [Next]_vars => ControlsInv')
<1>1. Init => ControlsInv
  BY ControlsStart DEF Init, ControlsInv
<1>2. ASSUME ControlsInv, [Next]_vars PROVE ControlsInv'
  <2>1. part' = part
    BY <1>2 DEF Next, vars
  <2>2. SUFFICES ASSUME part = "security", ControlInv PROVE ControlInv'
    BY <1>2, <2>1 DEF ControlsInv
  <2>3. CASE Security!Next
    BY <2>2, <2>3, SynchronizeKeepsControls, CreateSyncKeepsControls, StateKeepsControls, SupersedeKeepsControls,
       InsertKeepsControls, EndKeepsControls DEF Security!Next
  <2>4. CASE UNCHANGED security
    <3>1. UNCHANGED <<evidence, syncs, call, now, statements, precedes>>
      BY <2>4 DEF security
    <3> QED
      BY <2>2, <3>1 DEF ControlInv, Security!SecurityTypeOK, ControlCallFollows, CallsHaveTheirTimes,
         StatementsAreRows, ReadingsAreChecks
  <2> QED
    BY <1>2, <2>2, <2>3, <2>4 DEF Next, vars
<1> QED
  BY <1>1, <1>2

\* The site and the portfolio always show the same of a security control, a statement of
\* a technician gives way only to a later one, and what was read is shown with the time
\* it was read at, for any number of calls under way and any length
\* (saveSync, supersedeTechnicianEvidence, listEffectiveSecurityEvidence, listPortfolioStatus).
THEOREM ControlsAreSound == Spec => []ControlsSound
<1>1. ControlsInv => ControlsSound
  BY ControlsFollow DEF ControlsInv, ControlsSound
<1> QED
  BY <1>1, ControlsKept, PTL DEF Spec

--------------------------------------------------------------------------------
(* The health check of a site.  While calls do not overlap, one errand at     *)
(* most is under way; it or the row names the check and remembers its         *)
(* interval, except between the request to Cloudflare and the statement.      *)

\* Nothing but the check of this id probes the site.
OnlyCheck(id) == \A k \in Zone!Existing : k = id

\* No check has another interval, or it is taken for one of a site that is down, or
\* the answer to the last change of it was lost.
Paced(interval) == unheard \/ \A k \in Zone!Existing : checks[k].interval = interval \/ interval = 1

\* What an errand knows of the check while it is the only one.
ErrandKnows(e) ==
    /\ \/ e.at \in {"site", "check", "pace", "adjust", "status"}
       \/ e.goal = "reconcile" /\ e.at \in {"observe", "note"}
       => OnlyCheck(e.row.check)
    /\ e.at = "save" => OnlyCheck(e.check)
    /\ e.at \in {"save", "pace", "note"} => Paced(e.interval)

ErrandsAlone == \A c, d \in Actors : ~Zone!Idle(c) /\ ~Zone!Idle(d) => c = d

OneExists ==
    /\ \A j, k \in Zone!Existing : j = k
    /\ \A c \in Actors : errand[c].at = "create" => Zone!Existing = {}

RowKnows ==
    /\ (\A c \in Actors : errand[c].at # "save") => OnlyCheck(connection.check)
    /\ (\A c \in Actors : errand[c].at \notin {"save", "pace", "note"}) => Paced(pace)

CheckInv ==
    /\ Zone!ZoneTypeOK
    /\ ~overlapped => ErrandsAlone /\ OneExists
    /\ ~overlapped /\ ~cut => RowKnows /\ \A c \in Actors : ErrandKnows(errand[c])

LEMMA ZoneFacts ==
    /\ MaxChecks \in Nat /\ MaxZoneErrands \in Nat /\ MaxZoneChanges \in Nat
    /\ Zone!IdleErrand \in Zone!Errand /\ Zone!IdleErrand.at = "idle"
    /\ \A e : e \in Zone!Errand =>
          /\ e.at \in Zone!Step /\ e.goal \in {"provision", "security", "reconcile", "webhook"}
          /\ e.row \in Zone!Connection /\ e.check \in Zone!Ids \cup {0}
          /\ e.promised \in {2, 3} \cup {1} /\ e.interval \in {2, 3} \cup {1}
    /\ \A r : r \in Zone!Connection =>
          /\ r.availability \in {"not-synchronized", "available", "not-found", "provider-error"}
          /\ r.zone \in BOOLEAN /\ r.check \in Zone!Ids \cup {0} /\ r.normal \in {2, 3} \cup {1}
BY OperationsAssumption
   DEF Zone!ZoneAssumption, Zone!IdleErrand, Zone!Errand, Zone!Step, Zone!NewConnection, Zone!Connection, Zone!None

LEMMA ZoneTypes ==
    ASSUME CheckInv
    PROVE  /\ checks \in [Zone!Ids -> Zone!Check] /\ connection \in Zone!Connection
           /\ entitled \in BOOLEAN /\ promised \in {2, 3} /\ pace \in {2, 3} \cup {1}
           /\ errand \in [Actors -> Zone!Errand]
           /\ errands \in 0 .. MaxZoneErrands /\ changes \in 0 .. MaxZoneChanges
           /\ overlapped \in BOOLEAN /\ cut \in BOOLEAN /\ unheard \in BOOLEAN
           /\ Zone!Existing \subseteq Zone!Ids
BY DEF CheckInv, Zone!ZoneTypeOK, Zone!Existing

\* A step of an errand that is under way.
LEMMA StepKeepsChecks ==
    ASSUME CheckInv, NEW c \in Actors, NEW e \in Zone!Errand, ~Zone!Idle(c), errand' = [errand EXCEPT ![c] = e],
           checks' \in [Zone!Ids -> Zone!Check], connection' \in Zone!Connection, pace' \in {2, 3} \cup {1},
           cut' \in BOOLEAN /\ unheard' \in BOOLEAN, cut => cut', UNCHANGED <<entitled, promised, errands, changes, overlapped>>,
           ~overlapped => /\ \A j, k \in Zone!Existing' : j = k
                          /\ e.at = "create" => Zone!Existing' = {},
           ~overlapped /\ ~cut' =>
               /\ e.at # "save" => OnlyCheck(connection.check)'
               /\ e.at \notin {"save", "pace", "note"} => Paced(pace)'
               /\ ErrandKnows(e)'
    PROVE  CheckInv'
<1>1. errand'[c] = e /\ \A d \in Actors \ {c} : errand'[d] = errand[d]
  BY ZoneTypes
<1>2. Zone!ZoneTypeOK'
  BY ZoneTypes DEF Zone!ZoneTypeOK
<1>3. ~overlapped => \A d \in Actors \ {c} : errand[d].at = "idle" /\ errand'[d].at = "idle"
  BY <1>1 DEF CheckInv, ErrandsAlone, Zone!Idle
<1>4. ~overlapped' => ErrandsAlone' /\ OneExists'
  BY <1>1, <1>3 DEF ErrandsAlone, OneExists, Zone!Idle
<1>5. ASSUME ~overlapped', ~cut' PROVE RowKnows' /\ \A d \in Actors : ErrandKnows(errand[d])'
  <2>1. RowKnows'
    BY <1>1, <1>3, <1>5 DEF RowKnows
  <2>2. ASSUME NEW d \in Actors PROVE ErrandKnows(errand[d])'
    <3>1. PICK j : j = errand'[d]
      OBVIOUS
    <3>2. CASE d = c
      BY <1>1, <1>5, <3>1, <3>2
    <3>3. CASE d # c
      BY <1>3, <1>5, <3>1, <3>3 DEF ErrandKnows
    <3> QED
      BY <3>2, <3>3
  <2> QED
    BY <2>1, <2>2
<1> QED
  BY <1>2, <1>4, <1>5 DEF CheckInv

\* An errand that begins.
LEMMA BeginKeepsChecks ==
    ASSUME CheckInv, NEW c \in Actors, NEW step \in {"disable", "sync", "adjust", "observe"},
           NEW purpose \in {"provision", "security", "reconcile", "webhook"},
           Zone!Begin(c, step, purpose), step = "observe" => purpose = "webhook",
           UNCHANGED <<checks, connection, pace, entitled, promised, changes, cut, unheard>>
    PROVE  CheckInv'
<1>1. PICK e : e = [errand[c] EXCEPT !.at = step, !.goal = purpose, !.row = connection, !.check = 0, !.promised = promised]
  OBVIOUS
<1>2. e \in Zone!Errand /\ e.at = step /\ e.goal = purpose /\ e.row = connection
  <2>1. errand[c] \in Zone!Errand /\ connection \in Zone!Connection /\ promised \in {2, 3}
    BY ZoneTypes
  <2> QED
    BY <1>1, <2>1 DEF Zone!Errand, Zone!Step, Zone!None
<1>3. /\ Zone!Idle(c) /\ errands' \in 0 .. MaxZoneErrands
      /\ overlapped' = (overlapped \/ \E d \in Actors \ {c} : ~Zone!Idle(d))
      /\ errand' = [errand EXCEPT ![c] = e]
  <2>1. Zone!Idle(c) /\ errands' \in 0 .. MaxZoneErrands
    BY ZoneTypes, ZoneFacts DEF Zone!Begin
  <2>2. overlapped' = (overlapped \/ \E d \in Actors \ {c} : ~Zone!Idle(d))
    BY DEF Zone!Begin
  <2>3. errand' = [errand EXCEPT ![c] = e]
    BY <1>1, ZoneTypes DEF Zone!Begin, Zone!None
  <2> QED
    BY <2>1, <2>2, <2>3
<1>4. errand'[c] = e /\ \A d \in Actors \ {c} : errand'[d] = errand[d]
  BY <1>3, ZoneTypes
<1>5. Zone!ZoneTypeOK'
  BY <1>2, <1>3, ZoneTypes DEF Zone!ZoneTypeOK
<1>6. ~overlapped' => ~overlapped /\ \A d \in Actors : errand[d].at = "idle" /\ (d # c => errand'[d].at = "idle")
  BY <1>3, <1>4 DEF Zone!Idle
<1>7. Zone!Existing' = Zone!Existing
  BY DEF Zone!Existing
<1>8. ~overlapped' => ErrandsAlone' /\ OneExists'
  BY <1>2, <1>4, <1>6, <1>7 DEF CheckInv, ErrandsAlone, OneExists, Zone!Idle
<1>9. ASSUME ~overlapped', ~cut' PROVE RowKnows' /\ \A d \in Actors : ErrandKnows(errand[d])'
  <2>1. OnlyCheck(connection.check) /\ Paced(pace)
    BY <1>6, <1>9 DEF CheckInv, RowKnows
  <2>2. OnlyCheck(connection.check)' /\ Paced(pace)'
    BY <1>7, <2>1 DEF OnlyCheck, Paced
  <2>3. ASSUME NEW d \in Actors PROVE ErrandKnows(errand[d])'
    <3>1. PICK j : j = errand'[d]
      OBVIOUS
    <3>2. CASE d = c
      <4>1. j.row = connection' /\ j.at = step /\ j.goal = purpose
        BY <1>2, <1>4, <3>1, <3>2
      <4> QED
        BY <2>2, <3>1, <4>1 DEF ErrandKnows
    <3>3. CASE d # c
      BY <1>6, <1>9, <3>1, <3>3 DEF ErrandKnows
    <3> QED
      BY <3>2, <3>3
  <2> QED
    BY <2>2, <2>3 DEF RowKnows
<1> QED
  BY <1>5, <1>8, <1>9 DEF CheckInv

\* What an errand that is alone knows, spelled out.
LEMMA AloneKnows ==
    ASSUME CheckInv, NEW c \in Actors, ~Zone!Idle(c), ~overlapped
    PROVE  /\ \A j, k \in Zone!Existing : j = k
           /\ errand[c].at = "create" => Zone!Existing = {}
           /\ ~cut => /\ errand[c].at # "save" => OnlyCheck(connection.check)
                      /\ errand[c].at \notin {"save", "pace", "note"} => Paced(pace)
                      /\ ErrandKnows(errand[c])
<1>1. \A d \in Actors \ {c} : errand[d].at = "idle"
  BY DEF CheckInv, ErrandsAlone, Zone!Idle
<1> QED
  BY <1>1 DEF CheckInv, OneExists, RowKnows

LEMMA BeginningsKeepChecks ==
    ASSUME CheckInv, NEW c \in Actors,
           \/ Zone!ProvisionUptime(c) \/ Zone!SynchronizeSecurity(c)
           \/ Zone!ReconcileUptime(c) \/ Zone!ProcessWebhook(c)
    PROVE  CheckInv'
<1>1. UNCHANGED <<checks, connection, pace, entitled, promised, changes, cut, unheard>>
  BY DEF Zone!ProvisionUptime, Zone!SynchronizeSecurity, Zone!ReconcileUptime, Zone!ProcessWebhook, Zone!rows, Zone!plan
<1>2. CASE Zone!ProvisionUptime(c)
  <2>1. PICK step \in {"sync", "disable"} : step = IF entitled THEN "sync" ELSE "disable"
    OBVIOUS
  <2>2. Zone!Begin(c, step, "provision")
    BY <1>2, <2>1 DEF Zone!ProvisionUptime, Zone!Begin
  <2> QED
    BY <1>1, <2>2, BeginKeepsChecks
<1>3. CASE Zone!SynchronizeSecurity(c)
  <2>1. Zone!Begin(c, "sync", "security")
    BY <1>3 DEF Zone!SynchronizeSecurity
  <2> QED
    BY <1>1, <2>1, BeginKeepsChecks
<1>4. CASE Zone!ReconcileUptime(c)
  <2>1. PICK step \in {"disable", "adjust", "sync"} :
           step = IF ~entitled THEN "disable" ELSE IF connection.check # 0 /\ connection.zone THEN "adjust" ELSE "sync"
    OBVIOUS
  <2>2. Zone!Begin(c, step, "reconcile")
    BY <1>4, <2>1 DEF Zone!ReconcileUptime, Zone!Begin, Zone!None
  <2> QED
    BY <1>1, <2>2, BeginKeepsChecks
<1>5. CASE Zone!ProcessWebhook(c)
  <2>1. Zone!Begin(c, "observe", "webhook")
    BY <1>5 DEF Zone!ProcessWebhook
  <2> QED
    BY <1>1, <2>1, BeginKeepsChecks
<1> QED
  BY <1>2, <1>3, <1>4, <1>5

\* An errand that only reads: it must know of the check what it is about to use.
LEMMA ReadKeepsChecks ==
    ASSUME CheckInv, NEW c \in Actors, NEW e \in Zone!Errand, ~Zone!Idle(c), errand' = [errand EXCEPT ![c] = e],
           UNCHANGED <<checks, connection, pace, entitled, promised, errands, changes, overlapped, cut, unheard>>,
           errand[c].at \notin {"save", "pace", "note"}, e.at # "save",
           e.at = "create" => Zone!Existing = {},
           ~overlapped /\ ~cut => ErrandKnows(e)
    PROVE  CheckInv'
<1>1. Zone!Existing' = Zone!Existing
  BY DEF Zone!Existing
<1>2. ~overlapped => /\ \A j, k \in Zone!Existing' : j = k
                     /\ e.at = "create" => Zone!Existing' = {}
  BY <1>1, AloneKnows
<1>3. ~overlapped /\ ~cut' =>
         /\ e.at # "save" => OnlyCheck(connection.check)'
         /\ e.at \notin {"save", "pace", "note"} => Paced(pace)'
         /\ ErrandKnows(e)'
  <2>1. ~overlapped /\ ~cut => OnlyCheck(connection.check) /\ Paced(pace) /\ ErrandKnows(e)
    BY AloneKnows
  <2> QED
    BY <1>1, <2>1 DEF OnlyCheck, Paced, ErrandKnows
<1>4. /\ checks' \in [Zone!Ids -> Zone!Check] /\ connection' \in Zone!Connection /\ pace' \in {2, 3} \cup {1}
  BY ZoneTypes
<1>5. UNCHANGED <<entitled, promised, errands, changes, overlapped>>
  OBVIOUS
<1>6. cut' \in BOOLEAN /\ unheard' \in BOOLEAN
  BY ZoneTypes
<1>7. cut => cut'
  OBVIOUS
<1> QED
  BY <1>2, <1>3, <1>4, <1>5, <1>6, <1>7, StepKeepsChecks

LEMMA ReadSiteKeepsChecks ==
    ASSUME CheckInv, NEW c \in Actors, Zone!ReadSite(c)
    PROVE  CheckInv'
<1>1. PICK row : row = [connection EXCEPT !.normal = promised]
  OBVIOUS
<1>2. row \in Zone!Connection /\ row.check = connection.check
  BY <1>1, ZoneTypes DEF Zone!Connection
<1>3. PICK e : e = [errand[c] EXCEPT !.at = "site", !.row = row]
  OBVIOUS
<1>4. e \in Zone!Errand /\ e.at = "site" /\ e.row = row
  <2>1. errand[c] \in Zone!Errand
    BY ZoneTypes
  <2> QED
    BY <1>2, <1>3, <2>1 DEF Zone!Errand, Zone!Step
<1>5. errand' = [errand EXCEPT ![c] = e] /\ errand[c].at = "sync"
  BY <1>1, <1>3, ZoneTypes DEF Zone!ReadSite
<1>6. UNCHANGED <<checks, connection, pace, entitled, promised, errands, changes, overlapped, cut, unheard>>
  BY DEF Zone!ReadSite, Zone!Unbegun, Zone!rows, Zone!plan
<1>7. ~Zone!Idle(c)
  BY <1>5 DEF Zone!Idle
<1>8. ~overlapped /\ ~cut => ErrandKnows(e)
  BY <1>2, <1>4, <1>5, <1>7, AloneKnows DEF ErrandKnows
<1> QED
  BY <1>4, <1>5, <1>6, <1>7, <1>8, ReadKeepsChecks

LEMMA FindCheckKeepsChecks ==
    ASSUME CheckInv, NEW c \in Actors, Zone!FindCheck(c)
    PROVE  CheckInv'
<1>1. errand[c].at = "check" /\ errand[c] \in Zone!Errand
  BY ZoneTypes DEF Zone!FindCheck
<1>2. UNCHANGED <<checks, connection, pace, entitled, promised, errands, changes, overlapped, cut, unheard>>
  BY DEF Zone!FindCheck, Zone!Unbegun, Zone!rows, Zone!plan
<1>3. ~Zone!Idle(c)
  BY <1>1 DEF Zone!Idle
<1>4. CASE Zone!Found(errand[c].row) = {} /\ Zone!Goto(c, "create")
  <2>1. Zone!Existing = {}
    BY <1>4 DEF Zone!Found
  <2>2. PICK e : e = [errand[c] EXCEPT !.at = "create"]
    OBVIOUS
  <2>3. e \in Zone!Errand /\ e.at = "create"
    BY <1>1, <2>2 DEF Zone!Errand, Zone!Step
  <2>4. errand' = [errand EXCEPT ![c] = e]
    BY <1>4, <2>2, ZoneTypes DEF Zone!Goto
  <2>5. ErrandKnows(e)
    BY <2>3 DEF ErrandKnows
  <2> QED
    BY <1>1, <1>2, <1>3, <2>1, <2>3, <2>4, <2>5, ReadKeepsChecks
<1>5. CASE \E k \in Zone!Found(errand[c].row) : errand' = [errand EXCEPT ![c].at = "update", ![c].check = k]
  <2>1. PICK k \in Zone!Found(errand[c].row) : errand' = [errand EXCEPT ![c].at = "update", ![c].check = k]
    BY <1>5
  <2>2. k \in Zone!Ids
    BY ZoneTypes DEF Zone!Found
  <2>3. PICK e : e = [errand[c] EXCEPT !.at = "update", !.check = k]
    OBVIOUS
  <2>4. e \in Zone!Errand /\ e.at = "update"
    BY <1>1, <2>2, <2>3 DEF Zone!Errand, Zone!Step
  <2>5. errand' = [errand EXCEPT ![c] = e]
    BY <2>1, <2>3, ZoneTypes
  <2>6. ErrandKnows(e)
    BY <2>4 DEF ErrandKnows
  <2> QED
    BY <1>1, <1>2, <1>3, <2>4, <2>5, <2>6, ReadKeepsChecks
<1> QED
  BY <1>4, <1>5 DEF Zone!FindCheck

\* An errand that ends, having left its connection alone or known it.
LEMMA FinishKeepsChecks ==
    ASSUME CheckInv, NEW c \in Actors, ~Zone!Idle(c), Zone!Finish(c),
           checks' \in [Zone!Ids -> Zone!Check], Zone!Existing' = Zone!Existing,
           connection' \in Zone!Connection, pace' \in {2, 3} \cup {1},
           cut' \in BOOLEAN /\ unheard' \in BOOLEAN, cut => cut', UNCHANGED <<entitled, promised, errands, changes, overlapped>>,
           ~overlapped /\ ~cut' => OnlyCheck(connection.check)' /\ Paced(pace)'
    PROVE  CheckInv'
<1>1. PICK e : e = Zone!IdleErrand
  OBVIOUS
<1>2. e \in Zone!Errand /\ e.at = "idle" /\ errand' = [errand EXCEPT ![c] = e]
  BY <1>1, ZoneFacts DEF Zone!Finish
<1>3. ErrandKnows(e)'
  BY <1>2 DEF ErrandKnows
<1>4. ~overlapped => /\ \A j, k \in Zone!Existing' : j = k
                     /\ e.at = "create" => Zone!Existing' = {}
  BY <1>2, AloneKnows
<1> QED
  BY <1>2, <1>3, <1>4, StepKeepsChecks

LEMMA DisableKeepsChecks ==
    ASSUME CheckInv, NEW c \in Actors, Zone!DisableUptime(c)
    PROVE  CheckInv'
<1>1. /\ errand[c].at = "disable" /\ Zone!Finish(c)
      /\ UNCHANGED <<connection, pace, entitled, promised, errands, changes, overlapped, cut, unheard>>
  BY DEF Zone!DisableUptime, Zone!Unbegun, Zone!rows, Zone!plan
<1>2. ~Zone!Idle(c)
  BY <1>1 DEF Zone!Idle
<1>3. /\ checks' \in [Zone!Ids -> Zone!Check]
      /\ \A k \in Zone!Ids : checks'[k].status = checks[k].status /\ checks'[k].interval = checks[k].interval
  <2>1. CASE UNCHANGED checks
    BY <2>1, ZoneTypes
  <2>2. CASE /\ connection.check \in Zone!Existing
             /\ checks' = [checks EXCEPT ![connection.check].suspended = TRUE]
    <3>1. checks[connection.check] \in Zone!Check /\ connection.check \in Zone!Ids
      BY <2>2, ZoneTypes
    <3>2. PICK check : check = [checks[connection.check] EXCEPT !.suspended = TRUE]
      OBVIOUS
    <3>3. /\ check \in Zone!Check /\ check.status = checks[connection.check].status
          /\ check.interval = checks[connection.check].interval
      BY <3>1, <3>2 DEF Zone!Check
    <3>4. checks' = [checks EXCEPT ![connection.check] = check]
      BY <2>2, <3>2
    <3> QED
      BY <3>1, <3>3, <3>4, ZoneTypes
  <2> QED
    BY <2>1, <2>2 DEF Zone!DisableUptime
<1>4. Zone!Existing' = Zone!Existing
  BY <1>3 DEF Zone!Existing
<1>5. ~overlapped /\ ~cut' => OnlyCheck(connection.check)' /\ Paced(pace)'
  <2>1. ~overlapped /\ ~cut => OnlyCheck(connection.check) /\ Paced(pace)
    BY <1>1, <1>2, AloneKnows
  <2> QED
    BY <1>1, <1>3, <1>4, <2>1, ZoneTypes DEF OnlyCheck, Paced
<1> QED
  BY <1>1, <1>2, <1>3, <1>4, <1>5, ZoneTypes, FinishKeepsChecks

LEMMA SaveSiteKeepsChecks ==
    ASSUME CheckInv, NEW c \in Actors, Zone!SaveSite(c)
    PROVE  CheckInv'
<1>1. PICK row : row = errand[c].row
  OBVIOUS
<1>2. PICK answer \in {"available", "not-found", "provider-error"} :
         LET saved == [row EXCEPT !.availability = answer,
                                  !.zone = IF answer = "provider-error" THEN @ ELSE answer = "available"]
             goes == answer = "available" /\ errand[c].goal # "security"
         IN  /\ connection' = saved
             /\ IF goes THEN errand' = [errand EXCEPT ![c].at = "check", ![c].row = saved] ELSE Zone!Finish(c)
  BY <1>1 DEF Zone!SaveSite
<1>3. PICK saved : saved = [row EXCEPT !.availability = answer,
                                       !.zone = IF answer = "provider-error" THEN row.zone ELSE answer = "available"]
  OBVIOUS
<1>4. errand[c].at = "site" /\ errand[c] \in Zone!Errand /\ row \in Zone!Connection
  BY <1>1, ZoneTypes, ZoneFacts DEF Zone!SaveSite
<1>5. saved \in Zone!Connection /\ saved.check = row.check
  BY <1>3, <1>4 DEF Zone!Connection
<1>6. UNCHANGED <<checks, pace, entitled, promised, errands, changes, overlapped, cut, unheard>>
  BY DEF Zone!SaveSite, Zone!Unbegun, Zone!plan
<1>7. connection' = saved /\ Zone!Existing' = Zone!Existing
  BY <1>2, <1>3, <1>4, <1>6 DEF Zone!Existing, Zone!Connection
<1>8. ~Zone!Idle(c)
  BY <1>4 DEF Zone!Idle
<1>9. ~overlapped /\ ~cut => OnlyCheck(saved.check)' /\ OnlyCheck(connection.check)' /\ Paced(pace)'
  <2>1. ~overlapped /\ ~cut => OnlyCheck(row.check) /\ Paced(pace)
    BY <1>1, <1>4, <1>8, AloneKnows DEF ErrandKnows
  <2> QED
    BY <1>5, <1>6, <1>7, <2>1 DEF OnlyCheck, Paced
<1>10. checks' \in [Zone!Ids -> Zone!Check] /\ connection' \in Zone!Connection /\ pace' \in {2, 3} \cup {1}
  BY <1>5, <1>6, <1>7, ZoneTypes
<1>11. UNCHANGED <<entitled, promised, errands, changes, overlapped>>
  BY <1>6
<1>12. cut' \in BOOLEAN /\ unheard' \in BOOLEAN
  BY <1>6, ZoneTypes
<1>13. cut => cut'
  BY <1>6
<1>14. ~overlapped /\ ~cut' => OnlyCheck(connection.check)' /\ Paced(pace)'
  BY <1>6, <1>9
<1>15. CASE Zone!Finish(c)
  BY <1>7, <1>8, <1>10, <1>11, <1>12, <1>13, <1>14, <1>15, FinishKeepsChecks
<1>16. CASE errand' = [errand EXCEPT ![c].at = "check", ![c].row = saved]
  <2>1. PICK e : e = [errand[c] EXCEPT !.at = "check", !.row = saved]
    OBVIOUS
  <2>2. e \in Zone!Errand /\ e.at = "check" /\ e.row = saved
    BY <1>4, <1>5, <2>1 DEF Zone!Errand, Zone!Step
  <2>3. errand' = [errand EXCEPT ![c] = e]
    BY <1>16, <2>1, ZoneTypes
  <2>4. ~overlapped => /\ \A j, k \in Zone!Existing' : j = k
                       /\ e.at = "create" => Zone!Existing' = {}
    BY <1>7, <1>8, <2>2, AloneKnows
  <2>5. ~overlapped /\ ~cut' =>
           /\ e.at # "save" => OnlyCheck(connection.check)'
           /\ e.at \notin {"save", "pace", "note"} => Paced(pace)'
           /\ ErrandKnows(e)'
    <3>1. ~overlapped /\ ~cut' => OnlyCheck(e.row.check)'
      BY <1>6, <1>9, <2>2 DEF OnlyCheck
    <3> QED
      BY <1>14, <2>2, <3>1 DEF ErrandKnows
  <2> QED
    BY <1>8, <1>10, <1>11, <1>12, <1>13, <2>2, <2>3, <2>4, <2>5, StepKeepsChecks
<1>17. Zone!Finish(c) \/ errand' = [errand EXCEPT ![c].at = "check", ![c].row = connection']
  BY <1>2
<1> QED
  BY <1>7, <1>15, <1>16, <1>17

\* Nothing else exists when a check is made, or it is the one that exists.
LEMMA SetCheckKeepsChecks ==
    ASSUME CheckInv, NEW c \in Actors, Zone!CreateHealthCheck(c) \/ Zone!UpdateHealthCheck(c)
    PROVE  CheckInv'
<1>1. PICK k \in Zone!Ids :
         /\ Zone!SetCheck(c, k) /\ ~Zone!Idle(c)
         /\ errand[c].at = "create" \/ (errand[c].at = "update" /\ k \in Zone!Existing)
  <2>1. CASE Zone!CreateHealthCheck(c)
    BY <2>1 DEF Zone!CreateHealthCheck, Zone!Idle
  <2>2. CASE Zone!UpdateHealthCheck(c)
    BY <2>2 DEF Zone!UpdateHealthCheck, Zone!Idle, Zone!Existing
  <2> QED
    BY <2>1, <2>2
<1>2. PICK interval : interval = errand[c].row.normal
  OBVIOUS
<1>3. errand[c] \in Zone!Errand /\ interval \in {2, 3} \cup {1}
  BY <1>2, ZoneTypes, ZoneFacts
<1>4. PICK check : check = [status |-> "exists", interval |-> interval, suspended |-> FALSE]
  OBVIOUS
<1>5. check \in Zone!Check /\ check.status = "exists" /\ check.interval = interval
  BY <1>3, <1>4 DEF Zone!Check
<1>6. PICK e : e = [errand[c] EXCEPT !.at = "save", !.check = k, !.interval = interval]
  OBVIOUS
<1>7. e \in Zone!Errand /\ e.at = "save" /\ e.check = k /\ e.interval = interval
  BY <1>3, <1>6 DEF Zone!Errand, Zone!Step
<1>8. checks' = [checks EXCEPT ![k] = check] /\ errand' = [errand EXCEPT ![c] = e]
  BY <1>1, <1>2, <1>4, <1>6, ZoneTypes DEF Zone!SetCheck
<1>9. UNCHANGED <<connection, pace, entitled, promised, errands, changes, overlapped, cut>> /\ unheard' = FALSE
  BY <1>1 DEF Zone!SetCheck, Zone!Unbegun, Zone!rows, Zone!plan
<1>10. checks' \in [Zone!Ids -> Zone!Check] /\ checks'[k] = check /\ \A j \in Zone!Ids \ {k} : checks'[j] = checks[j]
  BY <1>5, <1>8, ZoneTypes
<1>11. Zone!Existing' = Zone!Existing \cup {k}
  BY <1>5, <1>10 DEF Zone!Existing
<1>12. ~overlapped => Zone!Existing' = {k}
  BY <1>1, <1>11, AloneKnows
<1>13. ~overlapped => /\ \A i, j \in Zone!Existing' : i = j
                      /\ e.at = "create" => Zone!Existing' = {}
  BY <1>7, <1>12
<1>14. ~overlapped /\ ~cut' =>
          /\ e.at # "save" => OnlyCheck(connection.check)'
          /\ e.at \notin {"save", "pace", "note"} => Paced(pace)'
          /\ ErrandKnows(e)'
  BY <1>5, <1>7, <1>10, <1>12 DEF ErrandKnows, OnlyCheck, Paced
<1>15. connection' \in Zone!Connection /\ pace' \in {2, 3} \cup {1}
  BY <1>9, ZoneTypes
<1>16. UNCHANGED <<entitled, promised, errands, changes, overlapped>>
  BY <1>9
<1>17. cut' \in BOOLEAN /\ unheard' \in BOOLEAN
  BY <1>9, ZoneTypes
<1>18. cut => cut'
  BY <1>9
<1> QED
  BY <1>1, <1>7, <1>8, <1>10, <1>13, <1>14, <1>15, <1>16, <1>17, <1>18, StepKeepsChecks

\* A statement of an errand that is under way: it leaves Cloudflare alone.
LEMMA WriteKeepsChecks ==
    ASSUME CheckInv, NEW c \in Actors, NEW e \in Zone!Errand, ~Zone!Idle(c), errand' = [errand EXCEPT ![c] = e],
           connection' \in Zone!Connection, pace' \in {2, 3} \cup {1},
           UNCHANGED <<checks, entitled, promised, errands, changes, overlapped, cut, unheard>>,
           e.at \notin {"create", "save"},
           ~overlapped /\ ~cut => /\ OnlyCheck(connection.check)'
                                  /\ e.at \notin {"pace", "note"} => Paced(pace)'
                                  /\ ErrandKnows(e)
    PROVE  CheckInv'
<1>1. Zone!Existing' = Zone!Existing
  BY DEF Zone!Existing
<1>2. ~overlapped => /\ \A j, k \in Zone!Existing' : j = k
                     /\ e.at = "create" => Zone!Existing' = {}
  BY <1>1, AloneKnows
<1>3. ~overlapped /\ ~cut' =>
         /\ e.at # "save" => OnlyCheck(connection.check)'
         /\ e.at \notin {"save", "pace", "note"} => Paced(pace)'
         /\ ErrandKnows(e)'
  <2>1. ErrandKnows(e) => ErrandKnows(e)'
    BY <1>1 DEF ErrandKnows, OnlyCheck, Paced
  <2> QED
    BY <2>1
<1>4. checks' \in [Zone!Ids -> Zone!Check]
  BY ZoneTypes
<1>5. UNCHANGED <<entitled, promised, errands, changes, overlapped>>
  OBVIOUS
<1>6. cut' \in BOOLEAN /\ unheard' \in BOOLEAN
  BY ZoneTypes
<1>7. cut => cut'
  OBVIOUS
<1> QED
  BY <1>2, <1>3, <1>4, <1>5, <1>6, <1>7, StepKeepsChecks

LEMMA SaveCheckKeepsChecks ==
    ASSUME CheckInv, NEW c \in Actors, Zone!SaveCheck(c)
    PROVE  CheckInv'
<1>1. PICK row : row = [errand[c].row EXCEPT !.check = errand[c].check]
  OBVIOUS
<1>2. errand[c].at = "save" /\ errand[c] \in Zone!Errand /\ errand[c].row \in Zone!Connection
  BY ZoneTypes, ZoneFacts DEF Zone!SaveCheck
<1>3. row \in Zone!Connection /\ row.check = errand[c].check
  BY <1>1, <1>2, ZoneFacts DEF Zone!Connection, Zone!None
<1>4. PICK e : e = [errand[c] EXCEPT !.at = "pace", !.row = row]
  OBVIOUS
<1>5. e \in Zone!Errand /\ e.at = "pace" /\ e.row = row /\ e.interval = errand[c].interval
  BY <1>2, <1>3, <1>4 DEF Zone!Errand, Zone!Step
<1>6. connection' = row /\ errand' = [errand EXCEPT ![c] = e]
  BY <1>1, <1>4, ZoneTypes DEF Zone!SaveCheck
<1>7. UNCHANGED <<checks, entitled, promised, errands, changes, overlapped, cut, unheard>> /\ pace' = pace
  BY DEF Zone!SaveCheck, Zone!Unbegun, Zone!plan
<1>8. ~Zone!Idle(c)
  BY <1>2 DEF Zone!Idle
<1>9. ~overlapped /\ ~cut => OnlyCheck(row.check) /\ Paced(e.interval)
  BY <1>2, <1>3, <1>5, <1>8, AloneKnows DEF ErrandKnows
<1>10. ~overlapped /\ ~cut => /\ OnlyCheck(connection.check)'
                              /\ e.at \notin {"pace", "note"} => Paced(pace)'
                              /\ ErrandKnows(e)
  BY <1>5, <1>6, <1>7, <1>9 DEF ErrandKnows, OnlyCheck, Zone!Existing
<1>11. connection' \in Zone!Connection /\ pace' \in {2, 3} \cup {1} /\ e.at \notin {"create", "save"}
  BY <1>3, <1>5, <1>6, <1>7, ZoneTypes
<1> QED
  BY <1>5, <1>6, <1>7, <1>8, <1>10, <1>11, WriteKeepsChecks

LEMMA SavePaceKeepsChecks ==
    ASSUME CheckInv, NEW c \in Actors, Zone!SavePace(c) \/ Zone!NotePace(c)
    PROVE  CheckInv'
<1>1. /\ errand[c].at \in {"pace", "note"} /\ errand[c] \in Zone!Errand
      /\ pace' = errand[c].interval /\ pace' \in {2, 3} \cup {1}
      /\ IF errand[c].goal = "reconcile"
            THEN Zone!Goto(c, IF errand[c].at = "pace" THEN "adjust" ELSE "status")
            ELSE Zone!Finish(c)
  BY ZoneTypes, ZoneFacts DEF Zone!SavePace, Zone!NotePace, Zone!Goto
<1>2. UNCHANGED <<checks, connection, entitled, promised, errands, changes, overlapped, cut, unheard>>
  BY DEF Zone!SavePace, Zone!NotePace, Zone!Unbegun, Zone!plan
<1>3. ~Zone!Idle(c)
  BY <1>1 DEF Zone!Idle
<1>4. Zone!Existing' = Zone!Existing
  BY <1>2 DEF Zone!Existing
<1>5. ~overlapped /\ ~cut => /\ OnlyCheck(connection.check)' /\ Paced(pace)'
                             /\ errand[c].goal = "reconcile" => OnlyCheck(errand[c].row.check)
  <2>1. ~overlapped /\ ~cut => /\ OnlyCheck(connection.check) /\ Paced(errand[c].interval)
                               /\ errand[c].goal = "reconcile" => OnlyCheck(errand[c].row.check)
    BY <1>1, <1>3, AloneKnows DEF ErrandKnows
  <2> QED
    BY <1>1, <1>2, <1>4, <2>1 DEF OnlyCheck, Paced
<1>6. CASE errand[c].goal = "reconcile"
  <2>1. PICK step \in {"adjust", "status"} : step = IF errand[c].at = "pace" THEN "adjust" ELSE "status"
    OBVIOUS
  <2>2. PICK e : e = [errand[c] EXCEPT !.at = step]
    OBVIOUS
  <2>3. e \in Zone!Errand /\ e.at = step /\ e.row = errand[c].row
    BY <1>1, <2>2 DEF Zone!Errand, Zone!Step
  <2>4. errand' = [errand EXCEPT ![c] = e]
    BY <1>1, <1>6, <2>1, <2>2, ZoneTypes DEF Zone!Goto
  <2>5. ~overlapped /\ ~cut => /\ OnlyCheck(connection.check)'
                               /\ e.at \notin {"pace", "note"} => Paced(pace)'
                               /\ ErrandKnows(e)
    BY <1>5, <1>6, <2>3 DEF ErrandKnows
  <2>6. /\ connection' \in Zone!Connection /\ e.at \notin {"create", "save"}
        /\ UNCHANGED <<checks, entitled, promised, errands, changes, overlapped, cut, unheard>>
    BY <1>2, <2>3, ZoneTypes
  <2> QED
    BY <1>1, <1>3, <2>3, <2>4, <2>5, <2>6, WriteKeepsChecks
<1>7. CASE errand[c].goal # "reconcile"
  <2>1. Zone!Finish(c)
    BY <1>1, <1>7
  <2>2. /\ checks' \in [Zone!Ids -> Zone!Check] /\ connection' \in Zone!Connection
        /\ UNCHANGED <<entitled, promised, errands, changes, overlapped>>
    BY <1>2, ZoneTypes
  <2>3. cut' \in BOOLEAN /\ unheard' \in BOOLEAN
    BY <1>2, ZoneTypes
  <2>4. cut => cut'
    BY <1>2
  <2>5. ~overlapped /\ ~cut' => OnlyCheck(connection.check)' /\ Paced(pace)'
    BY <1>2, <1>5
  <2> QED
    BY <1>1, <1>3, <1>4, <2>1, <2>2, <2>3, <2>4, <2>5, FinishKeepsChecks
<1> QED
  BY <1>6, <1>7

LEMMA AdjustKeepsChecks ==
    ASSUME CheckInv, NEW c \in Actors, Zone!AdjustInterval(c)
    PROVE  CheckInv'
<1>1. PICK row : row = [errand[c].row EXCEPT !.normal = errand[c].promised]
  OBVIOUS
<1>2. errand[c].at = "adjust" /\ errand[c] \in Zone!Errand /\ errand[c].row \in Zone!Connection
  BY ZoneTypes, ZoneFacts DEF Zone!AdjustInterval
<1>3. row \in Zone!Connection /\ row.check = errand[c].row.check
  BY <1>1, <1>2, ZoneFacts DEF Zone!Connection
<1>4. PICK e : e = [errand[c] EXCEPT !.at = "observe", !.row = row]
  OBVIOUS
<1>5. e \in Zone!Errand /\ e.at = "observe" /\ e.row = row
  BY <1>2, <1>3, <1>4 DEF Zone!Errand, Zone!Step
<1>6. errand' = [errand EXCEPT ![c] = e]
  BY <1>1, <1>4, ZoneTypes DEF Zone!AdjustInterval
<1>7. connection' = connection \/ connection' = row
  BY <1>1 DEF Zone!AdjustInterval
<1>8. UNCHANGED <<checks, entitled, promised, errands, changes, overlapped, cut, unheard>> /\ pace' = pace
  BY DEF Zone!AdjustInterval, Zone!Unbegun, Zone!plan
<1>9. ~Zone!Idle(c)
  BY <1>2 DEF Zone!Idle
<1>10. ~overlapped /\ ~cut => OnlyCheck(row.check) /\ OnlyCheck(connection.check) /\ Paced(pace)
  BY <1>2, <1>3, <1>9, AloneKnows DEF ErrandKnows
<1>11. ~overlapped /\ ~cut => /\ OnlyCheck(connection.check)'
                              /\ e.at \notin {"pace", "note"} => Paced(pace)'
                              /\ ErrandKnows(e)
  BY <1>5, <1>7, <1>8, <1>10 DEF ErrandKnows, OnlyCheck, Paced, Zone!Existing
<1>12. connection' \in Zone!Connection /\ pace' \in {2, 3} \cup {1} /\ e.at \notin {"create", "save"}
  BY <1>3, <1>5, <1>7, <1>8, ZoneTypes
<1> QED
  BY <1>5, <1>6, <1>8, <1>9, <1>11, <1>12, WriteKeepsChecks

LEMMA SaveStatusKeepsChecks ==
    ASSUME CheckInv, NEW c \in Actors, Zone!SaveStatus(c)
    PROVE  CheckInv'
<1>1. /\ errand[c].at = "status" /\ errand[c].row \in Zone!Connection /\ connection' = errand[c].row /\ Zone!Finish(c)
      /\ UNCHANGED <<checks, pace, entitled, promised, errands, changes, overlapped, cut, unheard>>
  BY ZoneTypes, ZoneFacts DEF Zone!SaveStatus, Zone!Unbegun, Zone!plan
<1>2. ~Zone!Idle(c) /\ Zone!Existing' = Zone!Existing
  BY <1>1 DEF Zone!Idle, Zone!Existing
<1>3. ~overlapped /\ ~cut => OnlyCheck(errand[c].row.check) /\ Paced(pace)
  BY <1>1, <1>2, AloneKnows DEF ErrandKnows
<1>4. ~overlapped /\ ~cut' => OnlyCheck(connection.check)' /\ Paced(pace)'
  BY <1>1, <1>2, <1>3 DEF OnlyCheck, Paced
<1>5. /\ checks' \in [Zone!Ids -> Zone!Check] /\ connection' \in Zone!Connection /\ pace' \in {2, 3} \cup {1}
      /\ UNCHANGED <<entitled, promised, errands, changes, overlapped>>
  BY <1>1, ZoneTypes
<1>6. cut' \in BOOLEAN /\ unheard' \in BOOLEAN
  BY <1>1, ZoneTypes
<1>7. cut => cut'
  BY <1>1
<1> QED
  BY <1>1, <1>2, <1>4, <1>5, <1>6, <1>7, FinishKeepsChecks

\* The row names the check that is changed, so its interval is the one noted.
LEMMA ObserveKeepsChecks ==
    ASSUME CheckInv, NEW c \in Actors, Zone!Observe(c)
    PROVE  CheckInv'
<1>1. /\ errand[c].at = "observe" /\ errand[c] \in Zone!Errand
      /\ UNCHANGED <<connection, pace, entitled, promised, errands, changes, overlapped, cut>>
  BY ZoneTypes DEF Zone!Observe, Zone!Unbegun, Zone!rows, Zone!plan
<1>2. ~Zone!Idle(c)
  BY <1>1 DEF Zone!Idle
<1>3. /\ connection.normal \in {2, 3} \cup {1} /\ pace \in {2, 3} \cup {1}
      /\ connection.check \in Zone!Ids \cup {0}
  BY ZoneTypes, ZoneFacts
<1>4. PICK interval \in {2, 3} \cup {1}, desired \in {2, 3} \cup {1} :
         /\ errand' = [errand EXCEPT ![c].at = "note", ![c].interval = interval]
         /\ \/ UNCHANGED <<checks, unheard>> /\ interval \in {1, pace}
            \/ /\ connection.check \in Zone!Existing
               /\ checks' = [checks EXCEPT ![connection.check].interval = desired]
               /\ (interval = desired /\ unheard' = FALSE) \/ unheard' = TRUE
  BY <1>3 DEF Zone!Observe, Zone!ChangeInterval, Zone!Note, Zone!Kept
<1>5. PICK e : e = [errand[c] EXCEPT !.at = "note", !.interval = interval]
  OBVIOUS
<1>6. /\ e \in Zone!Errand /\ e.at = "note" /\ e.interval = interval /\ e.row = errand[c].row /\ e.goal = errand[c].goal
  BY <1>1, <1>5 DEF Zone!Errand, Zone!Step
<1>7. errand' = [errand EXCEPT ![c] = e]
  BY <1>4, <1>5, ZoneTypes
<1>8. /\ checks' \in [Zone!Ids -> Zone!Check] /\ unheard' \in BOOLEAN
      /\ \A k \in Zone!Ids : checks'[k].status = checks[k].status
      /\ \/ UNCHANGED <<checks, unheard>> /\ interval \in {1, pace}
         \/ connection.check \in Zone!Existing /\ checks'[connection.check].interval = interval
         \/ unheard' = TRUE
  <2>1. CASE UNCHANGED <<checks, unheard>> /\ interval \in {1, pace}
    BY <2>1, ZoneTypes
  <2>2. CASE /\ connection.check \in Zone!Existing
             /\ checks' = [checks EXCEPT ![connection.check].interval = desired]
             /\ (interval = desired /\ unheard' = FALSE) \/ unheard' = TRUE
    <3>1. checks[connection.check] \in Zone!Check /\ connection.check \in Zone!Ids
      BY <2>2, ZoneTypes
    <3>2. PICK check : check = [checks[connection.check] EXCEPT !.interval = desired]
      OBVIOUS
    <3>3. check \in Zone!Check /\ check.status = checks[connection.check].status /\ check.interval = desired
      BY <3>1, <3>2 DEF Zone!Check
    <3>4. checks' = [checks EXCEPT ![connection.check] = check]
      BY <2>2, <3>2
    <3>5. checks' \in [Zone!Ids -> Zone!Check] /\ \A k \in Zone!Ids : checks'[k].status = checks[k].status
      BY <3>1, <3>3, <3>4, ZoneTypes
    <3>6. checks'[connection.check].interval = desired
      BY <3>1, <3>3, <3>4, ZoneTypes
    <3> QED
      BY <2>2, <3>5, <3>6
  <2> QED
    BY <1>4, <2>1, <2>2
<1>9. Zone!Existing' = Zone!Existing
  BY <1>8 DEF Zone!Existing
<1>10. ~overlapped => /\ \A j, k \in Zone!Existing' : j = k
                      /\ e.at = "create" => Zone!Existing' = {}
  BY <1>2, <1>6, <1>9, AloneKnows
<1>11. ~overlapped /\ ~cut' =>
          /\ e.at # "save" => OnlyCheck(connection.check)'
          /\ e.at \notin {"save", "pace", "note"} => Paced(pace)'
          /\ ErrandKnows(e)'
  <2> SUFFICES ASSUME ~overlapped, ~cut PROVE OnlyCheck(connection.check)' /\ ErrandKnows(e)'
    BY <1>1, <1>6
  <2>1. /\ OnlyCheck(connection.check) /\ Paced(pace)
        /\ errand[c].goal = "reconcile" => OnlyCheck(errand[c].row.check)
    BY <1>1, <1>2, AloneKnows DEF ErrandKnows
  <2>2. OnlyCheck(connection.check)'
    BY <1>1, <1>9, <2>1 DEF OnlyCheck
  <2>3. unheard' \/ \A k \in Zone!Existing : checks'[k].interval = interval \/ interval = 1
    BY <1>8, <2>1 DEF OnlyCheck, Paced
  <2>4. Paced(interval)' /\ (errand[c].goal = "reconcile" => OnlyCheck(e.row.check)')
    BY <1>6, <1>9, <2>1, <2>3 DEF OnlyCheck, Paced
  <2> QED
    BY <1>6, <2>2, <2>4 DEF ErrandKnows
<1>12. connection' \in Zone!Connection /\ pace' \in {2, 3} \cup {1}
  BY <1>1, ZoneTypes
<1>13. UNCHANGED <<entitled, promised, errands, changes, overlapped>>
  BY <1>1
<1>14. cut' \in BOOLEAN /\ unheard' \in BOOLEAN
  BY <1>1, <1>8, ZoneTypes
<1>15. cut => cut'
  BY <1>1
<1> QED
  BY <1>2, <1>6, <1>7, <1>8, <1>10, <1>11, <1>12, <1>13, <1>14, <1>15, StepKeepsChecks

LEMMA EndKeepsChecks ==
    ASSUME CheckInv, NEW c \in Actors, Zone!End(c)
    PROVE  CheckInv'
<1>1. /\ ~Zone!Idle(c) /\ Zone!Finish(c)
      /\ UNCHANGED <<checks, connection, pace, entitled, promised, errands, changes, overlapped, unheard>>
  BY DEF Zone!End, Zone!Unbegun, Zone!rows, Zone!plan
<1>2. cut' = (cut \/ errand[c].at \in {"save", "pace", "note"})
  BY DEF Zone!End
<1>3. ~cut' => errand[c].at \notin {"save", "pace", "note"}
  BY <1>2
<1>4. cut' \in BOOLEAN /\ unheard' \in BOOLEAN
  BY <1>1, <1>2, ZoneTypes
<1>5. cut => cut'
  BY <1>2
<1>6. ~overlapped /\ ~cut' => OnlyCheck(connection.check)' /\ Paced(pace)'
  <2>1. ~overlapped /\ ~cut' => OnlyCheck(connection.check) /\ Paced(pace)
    BY <1>1, <1>3, <1>5, AloneKnows
  <2> QED
    BY <1>1, <2>1 DEF OnlyCheck, Paced, Zone!Existing
<1>7. /\ checks' \in [Zone!Ids -> Zone!Check] /\ Zone!Existing' = Zone!Existing
      /\ connection' \in Zone!Connection /\ pace' \in {2, 3} \cup {1}
      /\ UNCHANGED <<entitled, promised, errands, changes, overlapped>>
  BY <1>1, ZoneTypes DEF Zone!Existing
<1> QED
  BY <1>1, <1>4, <1>5, <1>6, <1>7, FinishKeepsChecks

\* The plan asks for nothing of the check, and a deleted one is known to nobody.
LEMMA ChangeKeepsChecks ==
    ASSUME CheckInv, Zone!Change
    PROVE  CheckInv'
<1>1. /\ UNCHANGED <<connection, pace, errand, errands, overlapped, cut, unheard>> /\ changes' \in 0 .. MaxZoneChanges
  BY ZoneTypes, ZoneFacts DEF Zone!Change, Zone!rows
<1>2. entitled' \in BOOLEAN /\ promised' \in {2, 3}
  BY ZoneTypes DEF Zone!Change
<1>3. /\ checks' \in [Zone!Ids -> Zone!Check]
      /\ \A k \in Zone!Existing' : k \in Zone!Existing /\ checks'[k] = checks[k]
  <2>1. CASE UNCHANGED checks
    BY <2>1, ZoneTypes DEF Zone!Existing
  <2>2. CASE \E k \in Zone!Existing : checks' = [checks EXCEPT ![k].status = "deleted"]
    <3>1. PICK k \in Zone!Existing : checks' = [checks EXCEPT ![k].status = "deleted"]
      BY <2>2
    <3>2. PICK check : check = [checks[k] EXCEPT !.status = "deleted"]
      OBVIOUS
    <3>3. check \in Zone!Check /\ check.status = "deleted"
      <4>1. checks[k] \in Zone!Check
        BY ZoneTypes
      <4> QED
        BY <3>2, <4>1 DEF Zone!Check
    <3>4. checks' = [checks EXCEPT ![k] = check]
      BY <3>1, <3>2
    <3>5. checks' \in [Zone!Ids -> Zone!Check] /\ checks'[k] = check /\ \A j \in Zone!Ids \ {k} : checks'[j] = checks[j]
      BY <3>3, <3>4, ZoneTypes
    <3> QED
      BY <3>3, <3>5 DEF Zone!Existing
  <2> QED
    BY <2>1, <2>2 DEF Zone!Change
<1>4. Zone!ZoneTypeOK'
  BY <1>1, <1>2, <1>3, ZoneTypes DEF Zone!ZoneTypeOK
<1>5. ~overlapped' => ErrandsAlone' /\ OneExists'
  BY <1>1, <1>3 DEF CheckInv, ErrandsAlone, OneExists, Zone!Idle
<1>6. ASSUME ~overlapped', ~cut' PROVE RowKnows' /\ \A c \in Actors : ErrandKnows(errand[c])'
  <2>1. RowKnows'
    BY <1>1, <1>3, <1>6 DEF CheckInv, RowKnows, OnlyCheck, Paced
  <2>2. ASSUME NEW c \in Actors PROVE ErrandKnows(errand[c])'
    <3>1. PICK j : j = errand[c] /\ j = errand'[c]
      BY <1>1
    <3>2. ErrandKnows(j)
      BY <1>1, <1>6, <3>1 DEF CheckInv
    <3>3. unheard' = unheard
      BY <1>1
    <3> QED
      BY <1>3, <3>1, <3>2, <3>3 DEF ErrandKnows, OnlyCheck, Paced
  <2> QED
    BY <2>1, <2>2
<1> QED
  BY <1>4, <1>5, <1>6 DEF CheckInv

LEMMA ChecksFollow == CheckInv => Zone!ZoneSound
<1> SUFFICES ASSUME CheckInv PROVE Zone!ZoneSound
  OBVIOUS
<1>1. Zone!OneCheck
  <2> SUFFICES ASSUME ~overlapped PROVE Zone!Cardinality(Zone!Existing) <= 1
    BY DEF Zone!OneCheck
  <2>1. \A j, k \in Zone!Existing : j = k
    BY DEF CheckInv, OneExists
  <2>2. CASE Zone!Existing = {}
    BY <2>2, FS_EmptySet DEF Cardinality, Zone!Cardinality
  <2>3. CASE Zone!Existing # {}
    <3>1. PICK k : Zone!Existing = {k}
      BY <2>1, <2>3
    <3>2. Cardinality({k}) = 1
      BY FS_Singleton
    <3> QED
      BY <3>1, <3>2 DEF Cardinality, Zone!Cardinality
  <2> QED
    BY <2>2, <2>3
<1>2. Zone!CheckIsNamed /\ Zone!PaceIsKnown
  <2> SUFFICES ASSUME ~overlapped, ~cut, Zone!AllIdle
               PROVE  /\ Zone!Existing # {} => connection.check \in Zone!Existing
                      /\ ~unheard /\ connection.check \in Zone!Existing =>
                            checks[connection.check].interval = pace \/ pace = 1
    BY DEF Zone!CheckIsNamed, Zone!PaceIsKnown
  <2>1. OnlyCheck(connection.check) /\ Paced(pace)
    BY DEF CheckInv, RowKnows, Zone!AllIdle, Zone!Idle
  <2> QED
    BY <2>1 DEF OnlyCheck, Paced
<1> QED
  BY <1>1, <1>2 DEF CheckInv, Zone!ZoneSound

ChecksInv == part = "zone" => CheckInv

LEMMA ChecksStart == Zone!Init => CheckInv
<1> SUFFICES ASSUME Zone!Init PROVE CheckInv
  OBVIOUS
<1>1. \A c \in Actors : errand[c].at = "idle" /\ errand[c] \in Zone!Errand
  BY ZoneFacts DEF Zone!Init
<1>2. Zone!Existing = {}
  BY DEF Zone!Init, Zone!Existing
<1>3. Zone!ZoneTypeOK
  <2>1. connection \in Zone!Connection /\ promised \in {2, 3} /\ pace = promised
    BY DEF Zone!Init, Zone!NewConnection, Zone!Connection, Zone!None
  <2>2. checks \in [Zone!Ids -> Zone!Check]
    BY DEF Zone!Init, Zone!Check
  <2>3. errand \in [Actors -> Zone!Errand]
    BY ZoneFacts DEF Zone!Init
  <2>4. errands \in 0 .. MaxZoneErrands /\ changes \in 0 .. MaxZoneChanges
    BY ZoneFacts DEF Zone!Init
  <2> QED
    BY <2>1, <2>2, <2>3, <2>4 DEF Zone!Init, Zone!ZoneTypeOK
<1>4. ErrandsAlone /\ OneExists
  BY <1>1, <1>2 DEF ErrandsAlone, OneExists, Zone!Idle
<1>5. RowKnows /\ \A c \in Actors : ErrandKnows(errand[c])
  BY <1>1, <1>2 DEF RowKnows, ErrandKnows, OnlyCheck, Paced
<1> QED
  BY <1>3, <1>4, <1>5 DEF CheckInv

LEMMA ChecksKept == (Init => ChecksInv) /\ (ChecksInv /\ [Next]_vars => ChecksInv')
<1>1. Init => ChecksInv
  BY ChecksStart DEF Init, ChecksInv
<1>2. ASSUME ChecksInv, [Next]_vars PROVE ChecksInv'
  <2>1. part' = part
    BY <1>2 DEF Next, vars
  <2>2. SUFFICES ASSUME part = "zone", CheckInv PROVE CheckInv'
    BY <1>2, <2>1 DEF ChecksInv
  <2>3. CASE Zone!Next
    BY <2>2, <2>3, BeginningsKeepChecks, ReadSiteKeepsChecks, FindCheckKeepsChecks, DisableKeepsChecks,
       SaveSiteKeepsChecks, SetCheckKeepsChecks, SaveCheckKeepsChecks, SavePaceKeepsChecks, AdjustKeepsChecks,
       SaveStatusKeepsChecks, ObserveKeepsChecks, EndKeepsChecks, ChangeKeepsChecks DEF Zone!Next
  <2>4. CASE UNCHANGED zone
    <3>1. UNCHANGED <<checks, entitled, promised, connection, pace, errand, errands, changes, overlapped, cut, unheard>>
      BY <2>4 DEF zone
    <3> QED
      BY <2>2, <3>1 DEF CheckInv, Zone!ZoneTypeOK, ErrandsAlone, OneExists, RowKnows, ErrandKnows, OnlyCheck,
         Paced, Zone!Existing, Zone!Idle
  <2> QED
    BY <1>2, <2>2, <2>3, <2>4 DEF Next, vars
<1> QED
  BY <1>1, <1>2

\* While calls do not overlap, a site has one health check at most, and unless a call was
\* cut off between Cloudflare and the statement, the connection names it and its interval
\* is the one remembered until an answer to a change of it is lost, for any number of
\* calls, checks and changes
\* (syncCloudflareSite, ensureHealthCheck, changeInterval, reconcileUptime).
THEOREM HealthCheckIsKnown == Spec => []ZoneSound
<1>1. ChecksInv => ZoneSound
  BY ChecksFollow DEF ChecksInv, ZoneSound
<1> QED
  BY <1>1, ChecksKept, PTL DEF Spec

--------------------------------------------------------------------------------
(* Destinations.  A resolution that saw one edit at most has read every part  *)
(* of the choice of its site from one of two choices, and all that each of    *)
(* them allows of the present row was watched.                                *)

\* The credential a call is about to write is of the mode of its form, unless it was kept.
FormFits(r) ==
    r.at = "store" /\ ~r.kept => r.form.credential = r.form.mode

WellChosen(choice) == choice \in Destinations!Selection /\ (choice.mode = "master" <=> choice.assigned = none)

\* What a resolution has read, by a choice that was effective and the present one.
ReadOf(r, seen, earlier) ==
    /\ WellChosen(earlier)
    /\ Destinations!Allowed(earlier, destination) \cup Destinations!Allowed(selection, destination) \subseteq seen
    /\ "mode" \in r.got => r.choice.mode \in {earlier.mode, selection.mode}
    /\ "assigned" \in r.got => r.choice.assigned \in {earlier.assigned, selection.assigned}

ResolutionFollows(r, w) ==
    /\ r.at = "resolve" /\ w.edits = 0 => ReadOf(r, w.seen, selection)
    /\ r.at = "resolve" /\ w.edits = 1 => \E earlier \in Destinations!Selection : ReadOf(r, w.seen, earlier)

DestinationInv ==
    /\ Destinations!DestinationsTypeOK
    /\ Destinations!CredentialFitsMode
    /\ \A c \in Actors : FormFits(request[c]) /\ ResolutionFollows(request[c], watched[c])
    /\ WellChosen(selection)
    /\ \A s \in Things : consents[s].at = "pending" => s \notin used
    /\ reused = {} /\ ~strayed

LEMMA DestinationFacts ==
    /\ none \notin {main, runtime} /\ none \notin Destinations!Modes /\ main # runtime
    /\ Life \in Nat /\ MaxDestinationErrands \in Nat /\ MaxMinutes \in Nat
    /\ Destinations!IdleErrand \in Destinations!Errand /\ Destinations!IdleErrand.at = "idle"
    /\ Destinations!Unwatched \in Destinations!Watched
    /\ \A r : r \in Destinations!Errand =>
          /\ r.at \in {"idle", "save", "store", "test", "probe", "authorized", "exchange", "resolve"}
          /\ r.row \in Destinations!Row /\ r.form \in Destinations!Row /\ r.kept \in BOOLEAN
          /\ r.got \subseteq {"mode", "assigned"} /\ r.choice \in Destinations!Selection
    /\ \A w : w \in Destinations!Watched => w.seen \subseteq {main, runtime} /\ w.edits \in 0 .. 2
<1>1. /\ none \notin {main, runtime} /\ none \notin Destinations!Modes /\ main # runtime
      /\ Life \in Nat /\ MaxDestinationErrands \in Nat /\ MaxMinutes \in Nat
  BY OperationsAssumption DEF Destinations!DestinationsAssumption, Destinations!Destinations
<1>2. Destinations!IdleErrand \in Destinations!Errand /\ Destinations!IdleErrand.at = "idle"
  <2>1. Destinations!NewRow \in Destinations!Row
    BY DEF Destinations!NewRow, Destinations!Row, Destinations!Modes, Destinations!Credential
  <2>2. Destinations!Master \in Destinations!Selection
    BY DEF Destinations!Master, Destinations!Selection
  <2> QED
    BY <2>1, <2>2 DEF Destinations!IdleErrand, Destinations!Errand
<1> QED
  BY <1>1, <1>2 DEF Destinations!Unwatched, Destinations!Watched, Destinations!Errand, Destinations!Destinations

LEMMA DestinationTypes ==
    ASSUME DestinationInv
    PROVE  /\ destination \in Destinations!Row /\ outcome \in {"none", "connected", "failed"}
           /\ selection \in Destinations!Selection
           /\ consents \in [Things -> Destinations!Consent] /\ request \in [Actors -> Destinations!Errand]
           /\ minute \in 0 .. MaxMinutes /\ requests \in 0 .. MaxDestinationErrands
           /\ used \subseteq Things /\ mixed \in BOOLEAN /\ strayed \in BOOLEAN
           /\ watched \in [Actors -> Destinations!Watched]
BY DEF DestinationInv, Destinations!DestinationsTypeOK

\* A call goes on without an edit.
LEMMA CallKeepsDestination ==
    ASSUME DestinationInv, NEW c \in Actors, NEW r \in Destinations!Errand, NEW w \in Destinations!Watched,
           request' = [request EXCEPT ![c] = r], watched' = [watched EXCEPT ![c] = w],
           outcome' \in {"none", "connected", "failed"}, requests' \in 0 .. MaxDestinationErrands,
           consents' \in [Things -> Destinations!Consent], used' \subseteq Things, reused' = {},
           \A s \in Things : consents'[s].at = "pending" => s \notin used',
           UNCHANGED <<destination, selection, minute, mixed>>,
           strayed' \in BOOLEAN, ~strayed',
           FormFits(r), ResolutionFollows(r, w)
    PROVE  DestinationInv'
<1>1. /\ request' \in [Actors -> Destinations!Errand] /\ watched' \in [Actors -> Destinations!Watched]
      /\ request'[c] = r /\ watched'[c] = w
      /\ \A d \in Actors \ {c} : request'[d] = request[d] /\ watched'[d] = watched[d]
  BY DestinationTypes
<1>2. Destinations!DestinationsTypeOK'
  BY <1>1 DEF DestinationInv, Destinations!DestinationsTypeOK
<1>3. ASSUME NEW d \in Actors PROVE FormFits(request[d])' /\ ResolutionFollows(request[d], watched[d])'
  <2>1. PICK q : q = request'[d]
    OBVIOUS
  <2>2. PICK v : v = watched'[d]
    OBVIOUS
  <2>3. FormFits(q) /\ ResolutionFollows(q, v)
    BY <1>1, <2>1, <2>2 DEF DestinationInv
  <2> QED
    BY <2>1, <2>2, <2>3 DEF FormFits, ResolutionFollows, ReadOf, WellChosen, Destinations!Allowed
<1> QED
  BY <1>2, <1>3 DEF DestinationInv, Destinations!CredentialFitsMode, WellChosen

\* An edit, of the row or of the choice, is one more that resolutions watch.
LEMMA EditKeepsResolution ==
    ASSUME NEW r \in Destinations!Errand, NEW w \in Destinations!Watched, NEW v \in Destinations!Watched,
           r.at = "resolve", ResolutionFollows(r, w), WellChosen(selection), WellChosen(selection)',
           UNCHANGED selection \/ UNCHANGED destination,
           v = [seen |-> w.seen \cup Destinations!Allowed(selection', destination'),
                edits |-> IF w.edits = 0 THEN 1 ELSE 2]
    PROVE  ResolutionFollows(r, v)'
<1>1. v.seen = w.seen \cup Destinations!Allowed(selection', destination') /\ v.edits = IF w.edits = 0 THEN 1 ELSE 2
  OBVIOUS
<1>2. CASE w.edits = 0
  <2>1. ReadOf(r, w.seen, selection)
    BY <1>2 DEF ResolutionFollows
  <2>2. PICK earlier : earlier = selection
    OBVIOUS
  <2>3. ReadOf(r, v.seen, earlier)'
    BY <1>1, <2>1, <2>2 DEF ReadOf, WellChosen, Destinations!Allowed
  <2>4. earlier \in Destinations!Selection
    BY <2>2 DEF WellChosen
  <2>5. \E s \in Destinations!Selection : ReadOf(r, v.seen, s)'
    BY <2>3, <2>4
  <2> QED
    BY <1>1, <1>2, <2>5 DEF ResolutionFollows
<1>3. CASE w.edits # 0
  BY <1>1, <1>3 DEF ResolutionFollows
<1> QED
  BY <1>2, <1>3

\* Every resolution watches an edit; what it writes fits unless the ghost says so.
LEMMA EditKeepsDestination ==
    ASSUME DestinationInv, Destinations!Watch(selection', destination'),
           UNCHANGED selection \/ UNCHANGED destination,
           destination' \in Destinations!Row, WellChosen(selection)',
           Destinations!CredentialFitsMode', mixed' \in BOOLEAN,
           request' \in [Actors -> Destinations!Errand], requests' \in 0 .. MaxDestinationErrands,
           \A d \in Actors : \/ request'[d] = request[d]
                             \/ request'[d].at = "idle" /\ request[d].at # "resolve",
           UNCHANGED <<outcome, consents, minute, used, reused, strayed>>
    PROVE  DestinationInv'
<1>1. watched' = [d \in Actors |->
         IF request[d].at # "resolve" THEN watched[d]
         ELSE [seen |-> watched[d].seen \cup Destinations!Allowed(selection', destination'),
               edits |-> IF watched[d].edits = 0 THEN 1 ELSE 2]]
  BY DEF Destinations!Watch
<1>2. ASSUME NEW d \in Actors
      PROVE  /\ watched'[d] \in Destinations!Watched
             /\ FormFits(request[d])' /\ ResolutionFollows(request[d], watched[d])'
  <2>1. PICK q : q = request'[d]
    OBVIOUS
  <2>2. PICK v : v = watched'[d]
    OBVIOUS
  <2>3. PICK w : w = watched[d]
    OBVIOUS
  <2>4. w \in Destinations!Watched /\ FormFits(request[d]) /\ ResolutionFollows(request[d], w)
    BY <2>3, DestinationTypes DEF DestinationInv
  <2>5. CASE request[d].at = "resolve"
    <3>1. v = [seen |-> w.seen \cup Destinations!Allowed(selection', destination'),
               edits |-> IF w.edits = 0 THEN 1 ELSE 2]
      BY <1>1, <2>2, <2>3, <2>5
    <3>2. v \in Destinations!Watched
      BY <2>4, <3>1, DestinationFacts DEF Destinations!Watched, Destinations!Allowed, Destinations!Destinations
    <3>3. q = request[d] /\ q \in Destinations!Errand /\ q.at = "resolve"
      BY <2>1, <2>5, DestinationTypes
    <3>4. ResolutionFollows(q, w) /\ WellChosen(selection)
      BY <2>4, <3>3 DEF DestinationInv
    <3>5. ResolutionFollows(q, v)'
      BY <2>4, <3>1, <3>2, <3>3, <3>4, EditKeepsResolution
    <3> QED
      BY <2>1, <2>2, <2>4, <3>2, <3>3, <3>5 DEF FormFits
  <2>6. CASE request[d].at # "resolve"
    <3>1. v = w /\ q.at # "resolve" /\ FormFits(q)
      BY <1>1, <2>1, <2>2, <2>3, <2>4, <2>6 DEF FormFits
    <3> QED
      BY <2>1, <2>2, <2>4, <3>1 DEF ResolutionFollows, FormFits
  <2> QED
    BY <2>5, <2>6
<1>3. watched' \in [Actors -> Destinations!Watched]
  BY <1>1, <1>2
<1>4. Destinations!DestinationsTypeOK'
  BY <1>3, DestinationTypes DEF DestinationInv, Destinations!DestinationsTypeOK, WellChosen
<1> QED
  BY <1>2, <1>4 DEF DestinationInv

LEMMA WriteKeepsDestination ==
    ASSUME DestinationInv, NEW c \in Actors, NEW row \in Destinations!Row, NEW kept \in BOOLEAN,
           request[c].at # "resolve", Destinations!WriteRow(c, row, kept),
           kept \/ row.credential = row.mode,
           UNCHANGED <<outcome, selection, consents, minute, requests, used, reused, strayed>>
    PROVE  DestinationInv'
<1>1. /\ destination' = row /\ request' = [request EXCEPT ![c] = Destinations!IdleErrand]
      /\ mixed' = \/ mixed \/ request[c].row # destination
                  \/ kept /\ (row.mode # request[c].row.mode \/ row.credential # destination.credential)
  BY DEF Destinations!WriteRow, Destinations!Goto
<1>2. Destinations!Watch(selection', destination')
  BY <1>1 DEF Destinations!WriteRow, Destinations!Watch
<1>3. mixed' \in BOOLEAN
  BY <1>1
<1>4. Destinations!CredentialFitsMode'
  <2> SUFFICES ASSUME ~mixed', row.credential # none PROVE row.credential = row.mode
    BY <1>1 DEF Destinations!CredentialFitsMode
  <2>1. ~mixed /\ request[c].row = destination
    BY <1>1
  <2>2. kept => row.mode = destination.mode /\ row.credential = destination.credential
    BY <1>1, <2>1
  <2> QED
    BY <2>1, <2>2 DEF DestinationInv, Destinations!CredentialFitsMode
<1>5. /\ request' \in [Actors -> Destinations!Errand] /\ request'[c].at = "idle"
      /\ \A d \in Actors : request'[d] = request[d] \/ (request'[d].at = "idle" /\ request[d].at # "resolve")
  BY <1>1, DestinationTypes, DestinationFacts
<1>6. /\ destination' \in Destinations!Row /\ WellChosen(selection)' /\ requests' \in 0 .. MaxDestinationErrands
      /\ UNCHANGED selection \/ UNCHANGED destination
      /\ UNCHANGED <<outcome, consents, minute, used, reused, strayed>>
  BY <1>1, DestinationTypes DEF DestinationInv, WellChosen
<1> QED
  BY <1>2, <1>3, <1>4, <1>5, <1>6, EditKeepsDestination

LEMMA WritesKeepDestination ==
    ASSUME DestinationInv, NEW c \in Actors, Destinations!Store(c) \/ Destinations!ExchangeCode(c)
    PROVE  DestinationInv'
<1>1. UNCHANGED <<outcome, selection, consents, minute, requests, used, reused, strayed>>
  BY DEF Destinations!Store, Destinations!ExchangeCode, Destinations!auth
<1>2. request[c] \in Destinations!Errand /\ request[c].form \in Destinations!Row /\ request[c].kept \in BOOLEAN
      /\ request[c].row \in Destinations!Row
  BY DestinationTypes, DestinationFacts
<1>3. CASE Destinations!Store(c)
  <2>1. PICK row : row = request[c].form
    OBVIOUS
  <2>2. PICK kept \in BOOLEAN : kept = request[c].kept
    BY <1>2
  <2>3. Destinations!WriteRow(c, row, kept) /\ request[c].at = "store"
    BY <1>3, <2>1, <2>2 DEF Destinations!Store, Destinations!WriteRow, Destinations!Watch
  <2>4. kept \/ row.credential = row.mode
    BY <2>1, <2>2, <2>3 DEF DestinationInv, FormFits
  <2> QED
    BY <1>1, <1>2, <2>1, <2>3, <2>4, WriteKeepsDestination
<1>4. CASE Destinations!ExchangeCode(c)
  <2>1. PICK row : row = [request[c].row EXCEPT !.mode = "oauth", !.credential = "oauth"]
    OBVIOUS
  <2>2. row \in Destinations!Row /\ row.credential = row.mode
    BY <1>2, <2>1 DEF Destinations!Row, Destinations!Modes, Destinations!Credential
  <2>3. Destinations!WriteRow(c, row, FALSE) /\ request[c].at = "exchange"
    BY <1>4, <2>1 DEF Destinations!ExchangeCode, Destinations!Connected, Destinations!WriteRow, Destinations!Watch
  <2> QED
    BY <1>1, <2>2, <2>3, WriteKeepsDestination
<1> QED
  BY <1>3, <1>4

LEMMA ChoiceKeepsDestination ==
    ASSUME DestinationInv, Destinations!SaveSiteSettings
    PROVE  DestinationInv'
<1>1. /\ selection' \in Destinations!Selection /\ (selection'.mode = "master" <=> selection'.assigned = none)
      /\ requests < MaxDestinationErrands /\ requests' = requests + 1
      /\ UNCHANGED <<destination, outcome, consents, used, reused, request, minute, mixed, strayed>>
  BY DEF Destinations!SaveSiteSettings, Destinations!auth
<1>2. Destinations!Watch(selection', destination')
  BY <1>1 DEF Destinations!SaveSiteSettings, Destinations!Watch
<1>3. mixed' \in BOOLEAN
  BY <1>1, DestinationTypes
<1>4. Destinations!CredentialFitsMode'
  BY <1>1 DEF DestinationInv, Destinations!CredentialFitsMode
<1>5. /\ request' \in [Actors -> Destinations!Errand]
      /\ \A d \in Actors : request'[d] = request[d] \/ (request'[d].at = "idle" /\ request[d].at # "resolve")
      /\ requests' \in 0 .. MaxDestinationErrands
  BY <1>1, DestinationTypes, DestinationFacts
<1>6. /\ destination' \in Destinations!Row /\ WellChosen(selection)'
      /\ UNCHANGED selection \/ UNCHANGED destination
      /\ UNCHANGED <<outcome, consents, minute, used, reused, strayed>>
  BY <1>1, DestinationTypes DEF WellChosen
<1> QED
  BY <1>2, <1>3, <1>4, <1>5, <1>6, EditKeepsDestination

\* A call that is no resolution goes on.
LEMMA PlainKeepsDestination ==
    ASSUME DestinationInv, NEW c \in Actors, NEW r \in Destinations!Errand,
           request' = [request EXCEPT ![c] = r], r.at # "resolve", FormFits(r),
           outcome' \in {"none", "connected", "failed"}, requests' \in 0 .. MaxDestinationErrands,
           UNCHANGED <<destination, selection, consents, minute, used, reused, mixed, watched, strayed>>
    PROVE  DestinationInv'
<1>1. PICK w : w = watched[c]
  OBVIOUS
<1>2. w \in Destinations!Watched /\ watched' = [watched EXCEPT ![c] = w]
  BY <1>1, DestinationTypes
<1>3. ResolutionFollows(r, w)
  BY DEF ResolutionFollows
<1>4. /\ consents' \in [Things -> Destinations!Consent] /\ used' \subseteq Things /\ reused' = {}
      /\ \A s \in Things : consents'[s].at = "pending" => s \notin used'
      /\ UNCHANGED <<destination, selection, minute, mixed>>
  BY DestinationTypes DEF DestinationInv
<1>5. ~strayed'
  BY DEF DestinationInv
<1>6. strayed' \in BOOLEAN
  BY DestinationTypes
<1> QED
  BY <1>2, <1>3, <1>4, <1>5, <1>6, CallKeepsDestination

LEMMA FormsKeepDestination ==
    ASSUME DestinationInv, NEW c \in Actors,
           \/ Destinations!Save(c) \/ Destinations!KeepCredential(c) \/ Destinations!Test(c)
           \/ Destinations!ReadCredential(c) \/ Destinations!Probe(c) \/ Destinations!ReadForOAuth(c)
    PROVE  DestinationInv'
<1>1. UNCHANGED <<destination, selection, consents, minute, used, reused, mixed, watched, strayed>>
  BY DEF Destinations!Save, Destinations!KeepCredential, Destinations!Test, Destinations!ReadCredential,
         Destinations!Probe, Destinations!ReadForOAuth, Destinations!rows, Destinations!auth, Destinations!ghosts
<1>2. /\ request[c] \in Destinations!Errand /\ destination \in Destinations!Row
      /\ requests \in 0 .. MaxDestinationErrands /\ outcome \in {"none", "connected", "failed"}
      /\ destination.credential \in Destinations!Credential
      /\ \A row : row \in Destinations!Row =>
            /\ row.credential \in Destinations!Credential
            /\ \A credential \in Destinations!Credential : [row EXCEPT !.credential = credential] \in Destinations!Row
  BY DestinationTypes DEF Destinations!Row
<1>3. CASE Destinations!Save(c)
  <2>1. PICK mode \in Destinations!Modes, given \in Destinations!Credential :
           \E enabled, pool \in BOOLEAN :
              /\ given \in {none, mode} /\ given # "oauth"
              /\ requests' = requests + 1 /\ requests < MaxDestinationErrands
              /\ request' = [request EXCEPT ![c] =
                                [Destinations!IdleErrand EXCEPT !.at = IF given = none THEN "save" ELSE "store",
                                     !.row = destination,
                                     !.form = [mode |-> mode, enabled |-> enabled, pool |-> pool, credential |-> given]]]
    BY <1>3 DEF Destinations!Save, Destinations!Begin, Destinations!Goto
  <2>2. PICK enabled \in BOOLEAN, pool \in BOOLEAN :
           request' = [request EXCEPT ![c] =
                          [Destinations!IdleErrand EXCEPT !.at = IF given = none THEN "save" ELSE "store",
                               !.row = destination,
                               !.form = [mode |-> mode, enabled |-> enabled, pool |-> pool, credential |-> given]]]
    BY <2>1
  <2>3. PICK form : form = [mode |-> mode, enabled |-> enabled, pool |-> pool, credential |-> given]
    OBVIOUS
  <2>4. form \in Destinations!Row /\ form.credential = given /\ form.mode = mode
    BY <2>3 DEF Destinations!Row
  <2>5. PICK r : r = [Destinations!IdleErrand EXCEPT !.at = IF given = none THEN "save" ELSE "store",
                                                    !.row = destination, !.form = form]
    OBVIOUS
  <2>6. /\ r \in Destinations!Errand /\ r.at \in {"save", "store"} /\ r.form = form
        /\ r.at = "store" => given # none
    BY <1>2, <2>4, <2>5, DestinationFacts DEF Destinations!Errand
  <2>7. request' = [request EXCEPT ![c] = r] /\ requests' = requests + 1 /\ requests < MaxDestinationErrands
    BY <2>1, <2>2, <2>3, <2>5
  <2>8. outcome' = outcome
    BY <1>3 DEF Destinations!Save, Destinations!rows
  <2>9. MaxDestinationErrands \in Nat
    BY DestinationFacts
  <2>10. requests' \in 0 .. MaxDestinationErrands
    BY <1>2, <2>7, <2>9
  <2>11. FormFits(r)
    BY <2>1, <2>4, <2>6 DEF FormFits
  <2> QED
    BY <1>1, <1>2, <2>6, <2>7, <2>8, <2>10, <2>11, PlainKeepsDestination
<1>4. CASE Destinations!KeepCredential(c)
  <2>1. PICK form : form = [request[c].form EXCEPT !.credential = destination.credential]
    OBVIOUS
  <2>2. form \in Destinations!Row
    BY <1>2, <2>1, DestinationFacts
  <2>3. PICK r : r = [request[c] EXCEPT !.at = "store", !.form = form, !.kept = TRUE]
    OBVIOUS
  <2>4. r \in Destinations!Errand /\ r.at = "store" /\ r.kept = TRUE
    BY <1>2, <2>2, <2>3 DEF Destinations!Errand
  <2>5. request' = [request EXCEPT ![c] = r] /\ requests' = requests /\ outcome' = outcome
    BY <1>4, <2>1, <2>3 DEF Destinations!KeepCredential, Destinations!Goto, Destinations!rows
  <2>6. FormFits(r)
    BY <2>4 DEF FormFits
  <2> QED
    BY <1>1, <1>2, <2>4, <2>5, <2>6, PlainKeepsDestination
<1>5. CASE Destinations!Test(c)
  <2>1. PICK r : r = [Destinations!IdleErrand EXCEPT !.at = "test", !.row = destination]
    OBVIOUS
  <2>2. r \in Destinations!Errand /\ r.at = "test"
    BY <1>2, <2>1, DestinationFacts DEF Destinations!Errand
  <2>3. request' = [request EXCEPT ![c] = r] /\ requests' \in 0 .. MaxDestinationErrands /\ outcome' = outcome
    BY <1>2, <1>5, <2>1, DestinationFacts DEF Destinations!Test, Destinations!Begin, Destinations!Goto, Destinations!rows
  <2>4. FormFits(r)
    BY <2>2 DEF FormFits
  <2> QED
    BY <1>1, <1>2, <2>2, <2>3, <2>4, PlainKeepsDestination
<1>6. CASE Destinations!ReadCredential(c)
  <2>1. PICK form : form = [request[c].row EXCEPT !.credential = destination.credential]
    OBVIOUS
  <2>2. form \in Destinations!Row
    BY <1>2, <2>1, DestinationFacts
  <2>3. PICK r : r = [request[c] EXCEPT !.at = "probe", !.form = form]
    OBVIOUS
  <2>4. r \in Destinations!Errand /\ r.at = "probe"
    BY <1>2, <2>2, <2>3 DEF Destinations!Errand
  <2>5. request' = [request EXCEPT ![c] = r] /\ requests' = requests /\ outcome' = outcome
    BY <1>6, <2>1, <2>3 DEF Destinations!ReadCredential, Destinations!Goto, Destinations!rows
  <2>6. FormFits(r)
    BY <2>4 DEF FormFits
  <2> QED
    BY <1>1, <1>2, <2>4, <2>5, <2>6, PlainKeepsDestination
<1>7. CASE Destinations!Probe(c)
  <2>1. PICK r : r = Destinations!IdleErrand
    OBVIOUS
  <2>2. r \in Destinations!Errand /\ r.at = "idle" /\ FormFits(r)
    BY <2>1, DestinationFacts DEF FormFits
  <2>3. /\ request' = [request EXCEPT ![c] = r] /\ requests' = requests
        /\ outcome' \in {"none", "connected", "failed"}
    BY <1>7, <2>1 DEF Destinations!Probe, Destinations!Goto
  <2> QED
    BY <1>1, <1>2, <2>2, <2>3, PlainKeepsDestination
<1>8. CASE Destinations!ReadForOAuth(c)
  <2>1. PICK r : r = [request[c] EXCEPT !.at = "exchange", !.row = destination]
    OBVIOUS
  <2>2. r \in Destinations!Errand /\ r.at = "exchange" /\ FormFits(r)
    BY <1>2, <2>1 DEF Destinations!Errand, FormFits
  <2>3. request' = [request EXCEPT ![c] = r] /\ requests' = requests /\ outcome' = outcome
    BY <1>8, <2>1 DEF Destinations!ReadForOAuth, Destinations!Goto, Destinations!rows
  <2> QED
    BY <1>1, <1>2, <2>2, <2>3, PlainKeepsDestination
<1> QED
  BY <1>3, <1>4, <1>5, <1>6, <1>7, <1>8

--------------------------------------------------------------------------------
(* Destinations: authorizations, resolutions, the end of a call.              *)

LEMMA OAuthKeepsDestination ==
    ASSUME DestinationInv, NEW s \in Things,
           \/ Destinations!BeginOAuth(s)
           \/ \E c \in Actors : Destinations!CompleteOAuth(c, s)
    PROVE  DestinationInv'
<1>1. /\ consents \in [Things -> Destinations!Consent] /\ minute \in 0 .. MaxMinutes
      /\ Life \in Nat /\ MaxMinutes \in Nat /\ used \subseteq Things
      /\ \A t \in Things : consents[t].at = "pending" => t \notin used
  BY DestinationTypes, DestinationFacts DEF DestinationInv
<1>2. CASE Destinations!BeginOAuth(s)
  <2>1. /\ s \notin used
        /\ UNCHANGED <<destination, outcome, selection, used, reused, request, minute, requests,
                       mixed, watched, strayed>>
        /\ consents' = [t \in Things |->
              IF t = s THEN [at |-> "pending", expires |-> minute + Life]
              ELSE IF consents[t].at = "consumed" \/ consents[t].expires <= minute
                   THEN Destinations!NoConsent ELSE consents[t]]
    BY <1>2 DEF Destinations!BeginOAuth, Destinations!rows, Destinations!ghosts
  <2>2. minute + Life \in 0 .. MaxMinutes + Life /\ 0 \in 0 .. MaxMinutes + Life
    BY <1>1
  <2>3. [at |-> "pending", expires |-> minute + Life] \in Destinations!Consent
    BY <2>2 DEF Destinations!Consent
  <2>4. Destinations!NoConsent \in Destinations!Consent /\ Destinations!NoConsent.at = "absent"
    BY <2>2 DEF Destinations!NoConsent, Destinations!Consent
  <2>5. consents' \in [Things -> Destinations!Consent]
    BY <1>1, <2>1, <2>3, <2>4
  <2>6. \A t \in Things : consents'[t].at = "pending" => t = s \/ consents[t].at = "pending"
    BY <2>1, <2>4
  <2>7. Destinations!DestinationsTypeOK'
    BY <2>1, <2>5 DEF DestinationInv, Destinations!DestinationsTypeOK
  <2>8. \A c \in Actors : FormFits(request[c])' /\ ResolutionFollows(request[c], watched[c])'
    BY <2>1 DEF DestinationInv, FormFits, ResolutionFollows, ReadOf, WellChosen, Destinations!Allowed
  <2> QED
    BY <1>1, <2>1, <2>6, <2>7, <2>8 DEF DestinationInv, Destinations!CredentialFitsMode, WellChosen
<1>3. ASSUME NEW c \in Actors, Destinations!CompleteOAuth(c, s) PROVE DestinationInv'
  <2>1. PICK r : r = [Destinations!IdleErrand EXCEPT !.at = "authorized"]
    OBVIOUS
  <2>2. r \in Destinations!Errand /\ r.at = "authorized" /\ FormFits(r)
    BY <2>1, DestinationFacts DEF Destinations!Errand, FormFits
  <2>3. PICK w : w = watched[c]
    OBVIOUS
  <2>4. w \in Destinations!Watched /\ ResolutionFollows(r, w)
    BY <2>2, <2>3, DestinationTypes DEF ResolutionFollows
  <2>5. /\ request' = [request EXCEPT ![c] = r] /\ requests < MaxDestinationErrands /\ requests' = requests + 1
        /\ consents[s].at = "pending" /\ consents[s].expires > minute
        /\ consents' = [consents EXCEPT ![s].at = "consumed"]
        /\ used' = used \cup {s}
        /\ reused' = reused \cup (IF s \in used \/ minute >= consents[s].expires THEN {s} ELSE {})
    BY <1>3, <2>1 DEF Destinations!CompleteOAuth, Destinations!Begin, Destinations!Goto, Destinations!Usable
  <2>6. UNCHANGED <<destination, selection, minute, mixed>> /\ outcome' = outcome
        /\ watched' = watched /\ strayed' = strayed
    BY <1>3 DEF Destinations!CompleteOAuth, Destinations!rows, Destinations!ghosts
  <2>7. watched' = [watched EXCEPT ![c] = w]
    BY <2>3, <2>6, DestinationTypes
  <2>8. requests' \in 0 .. MaxDestinationErrands
    BY <2>5, DestinationTypes, DestinationFacts
  <2>9. consents[s].expires \in Nat
    BY <1>1 DEF Destinations!Consent
  <2>10. reused' = {}
    BY <1>1, <2>5, <2>9 DEF DestinationInv
  <2>11. [consents[s] EXCEPT !.at = "consumed"] \in Destinations!Consent
    BY <1>1 DEF Destinations!Consent
  <2>12. consents' \in [Things -> Destinations!Consent]
    BY <1>1, <2>5, <2>11
  <2>13. ASSUME NEW t \in Things, consents'[t].at = "pending" PROVE t \notin used'
    <3>1. t # s
      BY <1>1, <2>5, <2>11, <2>13 DEF Destinations!Consent
    <3>2. consents[t].at = "pending"
      BY <1>1, <2>5, <2>13, <3>1
    <3> QED
      BY <1>1, <2>5, <3>1, <3>2
  <2>14. used' \subseteq Things
    BY <1>1, <2>5
  <2>15. ~strayed'
    BY <2>6 DEF DestinationInv
  <2>16. strayed' \in BOOLEAN
    BY <2>6, DestinationTypes
  <2>17. outcome' \in {"none", "connected", "failed"}
    BY <2>6, DestinationTypes
  <2>18. UNCHANGED <<destination, selection, minute, mixed>>
    BY <2>6
  <2> QED
    BY <2>2, <2>4, <2>5, <2>7, <2>8, <2>10, <2>12, <2>13, <2>14, <2>15, <2>16, <2>17, <2>18,
       CallKeepsDestination
<1> QED
  BY <1>2, <1>3

\* A call goes on that may watch or end a resolution.
LEMMA ResolvingKeepsDestination ==
    ASSUME DestinationInv, NEW c \in Actors, NEW r \in Destinations!Errand, NEW w \in Destinations!Watched,
           request' = [request EXCEPT ![c] = r], watched' = [watched EXCEPT ![c] = w],
           UNCHANGED <<destination, outcome, selection, consents, minute, requests, used, reused, mixed>>,
           strayed' \in BOOLEAN, ~strayed',
           FormFits(r), ResolutionFollows(r, w)
    PROVE  DestinationInv'
<1>1. /\ outcome' \in {"none", "connected", "failed"} /\ requests' \in 0 .. MaxDestinationErrands
      /\ consents' \in [Things -> Destinations!Consent] /\ used' \subseteq Things /\ reused' = {}
      /\ \A s \in Things : consents'[s].at = "pending" => s \notin used'
      /\ UNCHANGED <<destination, selection, minute, mixed>>
  BY DestinationTypes DEF DestinationInv
<1> QED
  BY <1>1, CallKeepsDestination

LEMMA ResolveKeepsDestination ==
    ASSUME DestinationInv, NEW c \in Actors, Destinations!ResolveForSite(c)
    PROVE  DestinationInv'
<1>1. PICK r : r = [Destinations!IdleErrand EXCEPT !.at = "resolve"]
  OBVIOUS
<1>2. PICK w : w = [seen |-> Destinations!Allowed(selection, destination), edits |-> 0]
  OBVIOUS
<1>3. r \in Destinations!Errand /\ r.at = "resolve" /\ r.got = {} /\ FormFits(r)
  BY <1>1, DestinationFacts DEF Destinations!Errand, FormFits, Destinations!IdleErrand
<1>4. w \in Destinations!Watched /\ w.seen = Destinations!Allowed(selection, destination) /\ w.edits = 0
  BY <1>2 DEF Destinations!Watched, Destinations!Allowed
<1>5. ReadOf(r, w.seen, selection)
  BY <1>3, <1>4 DEF ReadOf, DestinationInv
<1>6. ResolutionFollows(r, w)
  BY <1>4, <1>5 DEF ResolutionFollows
<1>7. /\ request' = [request EXCEPT ![c] = r] /\ watched' = [watched EXCEPT ![c] = w]
      /\ UNCHANGED <<destination, outcome, selection, consents, minute, requests, used, reused, mixed>>
      /\ strayed' = strayed
  BY <1>1, <1>2 DEF Destinations!ResolveForSite, Destinations!Goto, Destinations!rows, Destinations!auth
<1>8. ~strayed'
  BY <1>7 DEF DestinationInv
<1>9. strayed' \in BOOLEAN
  BY <1>7, DestinationTypes
<1> QED
  BY <1>3, <1>4, <1>6, <1>7, <1>8, <1>9, ResolvingKeepsDestination

LEMMA ReadKeepsDestination ==
    ASSUME DestinationInv, NEW c \in Actors, Destinations!ReadSettings(c)
    PROVE  DestinationInv'
<1>1. PICK what \in {"mode", "assigned"} :
         /\ request[c].at = "resolve"
         /\ request' = [request EXCEPT ![c] =
                [request[c] EXCEPT !.got = request[c].got \cup {what}, !.choice[what] = selection[what]]]
  BY DEF Destinations!ReadSettings, Destinations!Goto
<1>2. PICK old : old = request[c]
  OBVIOUS
<1>3. /\ old \in Destinations!Errand /\ old.at = "resolve" /\ old.got \subseteq {"mode", "assigned"}
      /\ old.choice \in Destinations!Selection /\ selection \in Destinations!Selection
  BY <1>1, <1>2, DestinationTypes DEF Destinations!Errand
<1>4. PICK w : w = watched[c]
  OBVIOUS
<1>5. w \in Destinations!Watched /\ ResolutionFollows(old, w)
  BY <1>2, <1>4, DestinationTypes DEF DestinationInv
<1>6. PICK choice : choice = [old.choice EXCEPT ![what] = selection[what]]
  OBVIOUS
<1>7. /\ choice \in Destinations!Selection
      /\ what = "mode" => choice.mode = selection.mode /\ choice.assigned = old.choice.assigned
      /\ what = "assigned" => choice.assigned = selection.assigned /\ choice.mode = old.choice.mode
  <2>1. CASE what = "mode"
    BY <1>3, <1>6, <2>1 DEF Destinations!Selection
  <2>2. CASE what = "assigned"
    BY <1>3, <1>6, <2>2 DEF Destinations!Selection
  <2> QED
    BY <1>1, <2>1, <2>2
<1>8. PICK r : r = [old EXCEPT !.got = old.got \cup {what}, !.choice = choice]
  OBVIOUS
<1>9. r \in Destinations!Errand /\ r.at = "resolve" /\ r.got = old.got \cup {what} /\ r.choice = choice
  BY <1>1, <1>3, <1>7, <1>8 DEF Destinations!Errand
<1>10. FormFits(r)
  BY <1>9 DEF FormFits
<1>11. ASSUME NEW seen, NEW earlier, ReadOf(old, seen, earlier) PROVE ReadOf(r, seen, earlier)
  BY <1>1, <1>7, <1>9, <1>11 DEF ReadOf
<1>12. ResolutionFollows(r, w)
  BY <1>3, <1>5, <1>9, <1>11 DEF ResolutionFollows
<1>13. request' = [request EXCEPT ![c] = r]
  BY <1>1, <1>2, <1>6, <1>8
<1>14. /\ UNCHANGED <<destination, outcome, selection, consents, minute, requests, used, reused, mixed>>
       /\ strayed' = strayed /\ watched' = watched
  BY DEF Destinations!ReadSettings, Destinations!rows, Destinations!auth, Destinations!ghosts
<1>15. watched' = [watched EXCEPT ![c] = w]
  BY <1>4, <1>14, DestinationTypes
<1>16. ~strayed'
  BY <1>14 DEF DestinationInv
<1>17. strayed' \in BOOLEAN
  BY <1>14, DestinationTypes
<1> QED
  BY <1>5, <1>9, <1>10, <1>12, <1>13, <1>14, <1>15, <1>16, <1>17, ResolvingKeepsDestination

\* What is resolved was allowed by the choice that its deciding part comes from.
LEMMA ResolutionIsAllowed ==
    ASSUME DestinationInv, NEW r \in Destinations!Errand, NEW w \in Destinations!Watched,
           r.at = "resolve", r.got = {"mode", "assigned"}, w.edits < 2, ResolutionFollows(r, w)
    PROVE  Destinations!Resolved(r.choice, destination) \in w.seen \cup {none}
<1>1. w.edits = 0 \/ w.edits = 1
  BY DestinationFacts
<1>2. \E s \in Destinations!Selection : ReadOf(r, w.seen, s)
  BY <1>1 DEF ResolutionFollows, DestinationInv, WellChosen
<1>3. PICK earlier \in Destinations!Selection : ReadOf(r, w.seen, earlier)
  BY <1>2
<1>4. WellChosen(earlier) /\ WellChosen(selection)
  BY <1>3 DEF ReadOf, DestinationInv
<1>5. /\ r.choice.mode \in {earlier.mode, selection.mode}
      /\ r.choice.assigned \in {earlier.assigned, selection.assigned}
  BY <1>3 DEF ReadOf
<1>6. /\ r.choice.mode \in {"master", "override"} /\ r.choice.assigned \in {main, runtime, none}
      /\ none \notin {main, runtime} /\ main # runtime
  BY DestinationFacts DEF Destinations!Selection, Destinations!Destinations
<1>7. ASSUME NEW s, s \in {earlier, selection}, NEW d \in {main, runtime}, d \in Destinations!Allowed(s, destination)
      PROVE  d \in w.seen
  BY <1>3, <1>7 DEF ReadOf
<1>8. CASE r.choice.mode = "override"
  <2>1. PICK s \in {earlier, selection} : r.choice.assigned = s.assigned
    BY <1>5
  <2>2. CASE r.choice.assigned \in Destinations!Enabled(destination)
    <3>1. r.choice.assigned # none /\ r.choice.assigned \in {main, runtime}
      BY <1>6, <2>2 DEF Destinations!Enabled, Destinations!Destinations
    <3>2. s.mode = "override"
      BY <1>4, <2>1, <3>1 DEF WellChosen, Destinations!Selection
    <3>3. r.choice.assigned \in Destinations!Allowed(s, destination)
      BY <1>6, <2>1, <2>2, <3>1, <3>2 DEF Destinations!Allowed, Destinations!Enabled, Destinations!Destinations
    <3>4. Destinations!Resolved(r.choice, destination) = r.choice.assigned
      BY <1>6, <1>8, <2>2, <3>1 DEF Destinations!Resolved
    <3> QED
      BY <1>7, <2>1, <3>1, <3>3, <3>4
  <2>3. CASE r.choice.assigned \notin Destinations!Enabled(destination)
    <3>1. {r.choice.assigned} \cap Destinations!Enabled(destination) = {}
      BY <2>3
    <3>2. Destinations!Resolved(r.choice, destination) = none
      BY <1>8, <3>1 DEF Destinations!Resolved
    <3> QED
      BY <3>2
  <2> QED
    BY <2>2, <2>3
<1>9. CASE r.choice.mode = "master"
  <2>1. PICK s \in {earlier, selection} : s.mode = "master"
    BY <1>5, <1>9
  <2>2. Destinations!Resolved(r.choice, destination) \in {main, runtime}
    BY <1>6, <1>9 DEF Destinations!Resolved, Destinations!Pool, Destinations!Enabled, Destinations!Destinations
  <2>3. Destinations!Resolved(r.choice, destination) = main => destination.pool /\ destination.enabled
    BY <1>6, <1>9 DEF Destinations!Resolved, Destinations!Pool, Destinations!Enabled, Destinations!Destinations
  <2>4. Destinations!Resolved(r.choice, destination) \in Destinations!Allowed(s, destination)
    BY <1>6, <2>1, <2>2, <2>3 DEF Destinations!Allowed, Destinations!Destinations
  <2> QED
    BY <1>7, <2>1, <2>2, <2>4
<1> QED
  BY <1>6, <1>8, <1>9

LEMMA EndingKeepsDestination ==
    ASSUME DestinationInv, NEW c \in Actors, Destinations!ListDestinations(c) \/ Destinations!End(c)
    PROVE  DestinationInv'
<1>1. PICK r : r = Destinations!IdleErrand
  OBVIOUS
<1>2. r \in Destinations!Errand /\ r.at = "idle" /\ FormFits(r)
  BY <1>1, DestinationFacts DEF FormFits
<1>3. PICK w : w = Destinations!Unwatched
  OBVIOUS
<1>4. w \in Destinations!Watched /\ ResolutionFollows(r, w)
  BY <1>2, <1>3, DestinationFacts DEF ResolutionFollows
<1>5. /\ request' = [request EXCEPT ![c] = r] /\ watched' = [watched EXCEPT ![c] = w]
      /\ UNCHANGED <<destination, outcome, selection, consents, minute, requests, used, reused, mixed>>
  BY <1>1, <1>3 DEF Destinations!ListDestinations, Destinations!End, Destinations!Goto, Destinations!rows,
                    Destinations!auth
<1>6. strayed' \in BOOLEAN /\ ~strayed'
  <2>1. CASE Destinations!End(c)
    <3>1. strayed' = strayed
      BY <2>1 DEF Destinations!End
    <3>2. strayed' \in BOOLEAN
      BY <3>1, DestinationTypes
    <3>3. ~strayed'
      BY <3>1 DEF DestinationInv
    <3> QED
      BY <3>2, <3>3
  <2>2. CASE Destinations!ListDestinations(c)
    <3>1. /\ request[c].at = "resolve" /\ request[c].got = {"mode", "assigned"}
          /\ strayed' = \/ strayed
                        \/ /\ watched[c].edits < 2
                           /\ Destinations!Resolved(request[c].choice, destination)
                                 \notin watched[c].seen \cup {none}
      BY <2>2 DEF Destinations!ListDestinations
    <3>2. request[c] \in Destinations!Errand /\ watched[c] \in Destinations!Watched
      BY DestinationTypes
    <3>3. ResolutionFollows(request[c], watched[c])
      BY DEF DestinationInv
    <3>4. watched[c].edits < 2 =>
             Destinations!Resolved(request[c].choice, destination) \in watched[c].seen \cup {none}
      BY <3>1, <3>2, <3>3, ResolutionIsAllowed
    <3>5. ~strayed
      BY DEF DestinationInv
    <3>6. strayed' = FALSE
      BY <3>1, <3>4, <3>5
    <3> QED
      BY <3>6
  <2> QED
    BY <2>1, <2>2
<1> QED
  BY <1>2, <1>4, <1>5, <1>6, ResolvingKeepsDestination

LEMMA DestinationsFollow == DestinationInv => Destinations!DestinationsSound
<1> SUFFICES ASSUME DestinationInv PROVE Destinations!DestinationsSound
  OBVIOUS
<1>1. Destinations!ConsentUsedOnce /\ Destinations!ResolvedWasEffective
  BY DEF DestinationInv, Destinations!ConsentUsedOnce, Destinations!ResolvedWasEffective
<1> QED
  BY <1>1 DEF DestinationInv, Destinations!DestinationsSound

LEMMA DestinationsStart == Destinations!Init => DestinationInv
<1> SUFFICES ASSUME Destinations!Init PROVE DestinationInv
  OBVIOUS
<1>1. PICK mode \in Destinations!Modes :
         destination = [mode |-> mode, enabled |-> TRUE, pool |-> TRUE,
                        credential |-> IF mode = "oauth" THEN none ELSE mode]
  BY DEF Destinations!Init
<1>2. destination \in Destinations!Row /\ (destination.credential # none => destination.credential = destination.mode)
  BY <1>1 DEF Destinations!Row, Destinations!Credential
<1>3. WellChosen(selection)
  BY DestinationFacts DEF Destinations!Init, Destinations!Master, WellChosen, Destinations!Selection
<1>4. consents \in [Things -> Destinations!Consent] /\ \A s \in Things : consents[s].at = "absent"
  BY DestinationFacts DEF Destinations!Init, Destinations!NoConsent, Destinations!Consent
<1>5. \A c \in Actors : request[c] = Destinations!IdleErrand /\ watched[c] = Destinations!Unwatched
  BY DEF Destinations!Init
<1>6. request \in [Actors -> Destinations!Errand] /\ watched \in [Actors -> Destinations!Watched]
  BY DestinationFacts DEF Destinations!Init
<1>7. \A c \in Actors : FormFits(request[c]) /\ ResolutionFollows(request[c], watched[c])
  BY <1>5, DestinationFacts DEF FormFits, ResolutionFollows
<1>8. minute \in 0 .. MaxMinutes /\ requests \in 0 .. MaxDestinationErrands
  BY DestinationFacts DEF Destinations!Init
<1>9. mixed \in BOOLEAN /\ strayed \in BOOLEAN
  BY DEF Destinations!Init
<1>10. Destinations!DestinationsTypeOK
  BY <1>2, <1>3, <1>4, <1>6, <1>8, <1>9 DEF Destinations!Init, Destinations!DestinationsTypeOK, WellChosen
<1>11. reused = {} /\ used = {} /\ ~strayed
  BY DEF Destinations!Init
<1> QED
  BY <1>2, <1>3, <1>4, <1>7, <1>10, <1>11 DEF DestinationInv, Destinations!CredentialFitsMode

DestinationsInv == part = "destinations" => DestinationInv

LEMMA DestinationsKept == (Init => DestinationsInv) /\ (DestinationsInv /\ [Next]_vars => DestinationsInv')
<1>1. Init => DestinationsInv
  BY DestinationsStart DEF Init, DestinationsInv
<1>2. ASSUME DestinationsInv, [Next]_vars PROVE DestinationsInv'
  <2>1. part' = part
    BY <1>2 DEF Next, vars
  <2>2. SUFFICES ASSUME part = "destinations", DestinationInv PROVE DestinationInv'
    BY <1>2, <2>1 DEF DestinationsInv
  <2>3. CASE Destinations!Next
    <3>1. CASE Destinations!TimePasses
      <4>1. /\ minute' = minute + 1 /\ minute < MaxMinutes
            /\ UNCHANGED <<destination, outcome, selection, consents, used, reused, request, requests,
                           mixed, watched, strayed>>
        BY <3>1 DEF Destinations!TimePasses, Destinations!rows, Destinations!auth, Destinations!ghosts
      <4>2. minute' \in 0 .. MaxMinutes
        BY <2>2, <4>1, DestinationTypes, DestinationFacts
      <4>3. Destinations!DestinationsTypeOK'
        BY <2>2, <4>1, <4>2 DEF DestinationInv, Destinations!DestinationsTypeOK
      <4> QED
        BY <2>2, <4>1, <4>3 DEF DestinationInv, Destinations!CredentialFitsMode, FormFits, ResolutionFollows,
           ReadOf, WellChosen, Destinations!Allowed
    <3> QED
      BY <2>2, <2>3, <3>1, FormsKeepDestination, WritesKeepDestination, ChoiceKeepsDestination, OAuthKeepsDestination,
         ResolveKeepsDestination, ReadKeepsDestination, EndingKeepsDestination DEF Destinations!Next
  <2>4. CASE UNCHANGED destinations
    <3>1. UNCHANGED <<destination, outcome, selection, consents, request, minute, requests, used, reused,
                      mixed, watched, strayed>>
      BY <2>4 DEF destinations
    <3> QED
      BY <2>2, <3>1 DEF DestinationInv, Destinations!DestinationsTypeOK, Destinations!CredentialFitsMode,
         FormFits, ResolutionFollows, ReadOf, WellChosen, Destinations!Allowed
  <2> QED
    BY <1>2, <2>2, <2>3, <2>4 DEF Next, vars
<1> QED
  BY <1>1, <1>2

\* For any number of calls, authorizations and edits: a destination has the credential of
\* its mode unless a row was written over one it was not read from, an authorization is
\* used once and in time, and what a site resolves was enabled and chosen at some moment
\* since it began to look, unless two edits went by (save, completeOAuth, resolveForSite).
THEOREM DestinationsAreSound == Spec => []DestinationsSound
<1>1. DestinationsInv => DestinationsSound
  BY DestinationsFollow DEF DestinationsInv, DestinationsSound
<1> QED
  BY <1>1, DestinationsKept, PTL DEF Spec
=============================================================================
