--------------------------- MODULE FileTransfer ---------------------------
(***************************************************************************)
(* Files that clients upload and fetch: ReceiveFileControl::receive_file   *)
(* and SendFileControl::send_file with send_pfile and send_vfile.          *)
(*                                                                         *)
(* A file belongs to a subject: the user of a profile picture, a video, a  *)
(* video's preview or a chat message.  It is found through the suffix in a *)
(* row (of a chat message the client knows the whole name from the row).   *)
(* Pictures and previews are replaced under the same name; chat images and *)
(* videos get a fresh id and are written once; only the files of videos    *)
(* are ever removed.  Handlers share the files without any lock: opening   *)
(* for writing truncates, and stat and read are separate steps.  Every     *)
(* statement and every operation on a file may fail; no handler stops for  *)
(* it, except that a file which cannot be opened for reading is not sent.  *)
(***************************************************************************)
EXTENDS Integers, FiniteSets

CONSTANTS
  Subjects, Suffixes,
  Once,         \* chat images and videos: their name comes from nextId
  Videos,       \* subjects that can be deleted
  VideoOf,      \* the video of each preview
  Handlers,     \* threads that serve requests
  None,         \* no suffix, no subject
  MaxUploads,   \* bound on the uploads
  MaxFailures   \* bound on the failures

Previews == DOMAIN VideoOf

ASSUME FileAssumption ==
  /\ Videos \subseteq Once /\ Once \subseteq Subjects
  /\ Previews \subseteq Subjects \ Once
  /\ \A p \in Previews : VideoOf[p] \in Videos
  /\ None \notin Suffixes \cup Subjects
  /\ MaxUploads \in Nat /\ MaxFailures \in Nat

VARIABLES
  file,         \* what is stored under a name: the upload of that number, or see below
  row,          \* the suffix in the subject's row
  req,          \* the request each handler works on
  uploads,      \* number of uploads so far
  started,      \* history: subjects with an upload
  deletions,    \* history: subjects that somebody has asked to delete
  spoilt,       \* history: names whose latest uploads have overlapped or failed
  sent,         \* history: what the latest fetch has sent
  failed        \* history: <<operation, name of the file>> of what has failed

history == <<started, deletions, spoilt, sent, failed>>
vars    == <<file, row, req, uploads, history>>

NoFile == 0
Part   == -1      \* truncated for writing: empty, or a part of what is being written
Mixed  == -2      \* parts of one or several uploads
Names  == Subjects \X Suffixes

\* query, find, update and drop are statements; the others are on the file.
Operations == {"open", "write", "update", "query", "read", "find", "unlink", "drop"}

\* What the client gets: the file of one upload, a file that is none, the packet
\* that says "no file", or nothing at all.
Outcomes == {"whole", "torn", "none", "silence"}

\* write and update are steps of an upload, stat and read of a fetch, unlink and
\* drop of a deletion.  size stands for the file_size that stat has returned; calm
\* is history: nobody has touched the file since the fetch began, which has not failed.
Requests ==
  [at : {"idle", "write", "update", "stat", "read", "unlink", "drop"},
   subject : Subjects \cup {None}, suffix : Suffixes \cup {None},
   upload : 0..MaxUploads, size : Mixed..MaxUploads, calm : BOOLEAN]

Idle == [at |-> "idle", subject |-> None, suffix |-> None, upload |-> 0, size |-> NoFile, calm |-> FALSE]

\* The types of the variables.
TypeOK ==
  /\ file \in [Names -> Mixed..MaxUploads]
  /\ row \in [Subjects -> Suffixes \cup {None}]
  /\ req \in [Handlers -> Requests]
  /\ uploads \in 0..MaxUploads
  /\ started \subseteq Subjects /\ deletions \subseteq Videos /\ spoilt \subseteq Names
  /\ sent \in [subject : Subjects \cup {None}, outcome : Outcomes, calm : BOOLEAN]
  /\ failed \subseteq Operations \X (Subjects \X (Suffixes \cup {None}))

Init ==
  /\ file = [n \in Names |-> NoFile]
  /\ row = [s \in Subjects |-> None]
  /\ req = [h \in Handlers |-> Idle]
  /\ uploads = 0
  /\ started = {} /\ deletions = {} /\ spoilt = {} /\ failed = {}
  /\ sent = [subject |-> None, outcome |-> "none", calm |-> FALSE]

At(h, step) == req[h].at = step

\* The operation on the file n, or on the row that leads to it, fails.
Fails(op, n) ==
  /\ Cardinality(failed) < MaxFailures
  /\ failed' = failed \cup {<<op, n>>}

Name(h) == <<req[h].subject, req[h].suffix>>

\* Handlers that have opened the file n for writing.
Writers(n) == {h \in Handlers : At(h, "write") /\ Name(h) = n}

\* req becomes r, and fetches of the file n are disturbed.
Disturb(n, r) ==
  req' = [g \in Handlers |->
            IF r[g].at \in {"stat", "read"} /\ <<r[g].subject, r[g].suffix>> = n
            THEN [r[g] EXCEPT !.calm = FALSE] ELSE r[g]]

(***************************************************************************)
(* Upload: open, which truncates, then write, then one statement.          *)
(***************************************************************************)
\* Fresh ids: the name of a chat image or a video is nobody else's.
MayUpload(s) == uploads < MaxUploads /\ (s \in Once => s \notin started)

MutUpload(h, s, x) ==
  /\ At(h, "idle") /\ MayUpload(s)
  /\ uploads' = uploads + 1
  /\ started' = started \cup {s}
  /\ spoilt' = IF Writers(<<s, x>>) = {} THEN spoilt \ {<<s, x>>} ELSE spoilt \cup {<<s, x>>}
  /\ file' = [file EXCEPT ![<<s, x>>] = Part]
  /\ Disturb(<<s, x>>, [req EXCEPT ![h] =
       [Idle EXCEPT !.at = "write", !.subject = s, !.suffix = x, !.upload = uploads + 1]])
  /\ row' = [row EXCEPT ![s] = x]
  /\ UNCHANGED <<deletions, sent, failed>>

Upload(h, s, x) ==
  /\ At(h, "idle") /\ MayUpload(s)
  /\ uploads' = uploads + 1
  /\ started' = started \cup {s}
  /\ spoilt' = IF Writers(<<s, x>>) = {} THEN spoilt \ {<<s, x>>} ELSE spoilt \cup {<<s, x>>}
  /\ file' = [file EXCEPT ![<<s, x>>] = Part]
  /\ Disturb(<<s, x>>, [req EXCEPT ![h] =
       [Idle EXCEPT !.at = "write", !.subject = s, !.suffix = x, !.upload = uploads + 1]])
  /\ UNCHANGED <<row, deletions, sent, failed>>

\* Nobody looks at the state of the stream: the row is updated without a file.
OpenFails(h, s, x) ==
  /\ At(h, "idle") /\ MayUpload(s)
  /\ Fails("open", <<s, x>>)
  /\ uploads' = uploads + 1
  /\ started' = started \cup {s}
  /\ spoilt' = IF file[<<s, x>>] = NoFile THEN spoilt \cup {<<s, x>>} ELSE spoilt
  /\ req' = [req EXCEPT ![h] =
       [Idle EXCEPT !.at = "update", !.subject = s, !.suffix = x, !.upload = uploads + 1]]
  /\ UNCHANGED <<file, row, deletions, sent>>

\* The data go to the beginning of the file and do not truncate it again.
WriteFile(h) ==
  /\ At(h, "write")
  /\ \E data \in {req[h].upload} \cup
                 IF file[Name(h)] = Part /\ Writers(Name(h)) = {h} THEN {} ELSE {Mixed} :
       file' = [file EXCEPT ![Name(h)] = data]
  /\ Disturb(Name(h), [req EXCEPT ![h].at = "update"])
  /\ UNCHANGED <<row, uploads, history>>

\* The disk is full.
WriteFails(h) ==
  /\ At(h, "write") /\ Fails("write", Name(h))
  /\ \E data \in {Part, Mixed} : file' = [file EXCEPT ![Name(h)] = data]
  /\ spoilt' = spoilt \cup {Name(h)}
  /\ Disturb(Name(h), [req EXCEPT ![h].at = "update"])
  /\ UNCHANGED <<row, uploads, started, deletions, sent>>

\* The row that a statement about s finds: a preview's suffix is in its video's row.
HasRow(s) == s \in Previews => row[VideoOf[s]] # None

MutUpdateRow(h) ==
  /\ At(h, "update")
  /\ row' = [s \in Subjects |-> IF s = req[h].subject \/ row[s] # None THEN req[h].suffix ELSE row[s]]
  /\ req' = [req EXCEPT ![h] = Idle]
  /\ UNCHANGED <<file, uploads, history>>

UpdateRow(h) ==
  /\ At(h, "update")
  /\ \/ /\ row' = IF HasRow(req[h].subject) THEN [row EXCEPT ![req[h].subject] = req[h].suffix] ELSE row
        /\ UNCHANGED failed
     \/ Fails("update", Name(h)) /\ UNCHANGED row
  /\ req' = [req EXCEPT ![h] = Idle]
  /\ UNCHANGED <<file, uploads, started, deletions, spoilt, sent>>

(***************************************************************************)
(* Fetch: the suffix from the row, stat, open and read.                    *)
(***************************************************************************)
\* The file is not the one of a single upload, or has been removed without its row, or
\* is about to change.
Busy(n) ==
  n \in spoilt \/ <<"drop", n>> \in failed \/ \E g \in Handlers : req[g].at \in {"write", "unlink", "drop"} /\ Name(g) = n

MutFetch(h, s) ==
  LET x == row[IF s \in Previews THEN VideoOf[s] ELSE s] IN
  /\ At(h, "idle")
  /\ req' = [req EXCEPT ![h] =
       [Idle EXCEPT !.at = "stat", !.subject = s, !.suffix = x,
                    !.calm = row[s] # None /\ ~Busy(<<s, row[s]>>)]]
  /\ UNCHANGED <<file, row, uploads, history>>

Fetch(h, s) ==
  /\ At(h, "idle")
  /\ req' = [req EXCEPT ![h] =
       [Idle EXCEPT !.at = "stat", !.subject = s, !.suffix = row[s],
                    !.calm = row[s] # None /\ ~Busy(<<s, row[s]>>)]]
  /\ UNCHANGED <<file, row, uploads, history>>

\* The suffix stays empty.  The client itself names a chat image, without a query.
QueryFails(h, s) ==
  /\ At(h, "idle") /\ s \notin Once \ Videos
  /\ Fails("query", <<s, row[s]>>)
  /\ req' = [req EXCEPT ![h] = [Idle EXCEPT !.at = "stat", !.subject = s]]
  /\ UNCHANGED <<file, row, uploads, started, deletions, spoilt, sent>>

\* What is found under the name that is the id and the suffix, if there is one.
Stored(h) == IF req[h].suffix = None THEN NoFile ELSE file[Name(h)]

Send(h, outcome, calm) ==
  /\ sent' = [subject |-> req[h].subject, outcome |-> outcome, calm |-> calm]
  /\ req' = [req EXCEPT ![h] = Idle]

\* The size 0, of a file that has just been truncated, counts as no file.
Stat(h) ==
  /\ At(h, "stat")
  /\ \/ /\ Stored(h) \in {NoFile, Part}
        /\ Send(h, "none", req[h].calm)
     \/ /\ Stored(h) # NoFile
        /\ req' = [req EXCEPT ![h].at = "read", ![h].size = Stored(h)]
        /\ UNCHANGED sent
  /\ UNCHANGED <<file, row, uploads, started, deletions, spoilt, failed>>

\* If the file cannot be opened nothing is sent; else file_size bytes are, whatever
\* the file is like by now.
Outcome(h) ==
  CASE Stored(h) = NoFile -> "silence"
    [] Stored(h) = req[h].size /\ req[h].size > 0 -> "whole"
    [] OTHER -> "torn"

ReadFile(h) ==
  /\ At(h, "read")
  /\ \/ Send(h, Outcome(h), req[h].calm) /\ UNCHANGED failed
     \/ Send(h, "silence", FALSE) /\ Fails("read", Name(h))
  /\ UNCHANGED <<file, row, uploads, started, deletions, spoilt>>

(***************************************************************************)
(* Deletion of a video: suffix, file, row.                                 *)
(***************************************************************************)
Delete(h, s) ==
  /\ At(h, "idle") /\ s \in Videos
  /\ \E x \in {row[s], None} :
       /\ \/ x = row[s] /\ UNCHANGED failed
          \/ x = None /\ Fails("find", <<s, row[s]>>)
       /\ req' = [req EXCEPT ![h] =
            [Idle EXCEPT !.at = IF x = None THEN "drop" ELSE "unlink", !.subject = s, !.suffix = x]]
  /\ deletions' = deletions \cup {s}
  /\ UNCHANGED <<file, row, uploads, started, spoilt, sent>>

RemoveFile(h) ==
  /\ At(h, "unlink")
  /\ \/ file' = [file EXCEPT ![Name(h)] = NoFile] /\ UNCHANGED failed
     \/ Fails("unlink", Name(h)) /\ UNCHANGED file
  /\ Disturb(Name(h), [req EXCEPT ![h].at = "drop"])
  /\ UNCHANGED <<row, uploads, started, deletions, spoilt, sent>>

\* The preview's suffix goes with the row; its file stays.
DeleteRow(h) ==
  /\ At(h, "drop")
  /\ \/ /\ LET v == req[h].subject
               gone == {s \in Subjects : s = v \/ (s \in Previews /\ VideoOf[s] = v)}
           IN  row' = [s \in Subjects |-> IF s \in gone THEN None ELSE row[s]]
        /\ UNCHANGED failed
     \/ Fails("drop", Name(h)) /\ UNCHANGED row
  /\ req' = [req EXCEPT ![h] = Idle]
  /\ UNCHANGED <<file, uploads, started, deletions, spoilt, sent>>

---------------------------------------------------------------------------
Next ==
  \E h \in Handlers :
    \/ \E s \in Subjects :
         \/ Fetch(h, s) \/ QueryFails(h, s) \/ Delete(h, s)
         \/ \E x \in Suffixes : Upload(h, s, x) \/ OpenFails(h, s, x)
    \/ WriteFile(h) \/ WriteFails(h) \/ UpdateRow(h)
    \/ Stat(h) \/ ReadFile(h)
    \/ RemoveFile(h) \/ DeleteRow(h)

Spec == Init /\ [][Next]_vars

---------------------------------------------------------------------------
\* A suffix in a row leads to a file, unless a deletion that has removed the file is
\* about to drop the row, or failed to, or the file could not be opened for writing:
\* receive_file writes first and updates the row afterwards.
RowNamesFile ==
  \A s \in Subjects : row[s] # None =>
    LET n == <<s, row[s]>> IN
    \/ file[n] # NoFile
    \/ \E h \in Handlers : At(h, "drop") /\ req[h].subject = s
    \/ <<"open", n>> \in failed \/ <<"drop", n>> \in failed

\* A fetch that nobody disturbs and in which nothing fails sends the file of one
\* upload, if no uploads of the file have overlapped or failed since it was last
\* written by one alone, and no deletion has left its row behind.
CalmFetchWhole == sent.calm => sent.outcome = "whole"

\* Two bad answers have one cause each.  Chat images and videos, whose names are
\* fresh, are sent in part only if they could not be written: no row leads to them
\* before they are complete.  And send_pfile and send_vfile leave the client without
\* any answer only if somebody deletes the video or the file cannot be opened.
BadAnswerHasCause ==
  /\ sent.outcome = "torn" /\ sent.subject \in Once =>
       \E x \in Suffixes : <<sent.subject, x>> \in spoilt
  /\ sent.outcome = "silence" =>
       sent.subject \in deletions \/ \E x \in Suffixes : <<"read", <<sent.subject, x>>>> \in failed
===========================================================================
