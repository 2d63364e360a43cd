------------------------- MODULE FileTransferProofs -----------------------
(***************************************************************************)
(* Proofs about FileTransfer: for any subjects, suffixes, number of        *)
(* handlers, of uploads and of failures.                                   *)
(***************************************************************************)
EXTENDS FileTransfer, TLAPS

\* The file could not be opened for writing, and nobody has written it since.
Unopened(n) == <<"open", n>> \in failed /\ n \in spoilt

\* What a handler's step says of its request.
RequestOK(h) ==
  /\ req[h].at \in {"write", "update"} =>
       /\ req[h].subject \in started /\ req[h].suffix \in Suffixes /\ req[h].upload > 0
       /\ file[Name(h)] # NoFile \/ (At(h, "update") /\ Unopened(Name(h)))
  /\ req[h].at \in {"stat", "read"} => req[h].subject \in Subjects
  /\ req[h].at = "read" => req[h].suffix # None /\ req[h].size # NoFile
  /\ req[h].at \in {"unlink", "drop"} => req[h].subject \in deletions
  /\ req[h].at = "unlink" => req[h].suffix # None

RequestsOK == \A h \in Handlers : RequestOK(h)

\* Handlers between the opening of a file of s and the update of its row.
Uploading(h, s) == req[h].at \in {"write", "update"} /\ req[h].subject = s

\* Until the only upload of a chat image or a video has reached its row nobody else
\* knows the name of the file.
OnceHidden ==
  \A s \in Once :
    /\ s \notin started \/ (\E h \in Handlers : Uploading(h, s)) =>
         /\ row[s] = None
         /\ \A g \in Handlers :
              req[g].subject = s /\ req[g].at \notin {"idle", "write", "update"} => req[g].suffix = None
    /\ \A g, h \in Handlers : Uploading(g, s) /\ Uploading(h, s) => g = h

\* A file whose uploads have neither overlapped nor failed is whole or removed, and
\* a part while its writer is at work.
UnspoiltWhole ==
  \A n \in Names \ spoilt :
    /\ \A g, h \in Writers(n) : g = h
    /\ Writers(n) # {} => file[n] = Part
    /\ Writers(n) = {} => file[n] >= 0

\* RowNamesFile, with the deletion that is about to drop the very file of the row.
RowHasFileOrDrop ==
  \A s \in Subjects : row[s] # None =>
    \/ file[<<s, row[s]>>] # NoFile
    \/ \E h \in Handlers : At(h, "drop") /\ Name(h) = <<s, row[s]>>
    \/ <<"drop", <<s, row[s]>>>> \in failed \/ Unopened(<<s, row[s]>>)

\* What a fetch under way may rely on.
FetchOK(h) ==
  req[h].at \in {"stat", "read"} =>
    /\ req[h].at = "read" /\ file[Name(h)] = NoFile => req[h].subject \in deletions
    /\ req[h].calm => /\ req[h].suffix # None /\ file[Name(h)] > 0
                      /\ req[h].at = "read" => req[h].size = file[Name(h)]
    /\ req[h].at = "read" /\ req[h].subject \in Once /\ Name(h) \notin spoilt =>
         req[h].size > 0 /\ file[Name(h)] \in {req[h].size, NoFile}

FetchesOK == \A h \in Handlers : FetchOK(h)

\* The names of a subject that has not been uploaded are nobody's.
TornStarted == sent.outcome = "torn" /\ sent.subject \in Once => sent.subject \in started

SentOK == CalmFetchWhole /\ BadAnswerHasCause /\ TornStarted

FileInv ==
  /\ TypeOK /\ RequestsOK /\ OnceHidden /\ UnspoiltWhole /\ RowHasFileOrDrop /\ FetchesOK /\ SentOK
LEMMA IdleRequest == Idle \in Requests /\ Idle.at = "idle"
BY FileAssumption DEF Idle, Requests, NoFile, Mixed

LEMMA FileInit == Init => FileInv
<1> SUFFICES ASSUME Init PROVE FileInv
  OBVIOUS
<1>1. \A h \in Handlers : req[h] = Idle
  BY DEF Init
<1>3. TypeOK
  BY IdleRequest, FileAssumption DEF Init, TypeOK, NoFile, Mixed, Outcomes
<1>4. \A h \in Handlers : req[h].at = "idle"
  BY <1>1, IdleRequest
<1>5. RequestsOK /\ FetchesOK
  BY <1>4 DEF RequestsOK, RequestOK, FetchesOK, FetchOK
<1>6. OnceHidden
  BY <1>4, FileAssumption DEF Init, OnceHidden, Uploading
<1>7. UnspoiltWhole
  BY <1>4 DEF Init, UnspoiltWhole, Writers, At, NoFile
<1>8. RowHasFileOrDrop /\ SentOK
  BY DEF Init, RowHasFileOrDrop, SentOK, CalmFetchWhole, BadAnswerHasCause, TornStarted
<1> QED
  BY <1>3, <1>5, <1>6, <1>7, <1>8 DEF FileInv

LEMMA FetchKeeps ==
  ASSUME FileInv, NEW h \in Handlers, NEW s \in Subjects, Fetch(h, s)
  PROVE  FileInv'
<1> USE DEF FileInv
<1> DEFINE n == <<s, row[s]>>
<1>1. /\ req[h].at = "idle"
      /\ req'[h].at = "stat" /\ req'[h].subject = s /\ req'[h].suffix = row[s]
      /\ req'[h].calm = (row[s] # None /\ ~Busy(n))
      /\ \A g \in Handlers : g # h => req'[g] = req[g]
      /\ UNCHANGED <<file, row, uploads, history>>
  BY DEF Fetch, At, Idle, TypeOK
<1>2. TypeOK'
  <2> DEFINE c == row[s] # None /\ ~Busy(n)
  <2>0. /\ c \in BOOLEAN
        /\ req'[h] = [at |-> "stat", subject |-> s, suffix |-> row[s], upload |-> 0, size |-> 0, calm |-> c]
    BY DEF Fetch, TypeOK, Idle, NoFile
  <2> HIDE DEF c
  <2>1. req'[h] \in Requests
    BY <2>0, FileAssumption DEF TypeOK, Requests, Mixed
  <2>2. req' \in [Handlers -> Requests]
    BY <2>1, <1>1 DEF Fetch, TypeOK
  <2> QED
    BY <1>1, <2>2 DEF TypeOK, history
<1>3. RequestsOK'
  BY <1>1 DEF RequestsOK, RequestOK, Unopened, At, Name, history
<1>4. OnceHidden'
  BY <1>1 DEF OnceHidden, Uploading, history
<1>5. \A m : Writers(m)' = Writers(m)
  BY <1>1 DEF Writers, At, Name
<1>6. UnspoiltWhole'
  BY <1>1, <1>5 DEF UnspoiltWhole, history
<1>7. RowHasFileOrDrop'
  <2>1. \A g \in Handlers : At(g, "drop") => At(g, "drop")' /\ Name(g)' = Name(g)
    BY <1>1 DEF At, Name
  <2> QED
    BY <1>1, <2>1 DEF RowHasFileOrDrop, Unopened, history
<1>8. FetchOK(h)'
  <2>1. Name(h)' = n
    BY <1>1 DEF Name
  <2>3. ASSUME row[s] # None, ~Busy(n) PROVE file[n] > 0
    <3>1. n \in Names \ spoilt /\ <<"drop", n>> \notin failed /\ \A g \in Handlers : req[g].at \in {"write", "drop"} => Name(g) # n
      BY <2>3 DEF Busy, Names, TypeOK
    <3>2. Writers(n) = {}
      BY <3>1 DEF Writers, At
    <3>3. file[n] >= 0
      BY <3>1, <3>2 DEF UnspoiltWhole
    <3>4. file[n] # NoFile
      BY <2>3, <3>1 DEF RowHasFileOrDrop, Unopened, At
    <3> QED
      BY <3>1, <3>3, <3>4 DEF TypeOK, NoFile, Mixed
  <2> QED
    BY <1>1, <2>1, <2>3 DEF FetchOK, history
<1>9. FetchesOK'
  BY <1>1, <1>8 DEF FetchesOK, FetchOK, Name, history
<1>10. SentOK'
  BY <1>1 DEF SentOK, CalmFetchWhole, BadAnswerHasCause, TornStarted, history
<1> QED
  BY <1>2, <1>3, <1>4, <1>6, <1>7, <1>9, <1>10
\* A fetch whose query fails goes on without a suffix.
LEMMA FailedQueryKeeps ==
  ASSUME FileInv, NEW h \in Handlers, NEW s \in Subjects, QueryFails(h, s)
  PROVE  FileInv'
<1> USE DEF FileInv
<1>1. /\ req[h].at = "idle"
      /\ req'[h].at = "stat" /\ req'[h].subject = s /\ req'[h].suffix = None /\ req'[h].calm = FALSE
      /\ \A g \in Handlers : g # h => req'[g] = req[g]
      /\ UNCHANGED <<file, row, uploads, started, deletions, spoilt, sent>>
  BY DEF QueryFails, At, Idle, TypeOK
<1>2. /\ failed \subseteq failed'
      /\ failed' \subseteq Operations \X (Subjects \X (Suffixes \cup {None}))
  BY DEF QueryFails, Fails, TypeOK, Operations
<1>3. TypeOK'
  <2>1. [Idle EXCEPT !.at = "stat", !.subject = s] \in Requests
    BY IdleRequest DEF Requests
  <2>2. req' \in [Handlers -> Requests]
    BY <2>1 DEF QueryFails, TypeOK
  <2> QED
    BY <1>1, <1>2, <2>2 DEF TypeOK
<1>4. RequestsOK'
  BY <1>1, <1>2 DEF RequestsOK, RequestOK, Unopened, At, Name
<1>5. OnceHidden'
  BY <1>1 DEF OnceHidden, Uploading
<1>6. \A m : Writers(m)' = Writers(m)
  BY <1>1 DEF Writers, At, Name
<1>7. UnspoiltWhole'
  BY <1>1, <1>6 DEF UnspoiltWhole
<1>8. RowHasFileOrDrop'
  <2>1. \A g \in Handlers : At(g, "drop") => At(g, "drop")' /\ Name(g)' = Name(g)
    BY <1>1 DEF At, Name
  <2> QED
    BY <1>1, <1>2, <2>1 DEF RowHasFileOrDrop, Unopened
<1>9. FetchesOK'
  BY <1>1 DEF FetchesOK, FetchOK, Name
<1>10. SentOK'
  BY <1>1, <1>2 DEF SentOK, CalmFetchWhole, BadAnswerHasCause, TornStarted
<1> QED
  BY <1>3, <1>4, <1>5, <1>7, <1>8, <1>9, <1>10

LEMMA DeleteKeeps ==
  ASSUME FileInv, NEW h \in Handlers, NEW s \in Subjects, Delete(h, s)
  PROVE  FileInv'
<1> USE DEF FileInv
<1>1. PICK x \in {row[s], None} :
        /\ UNCHANGED failed \/ Fails("find", <<s, row[s]>>)
        /\ req' = [req EXCEPT ![h] =
             [Idle EXCEPT !.at = IF x = None THEN "drop" ELSE "unlink", !.subject = s, !.suffix = x]]
  BY DEF Delete
<1> DEFINE q == [Idle EXCEPT !.at = IF x = None THEN "drop" ELSE "unlink", !.subject = s, !.suffix = x]
<1>2. /\ q \in Requests /\ q.at = (IF x = None THEN "drop" ELSE "unlink")
      /\ q.subject = s /\ q.suffix = x
  BY <1>1, IdleRequest DEF Requests, TypeOK
<1> HIDE DEF q
<1>3. /\ req[h].at = "idle" /\ s \in Videos /\ req' \in [Handlers -> Requests] /\ req'[h] = q
      /\ \A g \in Handlers : g # h => req'[g] = req[g]
      /\ deletions' = deletions \cup {s}
      /\ UNCHANGED <<file, row, uploads, started, spoilt, sent>>
  BY <1>1, <1>2 DEF Delete, At, TypeOK, q
<1>4. /\ failed \subseteq failed'
      /\ failed' \subseteq Operations \X (Subjects \X (Suffixes \cup {None}))
  BY <1>1 DEF Fails, TypeOK, Operations
<1>5. TypeOK'
  BY <1>3, <1>4 DEF TypeOK
<1>6. RequestsOK'
  BY <1>2, <1>3, <1>4 DEF RequestsOK, RequestOK, Unopened, At, Name
<1>7. OnceHidden'
  BY <1>1, <1>2, <1>3 DEF OnceHidden, Uploading
<1>8. \A m : Writers(m)' = Writers(m)
  BY <1>2, <1>3 DEF Writers, At, Name
<1>9. UnspoiltWhole'
  BY <1>3, <1>8 DEF UnspoiltWhole
<1>10. RowHasFileOrDrop'
  <2>1. \A g \in Handlers : At(g, "drop") => At(g, "drop")' /\ Name(g)' = Name(g)
    BY <1>3 DEF At, Name
  <2> QED
    BY <1>3, <1>4, <2>1 DEF RowHasFileOrDrop, Unopened
<1>11. FetchesOK'
  BY <1>2, <1>3 DEF FetchesOK, FetchOK, Name
<1>12. SentOK'
  BY <1>3, <1>4 DEF SentOK, CalmFetchWhole, BadAnswerHasCause, TornStarted
<1> QED
  BY <1>5, <1>6, <1>7, <1>9, <1>10, <1>11, <1>12

LEMMA UpdateRowKeeps ==
  ASSUME FileInv, NEW h \in Handlers, UpdateRow(h)
  PROVE  FileInv'
<1> USE DEF FileInv
<1> DEFINE s == req[h].subject
           x == req[h].suffix
<1>1. /\ req[h].at = "update" /\ s \in started /\ s \in Subjects /\ x \in Suffixes
      /\ file[<<s, x>>] # NoFile \/ Unopened(<<s, x>>)
      /\ req'[h].at = "idle" /\ req' \in [Handlers -> Requests]
      /\ \A g \in Handlers : g # h => req'[g] = req[g]
      /\ UNCHANGED <<file, uploads, started, deletions, spoilt, sent>>
  BY IdleRequest DEF UpdateRow, At, TypeOK, RequestsOK, RequestOK, Name
<1>0. /\ failed \subseteq failed'
      /\ failed' \subseteq Operations \X (Subjects \X (Suffixes \cup {None}))
  BY <1>1 DEF UpdateRow, Fails, TypeOK, Operations, Name
<1>2. /\ row' \in [Subjects -> Suffixes \cup {None}]
      /\ \A t \in Subjects : row'[t] = row[t] \/ (t = s /\ row'[t] = x)
  <2>1. row \in [Subjects -> Suffixes \cup {None}]
    BY DEF TypeOK
  <2>2. row' = [row EXCEPT ![s] = x] \/ row' = row
    BY DEF UpdateRow
  <2> QED
    BY <2>1, <2>2, <1>1
<1>3. TypeOK'
  BY <1>0, <1>1, <1>2 DEF TypeOK
<1>4. RequestsOK'
  BY <1>0, <1>1 DEF RequestsOK, RequestOK, Unopened, At, Name
<1>5. OnceHidden'
  <2> SUFFICES ASSUME NEW t \in Once
               PROVE  /\ t \notin started \/ (\E g \in Handlers : Uploading(g, t)') =>
                           /\ row'[t] = None
                           /\ \A g \in Handlers :
                                req'[g].subject = t /\ req'[g].at \notin {"idle", "write", "update"}
                                  => req'[g].suffix = None
                      /\ \A f, g \in Handlers : Uploading(f, t)' /\ Uploading(g, t)' => f = g
    BY <1>1 DEF OnceHidden
  <2>1. \A g \in Handlers : Uploading(g, t)' => g # h /\ Uploading(g, t)
    BY <1>1 DEF Uploading
  <2>2. CASE t = s
    <3>1. Uploading(h, t)
      BY <1>1, <2>2 DEF Uploading
    <3>2. \A g \in Handlers : ~Uploading(g, t)'
      BY <2>1, <3>1 DEF OnceHidden
    <3> QED
      BY <1>1, <2>2, <3>2
  <2>3. CASE t # s
    BY <1>1, <1>2, <2>1, <2>3, FileAssumption DEF OnceHidden
  <2> QED
    BY <2>2, <2>3
<1>6. \A m : Writers(m)' = Writers(m)
  BY <1>1 DEF Writers, At, Name
<1>7. UnspoiltWhole'
  BY <1>1, <1>6 DEF UnspoiltWhole
<1>8. RowHasFileOrDrop'
  <2>1. \A g \in Handlers : At(g, "drop") => At(g, "drop")' /\ Name(g)' = Name(g)
    BY <1>1 DEF At, Name
  <2> QED
    BY <1>0, <1>1, <1>2, <2>1 DEF RowHasFileOrDrop, Unopened
<1>9. FetchesOK'
  BY <1>1 DEF FetchesOK, FetchOK, Name
<1>10. SentOK'
  BY <1>0, <1>1 DEF SentOK, CalmFetchWhole, BadAnswerHasCause, TornStarted
<1> QED
  BY <1>3, <1>4, <1>5, <1>7, <1>8, <1>9, <1>10

LEMMA DeleteRowKeeps ==
  ASSUME FileInv, NEW h \in Handlers, DeleteRow(h)
  PROVE  FileInv'
<1> USE DEF FileInv
<1> DEFINE s == req[h].subject
<1>1. /\ req[h].at = "drop"
      /\ req'[h].at = "idle" /\ req' \in [Handlers -> Requests]
      /\ \A g \in Handlers : g # h => req'[g] = req[g]
      /\ UNCHANGED <<file, uploads, started, deletions, spoilt, sent>>
  BY IdleRequest DEF DeleteRow, At, TypeOK
<1>0. /\ failed \subseteq failed'
      /\ failed' \subseteq Operations \X (Subjects \X (Suffixes \cup {None}))
  <2>1. s \in Subjects /\ req[h].suffix \in Suffixes \cup {None}
    BY <1>1, FileAssumption DEF RequestsOK, RequestOK, TypeOK, Requests
  <2> QED
    BY <2>1 DEF DeleteRow, Fails, TypeOK, Operations, Name
<1>2. /\ row' \in [Subjects -> Suffixes \cup {None}]
      /\ \A t \in Subjects :
           row'[t] = None \/ (row'[t] = row[t] /\ (t = s => <<"drop", Name(h)>> \in failed'))
  BY <1>1 DEF DeleteRow, TypeOK, Fails
<1>3. TypeOK'
  BY <1>0, <1>1, <1>2 DEF TypeOK
<1>4. RequestsOK'
  BY <1>0, <1>1 DEF RequestsOK, RequestOK, Unopened, At, Name
<1>5. OnceHidden'
  <2>1. \A t \in Once : row[t] = None => row'[t] = None
    BY <1>2, FileAssumption
  <2> QED
    BY <1>1, <2>1 DEF OnceHidden, Uploading
<1>6. \A m : Writers(m)' = Writers(m)
  BY <1>1 DEF Writers, At, Name
<1>7. UnspoiltWhole'
  BY <1>1, <1>6 DEF UnspoiltWhole
<1>8. RowHasFileOrDrop'
  <2>1. \A g \in Handlers : At(g, "drop") /\ g # h => At(g, "drop")' /\ Name(g)' = Name(g)
    BY <1>1 DEF At, Name
  <2>2. \A t \in Subjects : Name(h) = <<t, row[t]>> => t = s
    BY DEF Name
  <2> QED
    BY <1>0, <1>1, <1>2, <2>1, <2>2 DEF RowHasFileOrDrop, Unopened
<1>9. FetchesOK'
  BY <1>1 DEF FetchesOK, FetchOK, Name
<1>10. SentOK'
  BY <1>0, <1>1 DEF SentOK, CalmFetchWhole, BadAnswerHasCause, TornStarted
<1> QED
  BY <1>3, <1>4, <1>5, <1>7, <1>8, <1>9, <1>10
\* A fetch ends, with an answer that FetchOK justifies.
LEMMA AnswerKeeps ==
  ASSUME FileInv, NEW h \in Handlers, NEW outcome \in Outcomes, NEW calm \in BOOLEAN, req[h].at \in {"stat", "read"},
         Send(h, outcome, calm), UNCHANGED <<file, row, uploads, started, deletions, spoilt>>,
         failed \subseteq failed',
         failed' \subseteq Operations \X (Subjects \X (Suffixes \cup {None})),
         calm => outcome = "whole",
         outcome = "silence" =>
           req[h].subject \in deletions \/ \E x \in Suffixes : <<"read", <<req[h].subject, x>>>> \in failed',
         outcome = "torn" /\ req[h].subject \in Once =>
           req[h].subject \in started /\ \E x \in Suffixes : <<req[h].subject, x>> \in spoilt
  PROVE  FileInv'
<1> USE DEF FileInv
<1>1. /\ req'[h].at = "idle" /\ req' \in [Handlers -> Requests]
      /\ \A g \in Handlers : g # h => req'[g] = req[g]
      /\ sent' = [subject |-> req[h].subject, outcome |-> outcome, calm |-> calm]
  BY IdleRequest DEF Send, TypeOK
<1>2. TypeOK'
  <2>1. req[h].subject \in Subjects \cup {None}
    BY DEF TypeOK, Requests
  <2> QED
    BY <1>1, <2>1 DEF TypeOK
<1>3. RequestsOK'
  BY <1>1 DEF RequestsOK, RequestOK, Unopened, At, Name
<1>4. OnceHidden'
  BY <1>1 DEF OnceHidden, Uploading
<1>5. \A m : Writers(m)' = Writers(m)
  BY <1>1 DEF Writers, At, Name
<1>6. UnspoiltWhole'
  BY <1>5 DEF UnspoiltWhole
<1>7. RowHasFileOrDrop'
  <2>1. \A g \in Handlers : At(g, "drop") => At(g, "drop")' /\ Name(g)' = Name(g)
    BY <1>1 DEF At, Name
  <2> QED
    BY <2>1 DEF RowHasFileOrDrop, Unopened
<1>8. FetchesOK'
  BY <1>1 DEF FetchesOK, FetchOK, Name
<1>9. SentOK'
  BY <1>1 DEF SentOK, CalmFetchWhole, BadAnswerHasCause, TornStarted
<1> QED
  BY <1>2, <1>3, <1>4, <1>6, <1>7, <1>8, <1>9

\* Whoever fetches a chat image or a video by its suffix does so after the upload.
LEMMA OnceFetchedAfterUpload ==
  ASSUME FileInv, NEW h \in Handlers, req[h].at \in {"stat", "read", "unlink"},
         req[h].subject \in Once, req[h].suffix # None
  PROVE  /\ req[h].subject \in started
         /\ \A g \in Handlers : ~Uploading(g, req[h].subject)
         /\ Writers(Name(h)) = {}
<1>1. /\ req[h].subject \in started
      /\ \A g \in Handlers : ~Uploading(g, req[h].subject)
  BY DEF FileInv, OnceHidden
<1>2. \A g \in Handlers : g \in Writers(Name(h)) => Uploading(g, req[h].subject)
  BY DEF Writers, At, Name, Uploading
<1> QED
  BY <1>1, <1>2 DEF Writers

LEMMA StatKeeps ==
  ASSUME FileInv, NEW h \in Handlers, Stat(h)
  PROVE  FileInv'
<1> USE DEF FileInv
<1>1. req[h].at = "stat" /\ UNCHANGED <<file, row, uploads, started, deletions, spoilt, failed>>
  BY DEF Stat, At
<1>2. CASE Stored(h) \in {NoFile, Part} /\ Send(h, "none", req[h].calm)
  <2>1. ~req[h].calm
    BY <1>1, <1>2 DEF FetchesOK, FetchOK, Stored, NoFile, Part
  <2> QED
    BY <1>1, <1>2, <2>1, AnswerKeeps DEF Outcomes, TypeOK, Requests
<1>3. CASE /\ Stored(h) # NoFile /\ sent' = sent
           /\ req' = [req EXCEPT ![h].at = "read", ![h].size = Stored(h)]
  <2>1. req[h].suffix \in Suffixes /\ req[h].subject \in Subjects /\ Name(h) \in Names
    BY <1>1, <1>3 DEF Stored, TypeOK, Requests, RequestsOK, RequestOK, Name, Names
  <2>2. Stored(h) = file[Name(h)] /\ Stored(h) \in Mixed..MaxUploads
    BY <1>3, <2>1, FileAssumption DEF Stored, TypeOK
  <2>3. /\ req'[h].at = "read" /\ req'[h].size = file[Name(h)] /\ req'[h].suffix = req[h].suffix
        /\ req'[h].subject = req[h].subject /\ req'[h].calm = req[h].calm
        /\ req' \in [Handlers -> Requests]
        /\ \A g \in Handlers : g # h => req'[g] = req[g]
    <3>1. req \in [Handlers -> Requests] /\ req[h] \in Requests
      BY DEF TypeOK
    <3>2. req' = [req EXCEPT ![h] = [req[h] EXCEPT !.at = "read", !.size = Stored(h)]]
      BY <1>3, <3>1
    <3>3. [req[h] EXCEPT !.at = "read", !.size = Stored(h)] \in Requests
      BY <2>2, <3>1 DEF Requests
    <3> QED
      BY <2>2, <3>1, <3>2, <3>3 DEF Requests
  <2>4. TypeOK'
    BY <1>1, <1>3, <2>3 DEF TypeOK
  <2>5. RequestsOK'
    BY <1>1, <1>3, <2>1, <2>2, <2>3, FileAssumption DEF RequestsOK, RequestOK, Unopened, At, Name
  <2>6. OnceHidden'
    BY <1>1, <2>3 DEF OnceHidden, Uploading
  <2>7. \A m : Writers(m)' = Writers(m)
    BY <1>1, <2>3 DEF Writers, At, Name
  <2>8. UnspoiltWhole'
    BY <1>1, <2>7 DEF UnspoiltWhole
  <2>9. RowHasFileOrDrop'
    <3>1. \A g \in Handlers : At(g, "drop") => At(g, "drop")' /\ Name(g)' = Name(g)
      BY <1>1, <2>3 DEF At, Name
    <3> QED
      BY <1>1, <3>1 DEF RowHasFileOrDrop, Unopened
  <2>10. FetchOK(h)'
    <3>1. ASSUME req[h].subject \in Once, Name(h) \notin spoilt PROVE file[Name(h)] > 0
      <4>1. Writers(Name(h)) = {}
        BY <1>1, <2>1, <3>1, OnceFetchedAfterUpload, FileAssumption
      <4> QED
        BY <1>3, <2>1, <2>2, <3>1, <4>1 DEF UnspoiltWhole, NoFile, Mixed
    <3>2. Name(h)' = Name(h)
      BY <2>3 DEF Name
    <3> QED
      BY <1>1, <1>3, <2>2, <2>3, <3>1, <3>2 DEF FetchOK, FetchesOK
  <2>11. FetchesOK'
    BY <1>1, <2>3, <2>10 DEF FetchesOK, FetchOK, Name
  <2>12. SentOK'
    BY <1>1, <1>3 DEF SentOK, CalmFetchWhole, BadAnswerHasCause, TornStarted
  <2> QED
    BY <2>4, <2>5, <2>6, <2>8, <2>9, <2>11, <2>12
<1> QED
  BY <1>2, <1>3 DEF Stat

LEMMA ReadFileKeeps ==
  ASSUME FileInv, NEW h \in Handlers, ReadFile(h)
  PROVE  FileInv'
<1> USE DEF FileInv
<1>1. /\ req[h].at = "read"
      /\ UNCHANGED <<file, row, uploads, started, deletions, spoilt>>
  BY DEF ReadFile, At
<1>2. /\ req[h].suffix # None /\ req[h].suffix \in Suffixes /\ req[h].subject \in Subjects
      /\ Stored(h) = file[Name(h)]
  BY <1>1 DEF RequestsOK, RequestOK, TypeOK, Requests, Stored
<1>3. /\ Outcome(h) \in Outcomes
      /\ Outcome(h) = "silence" => Stored(h) = NoFile
      /\ Stored(h) = req[h].size /\ req[h].size > 0 => Outcome(h) = "whole"
      /\ Outcome(h) = "torn" => Stored(h) # NoFile /\ ~(Stored(h) = req[h].size /\ req[h].size > 0)
  BY DEF Outcome, Outcomes, NoFile
<1>4. req[h].calm => Outcome(h) = "whole"
  BY <1>1, <1>2, <1>3 DEF FetchesOK, FetchOK
<1>5. Outcome(h) = "silence" => req[h].subject \in deletions
  BY <1>1, <1>2, <1>3 DEF FetchesOK, FetchOK
<1>6. ASSUME Outcome(h) = "torn", req[h].subject \in Once
      PROVE  req[h].subject \in started /\ Name(h) \in spoilt
  <2>1. Name(h) \in spoilt
    BY <1>1, <1>2, <1>3, <1>6 DEF FetchesOK, FetchOK
  <2> QED
    BY <1>1, <1>2, <1>6, <2>1, OnceFetchedAfterUpload
<1>7. Outcome(h) = "torn" /\ req[h].subject \in Once =>
        req[h].subject \in started /\ \E x \in Suffixes : <<req[h].subject, x>> \in spoilt
  BY <1>2, <1>6 DEF Name
<1>8. CASE Send(h, Outcome(h), req[h].calm) /\ UNCHANGED failed
  BY <1>1, <1>3, <1>4, <1>5, <1>7, <1>8, AnswerKeeps DEF TypeOK, Requests
<1>9. CASE Send(h, "silence", FALSE) /\ Fails("read", Name(h))
  <2>1. /\ failed \subseteq failed' /\ <<"read", <<req[h].subject, req[h].suffix>>>> \in failed'
        /\ failed' \subseteq Operations \X (Subjects \X (Suffixes \cup {None}))
    BY <1>2, <1>9 DEF Fails, TypeOK, Operations, Name
  <2> QED
    BY <1>1, <1>2, <1>9, <2>1, AnswerKeeps DEF Outcomes
<1> QED
  BY <1>8, <1>9 DEF ReadFile
\* The request of g after a step that disturbs the fetches of n, if it was to be r.
Disturbed(g, n, r) ==
  /\ req'[g].at = r.at /\ req'[g].subject = r.subject /\ req'[g].suffix = r.suffix
  /\ req'[g].upload = r.upload /\ req'[g].size = r.size
  /\ req'[g].calm => r.calm /\ ~(r.at \in {"stat", "read"} /\ <<r.subject, r.suffix>> = n)

LEMMA DisturbLeavesRest ==
  ASSUME NEW r \in [Handlers -> Requests], NEW n, Disturb(n, r)
  PROVE  req' \in [Handlers -> Requests] /\ \A g \in Handlers : Disturbed(g, n, r[g])
<1>1. \A q \in Requests : [q EXCEPT !.calm = FALSE] \in Requests
  BY DEF Requests
<1>2. req' \in [Handlers -> Requests]
  BY <1>1 DEF Disturb
<1>3. ASSUME NEW g \in Handlers PROVE Disturbed(g, n, r[g])
  <2>1. CASE r[g].at \in {"stat", "read"} /\ <<r[g].subject, r[g].suffix>> = n
    <3>1. req'[g] = [r[g] EXCEPT !.calm = FALSE]
      BY <2>1 DEF Disturb
    <3>2. r[g] \in Requests
      OBVIOUS
    <3> QED
      BY <3>1, <3>2 DEF Disturbed, Requests
  <2>2. CASE ~(r[g].at \in {"stat", "read"} /\ <<r[g].subject, r[g].suffix>> = n)
    <3>1. req'[g] = r[g]
      BY <2>2 DEF Disturb
    <3> QED
      BY <2>2, <3>1 DEF Disturbed
  <2> QED
    BY <2>1, <2>2
<1> QED
  BY <1>2, <1>3

\* The handler h goes from one step to the next; the fetches of its file are disturbed.
LEMMA StepDisturbs ==
  ASSUME TypeOK, NEW h \in Handlers, NEW next \in {"update", "drop"},
         Disturb(Name(h), [req EXCEPT ![h].at = next])
  PROVE  /\ req' \in [Handlers -> Requests]
         /\ req'[h].at = next /\ req'[h].subject = req[h].subject
         /\ req'[h].suffix = req[h].suffix /\ req'[h].upload = req[h].upload
         /\ \A g \in Handlers : g # h => Disturbed(g, Name(h), req[g])
<1> DEFINE r == [req EXCEPT ![h] = [req[h] EXCEPT !.at = next]]
<1>1. req \in [Handlers -> Requests] /\ req[h] \in Requests
  BY DEF TypeOK
<1>2. [req[h] EXCEPT !.at = next] \in Requests
  BY <1>1 DEF Requests
<1>3. r \in [Handlers -> Requests] /\ Disturb(Name(h), r)
  BY <1>1, <1>2
<1>4. /\ r[h].at = next /\ r[h].subject = req[h].subject
      /\ r[h].suffix = req[h].suffix /\ r[h].upload = req[h].upload
      /\ \A g \in Handlers : g # h => r[g] = req[g]
  BY <1>1 DEF Requests
<1> HIDE DEF r
<1>5. req' \in [Handlers -> Requests] /\ \A g \in Handlers : Disturbed(g, Name(h), r[g])
  BY <1>3, DisturbLeavesRest
<1> QED
  BY <1>4, <1>5 DEF Disturbed

\* Fetches of other files than the one that is written or removed.
LEMMA OtherFetchKeeps ==
  ASSUME FileInv, NEW g \in Handlers, NEW n, Name(g) # n, Disturbed(g, n, req[g]),
         \A m \in Names : m # n => file'[m] = file[m] /\ (m \in spoilt' <=> m \in spoilt),
         deletions' = deletions
  PROVE  FetchOK(g)'
<1> USE DEF FileInv
<1>1. /\ req'[g].calm => req[g].calm
      /\ req'[g].size = req[g].size /\ Name(g)' = Name(g) /\ req'[g].at = req[g].at
      /\ req'[g].subject = req[g].subject /\ req'[g].suffix = req[g].suffix
  BY DEF Disturbed, Name
<1> SUFFICES ASSUME req[g].at \in {"stat", "read"} PROVE FetchOK(g)'
  BY <1>1 DEF FetchOK
<1>2. /\ req[g].subject \in Subjects
      /\ req[g].at = "read" => req[g].suffix # None
      /\ req[g].suffix # None => Name(g) \in Names
  BY DEF RequestsOK, RequestOK, TypeOK, Requests, Name, Names
<1>3. /\ req[g].suffix # None => file'[Name(g)] = file[Name(g)] /\ (Name(g) \in spoilt' <=> Name(g) \in spoilt)
      /\ FetchOK(g)
  BY <1>2 DEF FetchesOK
<1>4. /\ req[g].at = "read" /\ file'[Name(g)] = NoFile => req[g].subject \in deletions
      /\ req[g].calm => /\ req[g].suffix # None /\ file'[Name(g)] > 0
                        /\ req[g].at = "read" => req[g].size = file'[Name(g)]
      /\ req[g].at = "read" /\ req[g].subject \in Once /\ Name(g) \notin spoilt' =>
           req[g].size > 0 /\ file'[Name(g)] \in {req[g].size, NoFile}
  BY <1>2, <1>3 DEF FetchOK
<1> QED
  BY <1>1, <1>4 DEF FetchOK

\* Both ways in which a write can end.
LEMMA WriteKeeps ==
  ASSUME FileInv, NEW h \in Handlers, NEW data \in Mixed..MaxUploads, At(h, "write"),
         file' = [file EXCEPT ![Name(h)] = data], data # NoFile,
         spoilt' \in {spoilt, spoilt \cup {Name(h)}},
         Name(h) \notin spoilt' => data > 0,
         Disturb(Name(h), [req EXCEPT ![h].at = "update"]),
         failed \subseteq failed',
         failed' \subseteq Operations \X (Subjects \X (Suffixes \cup {None})),
         UNCHANGED <<row, uploads, started, deletions, sent>>
  PROVE  FileInv'
<1> USE DEF FileInv
<1> DEFINE n == Name(h)
<1>1. /\ req[h].at = "write" /\ req[h].subject \in started /\ req[h].subject \in Subjects
      /\ req[h].suffix \in Suffixes /\ req[h].upload > 0 /\ n \in Names
  BY DEF At, RequestsOK, RequestOK, TypeOK, Name, Names
<1>2. /\ req' \in [Handlers -> Requests]
      /\ req'[h].at = "update" /\ req'[h].subject = req[h].subject
      /\ req'[h].suffix = req[h].suffix /\ req'[h].upload = req[h].upload
      /\ \A g \in Handlers : g # h => Disturbed(g, n, req[g])
  BY StepDisturbs
<1>3. \A g \in Handlers :
        /\ Name(g)' = Name(g)
        /\ g # h => req'[g].at = req[g].at
        /\ req'[g].subject = req[g].subject /\ req'[g].suffix = req[g].suffix
        /\ req'[g].upload = req[g].upload
  BY <1>2 DEF Disturbed, Name
<1>4. /\ file' \in [Names -> Mixed..MaxUploads] /\ file'[n] = data
      /\ \A m \in Names : m # n => file'[m] = file[m]
      /\ \A m \in Names : file[m] # NoFile => file'[m] # NoFile
  BY <1>1 DEF TypeOK
<1>5. TypeOK'
  BY <1>1, <1>2, <1>4 DEF TypeOK
<1>6. RequestsOK'
  <2> SUFFICES ASSUME NEW g \in Handlers PROVE RequestOK(g)'
    BY DEF RequestsOK
  <2>1. RequestOK(g)
    BY DEF RequestsOK
  <2>2. req[g].at \in {"write", "update"} => Name(g) \in Names
    BY <2>1 DEF RequestOK, Name, Names, TypeOK
  <2>3. CASE g = h
    BY <1>1, <1>2, <1>3, <1>4, <2>3 DEF RequestOK
  <2>4. CASE g # h
    BY <1>2, <1>3, <1>4, <2>1, <2>2, <2>4 DEF RequestOK, Unopened, At, Disturbed
  <2> QED
    BY <2>3, <2>4
<1>7. \A g \in Handlers : \A t : Uploading(g, t)' <=> Uploading(g, t)
  BY <1>1, <1>2, <1>3 DEF Uploading
<1>8. OnceHidden'
  BY <1>1, <1>2, <1>3, <1>7 DEF OnceHidden
<1>9. UnspoiltWhole'
  <2> SUFFICES ASSUME NEW m \in Names, m \notin spoilt'
               PROVE  /\ \A f, g \in Writers(m)' : f = g
                      /\ Writers(m)' # {} => file'[m] = Part
                      /\ Writers(m)' = {} => file'[m] >= 0
    BY DEF UnspoiltWhole
  <2>1. Writers(m)' = Writers(m) \ {h}
    BY <1>1, <1>2, <1>3 DEF Writers, At
  <2>2. m \notin spoilt
    OBVIOUS
  <2>3. CASE m = n
    <3>1. h \in Writers(n)
      BY <1>1 DEF Writers, At
    <3>2. Writers(m)' = {}
      BY <2>1, <2>2, <2>3, <3>1 DEF UnspoiltWhole
    <3> QED
      BY <2>3, <3>2, <1>4 DEF Mixed
  <2>4. CASE m # n
    <3>1. Writers(m)' = Writers(m)
      BY <2>1, <2>4 DEF Writers
    <3> QED
      BY <3>1, <2>2, <2>4, <1>4 DEF UnspoiltWhole
  <2> QED
    BY <2>3, <2>4
<1>10. RowHasFileOrDrop'
  <2>1. \A g \in Handlers : At(g, "drop") => At(g, "drop")'
    BY <1>1, <1>3 DEF At
  <2>2. \A t \in Subjects : row[t] # None => <<t, row[t]>> \in Names
    BY DEF TypeOK, Names
  <2> QED
    BY <1>3, <1>4, <2>1, <2>2 DEF RowHasFileOrDrop, Unopened
<1>11. FetchesOK'
  <2> SUFFICES ASSUME NEW g \in Handlers, req'[g].at \in {"stat", "read"} PROVE FetchOK(g)'
    BY DEF FetchesOK, FetchOK
  <2>1. g # h /\ req[g].at = req'[g].at /\ Disturbed(g, n, req[g]) /\ FetchOK(g)
    BY <1>2, <1>3 DEF FetchesOK
  <2>2. /\ req[g].subject \in Subjects
        /\ req[g].at = "read" => req[g].suffix # None
        /\ req[g].suffix # None => Name(g) \in Names
    BY <2>1 DEF RequestsOK, RequestOK, TypeOK, Requests, Name, Names
  <2>3. CASE Name(g) = n
    <3>1. req[g].subject \notin Once \/ req[g].suffix = None
      <4>1. Uploading(h, req[g].subject)
        BY <1>1, <2>3 DEF Name, Uploading
      <4> QED
        BY <2>1, <4>1, OnceFetchedAfterUpload
    <3>2. ~req'[g].calm
      BY <2>1, <2>3 DEF Disturbed, Name
    <3>3. file'[Name(g)] # NoFile
      BY <1>4, <2>3
    <3>4. ~(req'[g].at = "read" /\ req'[g].subject \in Once)
      BY <1>3, <2>1, <2>2, <3>1
    <3> QED
      BY <1>3, <3>2, <3>3, <3>4 DEF FetchOK
  <2>4. CASE Name(g) # n
    BY <1>4, <2>1, <2>4, OtherFetchKeeps
  <2> QED
    BY <2>3, <2>4
<1>12. SentOK'
  BY DEF SentOK, CalmFetchWhole, BadAnswerHasCause, TornStarted
<1> QED
  BY <1>5, <1>6, <1>8, <1>9, <1>10, <1>11, <1>12
LEMMA WriteFileKeeps ==
  ASSUME FileInv, NEW h \in Handlers, WriteFile(h) \/ WriteFails(h)
  PROVE  FileInv'
<1> USE DEF FileInv
<1>1. CASE WriteFails(h)
  <2>1. PICK data \in {Part, Mixed} : file' = [file EXCEPT ![Name(h)] = data]
    BY <1>1 DEF WriteFails
  <2>2. data \in Mixed..MaxUploads /\ data # NoFile
    BY <2>1, FileAssumption DEF Part, Mixed, NoFile
  <2>3. /\ failed \subseteq failed'
        /\ failed' \subseteq Operations \X (Subjects \X (Suffixes \cup {None}))
    BY <1>1, FileAssumption
    DEF WriteFails, Fails, At, TypeOK, Operations, RequestsOK, RequestOK, Name
  <2> QED
    BY <1>1, <2>1, <2>2, <2>3, WriteKeeps DEF WriteFails
<1>2. CASE WriteFile(h)
  <2>1. PICK data \in {req[h].upload} \cup
               IF file[Name(h)] = Part /\ Writers(Name(h)) = {h} THEN {} ELSE {Mixed} :
          file' = [file EXCEPT ![Name(h)] = data]
    BY <1>2 DEF WriteFile
  <2>2. /\ req[h].upload \in 1..MaxUploads /\ Name(h) \in Names
        /\ h \in Writers(Name(h)) /\ data \in {req[h].upload, Mixed}
    BY <1>2, <2>1, FileAssumption
    DEF WriteFile, At, RequestsOK, RequestOK, TypeOK, Requests, Writers, Name, Names
  <2>3. data \in Mixed..MaxUploads /\ data # NoFile
    BY <2>2, FileAssumption DEF Mixed, NoFile
  <2>4. ASSUME Name(h) \notin spoilt PROVE data > 0
    <3>1. file[Name(h)] = Part /\ Writers(Name(h)) = {h}
      BY <2>2, <2>4 DEF UnspoiltWhole
    <3> QED
      BY <2>1, <2>2, <3>1
  <2> QED
    BY <1>2, <2>1, <2>3, <2>4, WriteKeeps DEF WriteFile, TypeOK, history
<1> QED
  BY <1>1, <1>2

LEMMA RemoveFileKeeps ==
  ASSUME FileInv, NEW h \in Handlers, RemoveFile(h)
  PROVE  FileInv'
<1> USE DEF FileInv
<1> DEFINE n == Name(h)
           s == req[h].subject
<1>1. /\ req[h].at = "unlink" /\ s \in deletions /\ s \in Once /\ s \in Subjects
      /\ req[h].suffix \in Suffixes /\ req[h].suffix # None /\ n \in Names
  BY FileAssumption DEF RemoveFile, At, RequestsOK, RequestOK, TypeOK, Requests, Name, Names
<1>2. /\ req' \in [Handlers -> Requests]
      /\ req'[h].at = "drop" /\ req'[h].subject = s /\ req'[h].suffix = req[h].suffix
      /\ \A g \in Handlers : g # h => Disturbed(g, n, req[g])
      /\ UNCHANGED <<row, uploads, started, deletions, spoilt, sent>>
  BY StepDisturbs DEF RemoveFile
<1>3. \A g \in Handlers :
        /\ Name(g)' = Name(g)
        /\ g # h => req'[g].at = req[g].at /\ req'[g].upload = req[g].upload
        /\ req'[g].subject = req[g].subject /\ req'[g].suffix = req[g].suffix
  BY <1>2 DEF Disturbed, Name
<1>4. /\ file' \in [Names -> Mixed..MaxUploads] /\ file'[n] \in {file[n], NoFile}
      /\ \A m \in Names : m # n => file'[m] = file[m]
      /\ failed \subseteq failed'
      /\ failed' \subseteq Operations \X (Subjects \X (Suffixes \cup {None}))
  BY <1>1, FileAssumption DEF TypeOK, RemoveFile, Fails, Operations, Name, Mixed, NoFile
<1>5. Writers(n) = {} /\ \A g \in Handlers : ~Uploading(g, s)
  BY <1>1, OnceFetchedAfterUpload
<1>6. TypeOK'
  BY <1>2, <1>4 DEF TypeOK
<1>7. RequestsOK'
  <2> SUFFICES ASSUME NEW g \in Handlers PROVE RequestOK(g)'
    BY DEF RequestsOK
  <2>1. RequestOK(g)
    BY DEF RequestsOK
  <2>2. req[g].at \in {"write", "update"} => Name(g) \in Names /\ Name(g) # n
    BY <1>5, <2>1 DEF RequestOK, Name, Names, TypeOK, Uploading
  <2>3. CASE g = h
    BY <1>1, <1>2, <1>3, <2>3 DEF RequestOK
  <2>4. CASE g # h
    BY <1>2, <1>3, <1>4, <2>1, <2>2, <2>4 DEF RequestOK, Unopened, At, Disturbed
  <2> QED
    BY <2>3, <2>4
<1>8. \A g \in Handlers : \A t : Uploading(g, t)' <=> Uploading(g, t)
  BY <1>1, <1>2, <1>3 DEF Uploading
<1>9. OnceHidden'
  BY <1>1, <1>2, <1>3, <1>8 DEF OnceHidden
<1>10. UnspoiltWhole'
  <2>1. \A m : Writers(m)' = Writers(m)
    BY <1>1, <1>2, <1>3 DEF Writers, At
  <2> QED
    BY <1>2, <1>4, <1>5, <2>1 DEF UnspoiltWhole, NoFile
<1>11. RowHasFileOrDrop'
  <2>1. \A g \in Handlers : At(g, "drop") => At(g, "drop")'
    BY <1>1, <1>3 DEF At
  <2>2. At(h, "drop")'
    BY <1>2 DEF At
  <2>3. \A t \in Subjects : row[t] # None => <<t, row[t]>> \in Names
    BY DEF TypeOK, Names
  <2> QED
    BY <1>2, <1>3, <1>4, <2>1, <2>2, <2>3 DEF RowHasFileOrDrop, Unopened
<1>12. FetchesOK'
  <2> SUFFICES ASSUME NEW g \in Handlers, req'[g].at \in {"stat", "read"} PROVE FetchOK(g)'
    BY DEF FetchesOK, FetchOK
  <2>1. g # h /\ req[g].at = req'[g].at /\ Disturbed(g, n, req[g]) /\ FetchOK(g)
    BY <1>2, <1>3 DEF FetchesOK
  <2>2. CASE Name(g) = n
    <3>1. ~req'[g].calm /\ req[g].subject = s /\ req'[g].size = req[g].size
      BY <2>1, <2>2 DEF Disturbed, Name
    <3> QED
      BY <1>1, <1>2, <1>3, <1>4, <2>1, <2>2, <3>1 DEF FetchOK
  <2>3. CASE Name(g) # n
    BY <1>2, <1>4, <2>1, <2>3, OtherFetchKeeps
  <2> QED
    BY <2>2, <2>3
<1>13. SentOK'
  BY <1>2, <1>4 DEF SentOK, CalmFetchWhole, BadAnswerHasCause, TornStarted
<1> QED
  BY <1>6, <1>7, <1>9, <1>10, <1>11, <1>12, <1>13
LEMMA UploadKeeps ==
  ASSUME FileInv, NEW h \in Handlers, NEW s \in Subjects, NEW x \in Suffixes, Upload(h, s, x)
  PROVE  FileInv'
<1> USE DEF FileInv
<1> DEFINE n == <<s, x>>
           q == [Idle EXCEPT !.at = "write", !.subject = s, !.suffix = x, !.upload = uploads + 1]
<1>1. /\ req[h].at = "idle" /\ uploads < MaxUploads /\ n \in Names
      /\ s \in Once => s \notin started
      /\ uploads' = uploads + 1 /\ started' = started \cup {s}
      /\ spoilt' = IF Writers(n) = {} THEN spoilt \ {n} ELSE spoilt \cup {n}
      /\ UNCHANGED <<row, deletions, sent, failed>>
  BY DEF Upload, MayUpload, At, Names
<1>2. /\ uploads + 1 \in 1..MaxUploads /\ q \in Requests
      /\ Disturb(n, [req EXCEPT ![h] = q])
  <2>1. uploads + 1 \in 1..MaxUploads /\ uploads + 1 \in 0..MaxUploads
    BY <1>1, FileAssumption DEF TypeOK
  <2>2. q \in Requests
    BY <2>1, IdleRequest DEF Requests
  <2> QED
    BY <2>1, <2>2 DEF Upload
<1>3. /\ req' \in [Handlers -> Requests]
      /\ req'[h].at = "write" /\ req'[h].subject = s /\ req'[h].suffix = x
      /\ req'[h].upload = uploads + 1
      /\ \A g \in Handlers : g # h => Disturbed(g, n, req[g])
  <2> DEFINE r == [req EXCEPT ![h] = q]
  <2>1. r \in [Handlers -> Requests] /\ r[h] = q /\ \A g \in Handlers : g # h => r[g] = req[g]
    BY <1>2 DEF TypeOK
  <2>2. q.at = "write" /\ q.subject = s /\ q.suffix = x /\ q.upload = uploads + 1
    BY IdleRequest DEF Requests
  <2> HIDE DEF r, q
  <2>3. req' \in [Handlers -> Requests] /\ \A g \in Handlers : Disturbed(g, n, r[g])
    BY <1>2, <2>1, DisturbLeavesRest DEF r
  <2> QED
    BY <2>1, <2>2, <2>3 DEF Disturbed
<1> HIDE DEF q
<1>4. \A g \in Handlers : g # h =>
        /\ Name(g)' = Name(g) /\ req'[g].at = req[g].at /\ req'[g].upload = req[g].upload
        /\ req'[g].subject = req[g].subject /\ req'[g].suffix = req[g].suffix
  BY <1>3 DEF Disturbed, Name
<1>5. /\ file' \in [Names -> Mixed..MaxUploads] /\ file'[n] = Part
      /\ \A m \in Names : m # n => file'[m] = file[m] /\ (m \in spoilt' <=> m \in spoilt)
      /\ \A m \in Names : file[m] # NoFile \/ Unopened(m) => file'[m] # NoFile \/ (m # n /\ Unopened(m)')
  BY <1>1, FileAssumption DEF TypeOK, Upload, Mixed, Part, NoFile, Unopened
<1>6. TypeOK'
  BY <1>1, <1>2, <1>3, <1>5, FileAssumption DEF TypeOK
<1>7. RequestsOK'
  <2> SUFFICES ASSUME NEW g \in Handlers PROVE RequestOK(g)'
    BY DEF RequestsOK
  <2>1. RequestOK(g)
    BY DEF RequestsOK
  <2>2. req[g].at \in {"write", "update"} => Name(g) \in Names
    BY <2>1 DEF RequestOK, Name, Names, TypeOK
  <2>3. CASE g = h
    BY <1>1, <1>2, <1>3, <1>5, <2>3 DEF RequestOK, Name, Part, NoFile
  <2>4. CASE g # h
    BY <1>1, <1>3, <1>4, <1>5, <2>1, <2>2, <2>4 DEF RequestOK, At, Disturbed
  <2> QED
    BY <2>3, <2>4
<1>8. OnceHidden'
  <2> SUFFICES ASSUME NEW t \in Once
               PROVE  /\ t \notin started' \/ (\E g \in Handlers : Uploading(g, t)') =>
                           /\ row'[t] = None
                           /\ \A g \in Handlers :
                                req'[g].subject = t /\ req'[g].at \notin {"idle", "write", "update"}
                                  => req'[g].suffix = None
                      /\ \A f, g \in Handlers : Uploading(f, t)' /\ Uploading(g, t)' => f = g
    BY DEF OnceHidden
  <2>1. \A g \in Handlers : g # h => (Uploading(g, t)' <=> Uploading(g, t))
    BY <1>4 DEF Uploading
  <2>2. CASE t = s
    <3>1. \A g \in Handlers : ~Uploading(g, t)
      BY <1>1, <2>2 DEF RequestsOK, RequestOK, Uploading
    <3> QED
      BY <1>1, <1>3, <1>4, <2>1, <2>2, <3>1 DEF OnceHidden
  <2>3. CASE t # s
    <3>1. ~Uploading(h, t)'
      BY <1>3, <2>3 DEF Uploading
    <3> QED
      BY <1>1, <1>3, <1>4, <2>1, <2>3, <3>1 DEF OnceHidden
  <2> QED
    BY <2>2, <2>3
<1>9. UnspoiltWhole'
  <2> SUFFICES ASSUME NEW m \in Names, m \notin spoilt'
               PROVE  /\ \A f, g \in Writers(m)' : f = g
                      /\ Writers(m)' # {} => file'[m] = Part
                      /\ Writers(m)' = {} => file'[m] >= 0
    BY DEF UnspoiltWhole
  <2>1. CASE m = n
    <3>1. Writers(n) = {}
      BY <1>1, <2>1
    <3>2. Name(h)' = n
      BY <1>3 DEF Name
    <3>3. Writers(m)' = {h}
      BY <1>3, <1>4, <2>1, <3>1, <3>2 DEF Writers, At
    <3> QED
      BY <1>5, <2>1, <3>3
  <2>2. CASE m # n
    <3>1. Name(h)' # m
      BY <1>3, <2>2 DEF Name
    <3>2. Writers(m)' = Writers(m)
      BY <1>1, <1>3, <1>4, <3>1 DEF Writers, At
    <3> QED
      BY <3>2, <2>2, <1>5 DEF UnspoiltWhole
  <2> QED
    BY <2>1, <2>2
<1>10. RowHasFileOrDrop'
  <2>1. \A g \in Handlers : At(g, "drop") => At(g, "drop")' /\ Name(g)' = Name(g)
    BY <1>1, <1>4 DEF At
  <2>2. \A t \in Subjects : row[t] # None => <<t, row[t]>> \in Names
    BY DEF TypeOK, Names
  <2> QED
    BY <1>1, <1>5, <2>1, <2>2 DEF RowHasFileOrDrop
<1>11. FetchesOK'
  <2> SUFFICES ASSUME NEW g \in Handlers, req'[g].at \in {"stat", "read"} PROVE FetchOK(g)'
    BY DEF FetchesOK, FetchOK
  <2>1. g # h /\ req[g].at = req'[g].at /\ Disturbed(g, n, req[g]) /\ FetchOK(g)
    BY <1>3, <1>4 DEF FetchesOK
  <2>2. CASE Name(g) = n
    <3>1. req[g].subject = s /\ req[g].suffix = x /\ x # None
      BY <2>2, FileAssumption DEF Name
    <3>2. s \notin Once
      BY <1>1, <2>1, <3>1, OnceFetchedAfterUpload
    <3>3. ~req'[g].calm /\ file'[Name(g)] # NoFile
      BY <1>5, <2>1, <2>2 DEF Disturbed, Name, Part, NoFile
    <3> QED
      BY <1>4, <2>1, <3>1, <3>2, <3>3 DEF FetchOK
  <2>3. CASE Name(g) # n
    BY <1>1, <1>5, <2>1, <2>3, OtherFetchKeeps
  <2> QED
    BY <2>2, <2>3
<1>12. SentOK'
  <2>1. ASSUME sent.outcome = "torn", sent.subject \in Once
        PROVE  sent.subject \in started' /\ \E y \in Suffixes : <<sent.subject, y>> \in spoilt'
    <3>1. sent.subject \in started /\ sent.subject # s
      BY <1>1, <2>1 DEF SentOK, TornStarted
    <3>2. PICK y \in Suffixes : <<sent.subject, y>> \in spoilt
      BY <2>1 DEF SentOK, BadAnswerHasCause
    <3>3. <<sent.subject, y>> \in Names /\ <<sent.subject, y>> # n
      BY <3>1, <3>2 DEF TypeOK
    <3> QED
      BY <1>1, <1>5, <3>1, <3>2, <3>3
  <2> QED
    BY <1>1, <2>1 DEF SentOK, CalmFetchWhole, BadAnswerHasCause, TornStarted
<1> QED
  BY <1>6, <1>7, <1>8, <1>9, <1>10, <1>11, <1>12

LEMMA OpenFailsKeeps ==
  ASSUME FileInv, NEW h \in Handlers, NEW s \in Subjects, NEW x \in Suffixes, OpenFails(h, s, x)
  PROVE  FileInv'
<1> USE DEF FileInv
<1> DEFINE n == <<s, x>>
           q == [Idle EXCEPT !.at = "update", !.subject = s, !.suffix = x, !.upload = uploads + 1]
<1>1. /\ req[h].at = "idle" /\ uploads < MaxUploads /\ n \in Names
      /\ s \in Once => s \notin started
      /\ uploads' = uploads + 1 /\ started' = started \cup {s}
      /\ spoilt' = IF file[n] = NoFile THEN spoilt \cup {n} ELSE spoilt
      /\ failed' = failed \cup {<<"open", n>>}
      /\ UNCHANGED <<file, row, deletions, sent>>
  BY DEF OpenFails, Fails, MayUpload, At, Names
<1>2. uploads + 1 \in 1..MaxUploads /\ q \in Requests
  <2>1. uploads + 1 \in 1..MaxUploads /\ uploads + 1 \in 0..MaxUploads
    BY <1>1, FileAssumption DEF TypeOK
  <2> QED
    BY <2>1, IdleRequest DEF Requests
<1>3. /\ req' \in [Handlers -> Requests]
      /\ req'[h].at = "update" /\ req'[h].subject = s /\ req'[h].suffix = x
      /\ req'[h].upload = uploads + 1
      /\ \A g \in Handlers : g # h => req'[g] = req[g]
  <2>1. q.at = "update" /\ q.subject = s /\ q.suffix = x /\ q.upload = uploads + 1
    BY IdleRequest DEF Requests
  <2>2. req' = [req EXCEPT ![h] = q]
    BY DEF OpenFails
  <2> HIDE DEF q
  <2> QED
    BY <1>2, <2>1, <2>2 DEF TypeOK
<1> HIDE DEF q
<1>4. TypeOK'
  <2>1. failed' \subseteq Operations \X (Subjects \X (Suffixes \cup {None}))
    BY <1>1 DEF TypeOK, Operations
  <2> QED
    BY <1>1, <1>2, <1>3, <2>1, FileAssumption DEF TypeOK
<1>5. RequestsOK'
  <2> SUFFICES ASSUME NEW g \in Handlers PROVE RequestOK(g)'
    BY DEF RequestsOK
  <2>1. RequestOK(g)
    BY DEF RequestsOK
  <2>2. CASE g = h
    BY <1>1, <1>2, <1>3, <2>2 DEF RequestOK, Unopened, At, Name
  <2>3. CASE g # h
    BY <1>1, <1>3, <2>1, <2>3 DEF RequestOK, Unopened, At, Name
  <2> QED
    BY <2>2, <2>3
<1>6. OnceHidden'
  <2> SUFFICES ASSUME NEW t \in Once
               PROVE  /\ t \notin started' \/ (\E g \in Handlers : Uploading(g, t)') =>
                           /\ row'[t] = None
                           /\ \A g \in Handlers :
                                req'[g].subject = t /\ req'[g].at \notin {"idle", "write", "update"}
                                  => req'[g].suffix = None
                      /\ \A f, g \in Handlers : Uploading(f, t)' /\ Uploading(g, t)' => f = g
    BY DEF OnceHidden
  <2>1. \A g \in Handlers : g # h => (Uploading(g, t)' <=> Uploading(g, t))
    BY <1>3 DEF Uploading
  <2>2. CASE t = s
    <3>1. \A g \in Handlers : ~Uploading(g, t)
      BY <1>1, <2>2 DEF RequestsOK, RequestOK, Uploading
    <3> QED
      BY <1>1, <1>3, <2>1, <2>2, <3>1 DEF OnceHidden
  <2>3. CASE t # s
    <3>1. ~Uploading(h, t)'
      BY <1>3, <2>3 DEF Uploading
    <3> QED
      BY <1>1, <1>3, <2>1, <2>3, <3>1 DEF OnceHidden
  <2> QED
    BY <2>2, <2>3
<1>7. UnspoiltWhole'
  <2>1. \A m : Writers(m)' = Writers(m)
    BY <1>1, <1>3 DEF Writers, At, Name
  <2> QED
    BY <1>1, <2>1 DEF UnspoiltWhole
<1>8. RowHasFileOrDrop'
  <2>1. \A g \in Handlers : At(g, "drop") => At(g, "drop")' /\ Name(g)' = Name(g)
    BY <1>1, <1>3 DEF At, Name
  <2> QED
    BY <1>1, <2>1 DEF RowHasFileOrDrop, Unopened
<1>9. FetchesOK'
  BY <1>1, <1>3 DEF FetchesOK, FetchOK, Name
<1>10. SentOK'
  BY <1>1 DEF SentOK, CalmFetchWhole, BadAnswerHasCause, TornStarted
<1> QED
  BY <1>4, <1>5, <1>6, <1>7, <1>8, <1>9, <1>10

LEMMA FileInvariance == Spec => []FileInv
<1>1. ASSUME FileInv, UNCHANGED vars PROVE FileInv'
  <2>1. TypeOK' /\ RequestsOK' /\ RowHasFileOrDrop'
    BY <1>1 DEF vars, history, FileInv, TypeOK, RequestsOK, RequestOK, Name, At, Unopened, RowHasFileOrDrop
  <2>2. OnceHidden'
    BY <1>1 DEF vars, history, FileInv, OnceHidden, Uploading
  <2>3. UnspoiltWhole'
    BY <1>1 DEF vars, history, FileInv, UnspoiltWhole, Writers, At, Name
  <2>4. FetchesOK'
    BY <1>1 DEF vars, history, FileInv, FetchesOK, FetchOK, Name
  <2>5. SentOK'
    BY <1>1 DEF vars, history, FileInv, SentOK, CalmFetchWhole, BadAnswerHasCause, TornStarted
  <2> QED
    BY <2>1, <2>2, <2>3, <2>4, <2>5 DEF FileInv
<1>2. ASSUME FileInv, Next PROVE FileInv'
  BY <1>2, FetchKeeps, FailedQueryKeeps, DeleteKeeps, UploadKeeps, OpenFailsKeeps, WriteFileKeeps, UpdateRowKeeps, StatKeeps,
     ReadFileKeeps, RemoveFileKeeps, DeleteRowKeeps DEF Next
<1> QED
  BY <1>1, <1>2, FileInit, PTL DEF Spec

\* The tables, the files and the requests keep their types.
THEOREM FileTypeCorrect == Spec => []TypeOK
BY FileInvariance, PTL DEF FileInv

\* A suffix in a row leads to a file until a deletion is about to drop the row, or has
\* failed to, if the file could be opened for writing: receive_file writes before it
\* updates the row, modify_info unlinks before it drops it.
THEOREM FileRowNamesFile == Spec => []RowNamesFile
<1>1. FileInv => RowNamesFile
  <2> SUFFICES ASSUME FileInv, NEW s \in Subjects, row[s] # None
               PROVE  \/ file[<<s, row[s]>>] # NoFile
                      \/ \E h \in Handlers : At(h, "drop") /\ req[h].subject = s
                      \/ <<"open", <<s, row[s]>>>> \in failed \/ <<"drop", <<s, row[s]>>>> \in failed
    BY DEF RowNamesFile
  <2>1. \A h \in Handlers : Name(h) = <<s, row[s]>> => req[h].subject = s
    BY DEF Name
  <2> QED
    BY <2>1 DEF FileInv, RowHasFileOrDrop, Unopened
<1> QED
  BY <1>1, FileInvariance, PTL

\* send_pfile and send_vfile send the file of one upload if nobody has written or
\* removed it since send_file has read its row, and query and opening succeed.
THEOREM FileCalmFetchWhole == Spec => []CalmFetchWhole
BY FileInvariance, PTL DEF FileInv, SentOK

\* A part of a chat image or a video is sent only after a failed write, and no answer
\* at all only after somebody has asked to delete the video or the file could not be
\* opened.
THEOREM FileBadAnswerHasCause == Spec => []BadAnswerHasCause
BY FileInvariance, PTL DEF FileInv, SentOK
===========================================================================
