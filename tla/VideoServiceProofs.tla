------------------------- MODULE VideoServiceProofs -----------------------
(***************************************************************************)
(* Proofs about VideoService: for any users, videos, handlers and copies   *)
(* of rows, with every statement allowed to fail as often as it likes and  *)
(* ids that other ids are equal to as numbers.                             *)
(***************************************************************************)
EXTENDS VideoService, TLAPS

Uploading(h) == req[h].at \in {"write", "insert", "followers", "push"}

Deleting(h) == req[h].at \in {"unlink", "drop"}

Fetching(h) == req[h].at \in {"lookup", "clear"}

\* An upload works on a video of its own.
UploadsOK ==
  /\ \A h \in Handlers : Uploading(h) =>
       /\ req[h].video \in Videos /\ req[h].user \in Publishers
       /\ publisher[req[h].video] = req[h].user
  /\ \A g, h \in Handlers : Uploading(g) /\ Uploading(h) /\ req[g].video = req[h].video => g = h

\* The upload of v, if it has begun, has not yet come to the insertion of the row.
Hidden(v) ==
  Fresh(v) \/ \E h \in Handlers : req[h].at \in {"write", "insert"} /\ req[h].video = v

\* Until then no deletion finds its row.
HiddenNotFound ==
  \A v \in Videos : Hidden(v) =>
    /\ v \notin Video /\ v \notin deleted
    /\ \A g \in Handlers : Deleting(g) => req[g].row # v

\* A deletion that has found the row has removed the file, or failed to, before it
\* drops the row.
DeletionsOK ==
  \A h \in Handlers : Deleting(h) =>
    /\ <<req[h].video, req[h].row>> \in deletions
    /\ At(h, "drop") /\ req[h].row = req[h].video =>
         req[h].video \notin files \/ Failed("unlink", req[h].video)

\* What is announced, to a follower, has been given out.
PushesKnown ==
  /\ \A p \in Push : VideoPush[p] > 0 => ~Fresh(p[2])
  /\ \A h \in Handlers : Fetching(h) => req[h].user \in Followers
  /\ \A h \in Handlers : At(h, "lookup") =>
       /\ \A v \in Videos : req[h].rows[v] > 0 => ~Fresh(v)
       /\ \A x \in req[h].videos : ~Fresh(x[1])
  /\ \A x \in shown : ~Fresh(x[2])

\* The file and the row of a video that is announced.
There(v) ==
  /\ v \in files \/ Asked(v) \/ Failed("write", v)
  /\ v \in Video \/ AskedNumber(v) \/ Failed("insert", v)

\* A deletion that comes before the row removes the file only if it finds a twin's row.
InsertedThere ==
  /\ \A h \in Handlers : At(h, "insert") =>
       req[h].video \in files \/ Failed("write", req[h].video) \/ Misled(req[h].video)
  /\ \A h \in Handlers : req[h].at \in {"followers", "push"} => There(req[h].video)
  /\ \A p \in Push : VideoPush[p] > 0 => There(p[2])
  /\ \A h \in Handlers : At(h, "lookup") => \A v \in Videos : req[h].rows[v] > 0 => There(v)

\* PushAccounting without Pending: there is at most one handler that pushes a video.
Accounted(p) ==
  /\ \A h \in Handlers : At(h, "push") /\ req[h].video = p[2] =>
       Balanced(owed[p], req[h].rows[p[1]] + VideoPush[p] + taken[p], p[2])
  /\ (\A h \in Handlers : ~(At(h, "push") /\ req[h].video = p[2])) =>
       Balanced(owed[p], VideoPush[p] + taken[p], p[2])

AccountingOK == \A p \in Push : Accounted(p)

NamesOK ==
  /\ PublisherNamed
  /\ \A h \in Handlers : At(h, "lookup") => \A x \in req[h].videos : RightName(x[1], x[2])

\* A push that a running fetch is going to remove was late, or has been or will be sent.
RemovalOK ==
  /\ LostOnlyIfLate
  /\ \A h \in Handlers, p \in Push : Fetching(h) /\ req[h].user = p[1] /\ VideoPush[p] > 0 =>
       \/ p \in late \/ Shown(p)
       \/ At(h, "lookup") /\ (req[h].rows[p[2]] > 0 \/ \E x \in req[h].videos : x[1] = p[2])

VideoInv ==
  /\ TypeOK /\ UploadsOK /\ HiddenNotFound /\ DeletionsOK /\ DeletedForGood /\ PushesKnown
  /\ InsertedThere /\ RowHasFile /\ AccountingOK /\ NamesOK /\ RemovalOK
LEMMA IdleRequest ==
  Idle \in Requests /\ Idle.at = "idle" /\ Idle.videos = {} /\ Idle.user = NoOne /\ Idle.video = NoOne /\ Idle.row = NoOne
BY DEF Idle, Requests, NoRows, Named, Steps

LEMMA VideoInit == Init => VideoInv
<1> SUFFICES ASSUME Init PROVE VideoInv
  OBVIOUS
<1>1. \A h \in Handlers : req[h] = Idle /\ req[h].at = "idle"
  BY IdleRequest DEF Init
<1>2. \A p \in Push : VideoPush[p] = 0 /\ owed[p] = 0 /\ taken[p] = 0
  BY DEF Init, NoPush
<1>3. TypeOK
  <2>1. VideoPush \in [Push -> Nat] /\ owed \in [Push -> Nat] /\ taken \in [Push -> Nat]
    BY DEF Init, NoPush
  <2> QED
    BY <2>1, IdleRequest, VideoAssumption DEF Init, TypeOK, Named
<1>4. UploadsOK /\ DeletionsOK /\ InsertedThere /\ PushesKnown
  BY <1>1, <1>2 DEF UploadsOK, Uploading, DeletionsOK, Deleting, InsertedThere, PushesKnown, Fetching, At, Init
<1>5. HiddenNotFound /\ DeletedForGood /\ RowHasFile
  BY <1>1 DEF HiddenNotFound, Deleting, DeletedForGood, RowHasFile, Init
<1>6. AccountingOK
  BY <1>1, <1>2 DEF AccountingOK, Accounted, Balanced, At
<1>7. NamesOK /\ RemovalOK
  BY <1>1, <1>2 DEF NamesOK, PublisherNamed, RemovalOK, LostOnlyIfLate, Fetching, At, Init
<1> QED
  BY <1>3, <1>4, <1>5, <1>6, <1>7 DEF VideoInv

(***************************************************************************)
(* What a step leaves alone.  A handler plays one role at a time, and most *)
(* steps of one role leave what the invariant says of the others as it is. *)
(***************************************************************************)
SameUploads ==
  \A g \in Handlers :
    /\ Uploading(g)' => Uploading(g) /\ req'[g].user = req[g].user /\ req'[g].video = req[g].video
    /\ req'[g].at \in {"write", "insert"} <=> req[g].at \in {"write", "insert"}

SameDeletions ==
  \A g \in Handlers : Deleting(g) \/ Deleting(g)' => req'[g] = req[g]

SameFetches ==
  \A g \in Handlers : Fetching(g)' => req'[g] = req[g]

\* What has failed or has been asked for stays so.
LEMMA HistoryGrows ==
  ASSUME failed \subseteq failed', deletions \subseteq deletions'
  PROVE  /\ \A k, x : Failed(k, x) => Failed(k, x)'
         /\ \A v : Asked(v) => Asked(v)'
         /\ \A v : Misled(v) => Misled(v)'
         /\ \A v : AskedNumber(v) => AskedNumber(v)'
         /\ \A o, n, v : Balanced(o, n, v) => Balanced(o, n, v)'
BY DEF Failed, Asked, Misled, AskedNumber, Balanced

LEMMA SameUploadsKeep ==
  ASSUME VideoInv, SameUploads, UNCHANGED publisher
  PROVE  UploadsOK' /\ \A v \in Videos : Hidden(v)' <=> Hidden(v)
<1>1. UploadsOK'
  BY DEF VideoInv, UploadsOK, SameUploads
<1>2. \A g \in Handlers : req[g].at \in {"write", "insert"} => req'[g].video = req[g].video
  BY DEF SameUploads, Uploading
<1>3. \A v \in Videos : Hidden(v)' <=> Hidden(v)
  BY <1>2 DEF SameUploads, Hidden, Fresh
<1> QED
  BY <1>1, <1>3

\* Tables and files stay.
LEMMA StorageKeeps ==
  ASSUME VideoInv, SameUploads, SameDeletions, UNCHANGED <<publisher, files, Video, deletions, deleted>>,
         failed \subseteq failed'
  PROVE  UploadsOK' /\ HiddenNotFound' /\ DeletionsOK' /\ DeletedForGood' /\ RowHasFile'
<1> USE DEF VideoInv
<1>1. UploadsOK' /\ \A v \in Videos : Hidden(v)' <=> Hidden(v)
  BY SameUploadsKeep
<1>2. HiddenNotFound'
  BY <1>1 DEF HiddenNotFound, SameDeletions, Deleting
<1>3. DeletionsOK'
  BY HistoryGrows DEF DeletionsOK, SameDeletions, Deleting, At
<1>4. DeletedForGood'
  BY HistoryGrows DEF DeletedForGood
<1>5. RowHasFile'
  <2>1. \A g \in Handlers : At(g, "drop") => req'[g] = req[g]
    BY DEF SameDeletions, Deleting, At
  <2> QED
    BY <2>1, HistoryGrows DEF RowHasFile, At
<1> QED
  BY <1>1, <1>2, <1>3, <1>4, <1>5

\* Pushes stay.
LEMMA FetchesKeep ==
  ASSUME VideoInv, SameFetches, UNCHANGED <<publisher, VideoPush, shown, late, taken>>,
         deletions \subseteq deletions', failed \subseteq failed'
  PROVE  PushesKnown' /\ NamesOK' /\ RemovalOK'
<1> USE DEF VideoInv
<1>1. \A g \in Handlers : Fetching(g)' => req'[g] = req[g] /\ Fetching(g)
  BY DEF SameFetches, Fetching
<1>2. \A g \in Handlers : At(g, "lookup")' => req'[g] = req[g] /\ At(g, "lookup")
  BY <1>1 DEF Fetching, At
<1>3. PushesKnown'
  BY <1>1, <1>2 DEF PushesKnown, Fresh
<1>4. NamesOK'
  BY <1>2, HistoryGrows DEF NamesOK, PublisherNamed, RightName, Fresh
<1>5. RemovalOK'
  BY <1>1, <1>2 DEF RemovalOK, LostOnlyIfLate, Shown, At
<1> QED
  BY <1>3, <1>4, <1>5
\* Steps of one handler: the others' requests stay.
LEMMA GotoStep ==
  ASSUME TypeOK, NEW h \in Handlers, NEW step \in Steps, Goto(h, step)
  PROVE  /\ req' \in [Handlers -> Requests]
         /\ req'[h].at = step /\ req'[h].user = req[h].user /\ req'[h].video = req[h].video
         /\ req'[h].row = req[h].row /\ req'[h].rows = req[h].rows
         /\ req'[h].videos = req[h].videos
         /\ \A g \in Handlers : g # h => req'[g] = req[g]
<1>1. req \in [Handlers -> Requests] /\ req[h] \in Requests
  BY DEF TypeOK
<1>2. req' = [req EXCEPT ![h] = [req[h] EXCEPT !.at = step]]
  BY <1>1 DEF Goto
<1>3. [req[h] EXCEPT !.at = step] \in Requests
  BY <1>1 DEF Requests
<1> QED
  BY <1>1, <1>2, <1>3 DEF Requests

LEMMA FinishStep ==
  ASSUME TypeOK, NEW h \in Handlers, Finish(h)
  PROVE  /\ req' \in [Handlers -> Requests] /\ req'[h].at = "idle"
         /\ \A g \in Handlers : g # h => req'[g] = req[g]
BY IdleRequest DEF TypeOK, Finish

(***************************************************************************)
(* Upload.                                                                 *)
(***************************************************************************)
LEMMA WriteFileKeeps ==
  ASSUME VideoInv, NEW h \in Handlers, WriteFile(h)
  PROVE  VideoInv'
<1> USE DEF VideoInv
<1> DEFINE v == req[h].video
<1>1. /\ req[h].at = "write" /\ req' \in [Handlers -> Requests]
      /\ req'[h].at = "insert" /\ req'[h].user = req[h].user /\ req'[h].video = v
      /\ \A g \in Handlers : g # h => req'[g] = req[g]
      /\ UNCHANGED <<publisher, Video, Follow, VideoPush, owed, taken, shown, late, deletions, deleted>>
  BY GotoStep DEF WriteFile, At, Steps
<1>2. /\ files \subseteq files' /\ files' \subseteq files \cup {v}
      /\ failed \subseteq failed' /\ failed' \subseteq failed \cup {<<"write", v>>}
      /\ v \in files' \/ <<"write", v>> \in failed'
  BY DEF WriteFile, Fails
<1>3. v \in Videos /\ Hidden(v)
  BY <1>1 DEF UploadsOK, Uploading, Hidden
<1>4. SameUploads /\ SameDeletions /\ SameFetches
  BY <1>1 DEF SameUploads, SameDeletions, SameFetches, Uploading, Deleting, Fetching
<1>5. TypeOK'
  BY <1>1, <1>2, <1>3 DEF TypeOK, Statements
<1>6. UploadsOK' /\ \A w \in Videos : Hidden(w)' <=> Hidden(w)
  BY <1>1, <1>4, SameUploadsKeep
<1>7. HiddenNotFound'
  BY <1>1, <1>4, <1>6 DEF HiddenNotFound, SameDeletions, Deleting
<1>8. DeletionsOK'
  BY <1>1, <1>2, <1>3, <1>4, HistoryGrows DEF DeletionsOK, HiddenNotFound, SameDeletions, Deleting, At
<1>9. DeletedForGood'
  BY <1>1, <1>2, <1>3, HistoryGrows DEF DeletedForGood, HiddenNotFound
<1>10. PushesKnown' /\ NamesOK' /\ RemovalOK'
  BY <1>1, <1>2, <1>4, FetchesKeep
<1>11. InsertedThere'
  BY <1>1, <1>2, HistoryGrows DEF Failed, InsertedThere, There, At
<1>12. RowHasFile'
  BY <1>1, <1>2, HistoryGrows DEF Failed, RowHasFile, At
<1>13. AccountingOK'
  BY <1>1, <1>2, HistoryGrows DEF AccountingOK, Accounted, At
<1> QED
  BY <1>5, <1>6, <1>7, <1>8, <1>9, <1>10, <1>11, <1>12, <1>13

LEMMA InsertVideoKeeps ==
  ASSUME VideoInv, NEW h \in Handlers, InsertVideo(h)
  PROVE  VideoInv'
<1> USE DEF VideoInv
<1> DEFINE v == req[h].video
<1>1. /\ req[h].at = "insert" /\ req' \in [Handlers -> Requests]
      /\ req'[h].at = "followers" /\ req'[h].user = req[h].user /\ req'[h].video = v
      /\ \A g \in Handlers : g # h => req'[g] = req[g]
      /\ UNCHANGED <<publisher, files, Follow, VideoPush, owed, taken, shown, late, deletions, deleted>>
  BY GotoStep DEF InsertVideo, At, Steps
<1>2. /\ Video \subseteq Video' /\ Video' \subseteq Video \cup {v}
      /\ failed \subseteq failed' /\ failed' \subseteq failed \cup {<<"insert", v>>}
      /\ v \in Video' \/ <<"insert", v>> \in failed'
  BY DEF InsertVideo, Fails
<1>3. v \in Videos /\ Hidden(v) /\ ~Fresh(v)
  BY <1>1, VideoAssumption DEF UploadsOK, Uploading, Hidden, Fresh
<1>4. SameDeletions /\ SameFetches
  BY <1>1 DEF SameDeletions, SameFetches, Deleting, Fetching
<1>5. TypeOK'
  BY <1>1, <1>2, <1>3 DEF TypeOK, Statements
<1>6. UploadsOK'
  BY <1>1 DEF UploadsOK, Uploading
<1>7. \A w \in Videos : Hidden(w)' => Hidden(w) /\ w # v
  <2>1. \A g \in Handlers : g # h /\ Uploading(g) => req[g].video # v
    BY <1>1 DEF UploadsOK, Uploading
  <2> QED
    BY <1>1, <1>3, <2>1 DEF Hidden, Fresh, Uploading
<1>8. HiddenNotFound'
  BY <1>1, <1>2, <1>4, <1>7 DEF HiddenNotFound, SameDeletions, Deleting
<1>9. DeletionsOK'
  BY <1>1, <1>2, <1>4, HistoryGrows DEF DeletionsOK, SameDeletions, Deleting, At
<1>10. DeletedForGood'
  BY <1>1, <1>2, <1>3, HistoryGrows DEF DeletedForGood, HiddenNotFound
<1>11. PushesKnown' /\ NamesOK' /\ RemovalOK'
  BY <1>1, <1>2, <1>4, FetchesKeep
<1>12. InsertedThere'
  BY <1>1, <1>2, HistoryGrows DEF Failed, InsertedThere, There, Misled, Asked, At
<1>13. RowHasFile'
  BY <1>1, <1>2, HistoryGrows DEF Failed, RowHasFile, InsertedThere, At
<1>14. AccountingOK'
  BY <1>1, <1>2, HistoryGrows DEF AccountingOK, Accounted, At
<1> QED
  BY <1>5, <1>6, <1>8, <1>9, <1>10, <1>11, <1>12, <1>13, <1>14
LEMMA UploadKeeps ==
  ASSUME VideoInv, NEW h \in Handlers, NEW u \in Publishers, NEW v \in Videos, Upload(h, u, v)
  PROVE  VideoInv'
<1> USE DEF VideoInv
<1>1. /\ req[h].at = "idle" /\ Fresh(v) /\ u # NoOne
      /\ publisher' \in [Videos -> Named] /\ publisher'[v] = u
      /\ \A w \in Videos : w # v => publisher'[w] = publisher[w]
      /\ UNCHANGED <<files, Video, Follow, VideoPush, history>>
  BY VideoAssumption DEF Upload, At, TypeOK, Named
<1>2. /\ req' \in [Handlers -> Requests]
      /\ req'[h].at = "write" /\ req'[h].user = u /\ req'[h].video = v
      /\ \A g \in Handlers : g # h => req'[g] = req[g]
  <2> DEFINE q == [Idle EXCEPT !.at = "write", !.user = u, !.video = v]
  <2>1. q \in Requests /\ q.at = "write" /\ q.user = u /\ q.video = v
    BY IdleRequest DEF Requests, Steps
  <2>2. req' = [req EXCEPT ![h] = q]
    BY DEF Upload
  <2> HIDE DEF q
  <2> QED
    BY <2>1, <2>2 DEF TypeOK
<1>3. \A w \in Videos : ~Fresh(w) => ~Fresh(w)' /\ w # v /\ publisher'[w] = publisher[w]
  BY <1>1 DEF Fresh
<1>4. SameDeletions /\ SameFetches
  BY <1>1, <1>2 DEF SameDeletions, SameFetches, Deleting, Fetching
<1>5. TypeOK'
  BY <1>1, <1>2 DEF TypeOK, history
<1>6. UploadsOK'
  <2>1. \A g \in Handlers : Uploading(g) => req[g].video \in Videos /\ ~Fresh(req[g].video)
    BY VideoAssumption DEF UploadsOK, Fresh
  <2>2. \A g \in Handlers : g # h => (Uploading(g)' <=> Uploading(g)) /\ req'[g] = req[g]
    BY <1>2 DEF Uploading
  <2> QED
    BY <1>1, <1>2, <1>3, <2>1, <2>2 DEF UploadsOK
<1>7. \A w \in Videos : Hidden(w)' => Hidden(w)
  BY <1>1, <1>2, <1>3 DEF Hidden
<1>8. HiddenNotFound'
  BY <1>1, <1>4, <1>7 DEF HiddenNotFound, SameDeletions, Deleting, history
<1>9. DeletionsOK' /\ DeletedForGood'
  BY <1>1, <1>4 DEF Failed, DeletionsOK, SameDeletions, Deleting, At, DeletedForGood, history
<1>10. \A g \in Handlers : At(g, "lookup")' => At(g, "lookup") /\ req'[g] = req[g]
  BY <1>1, <1>2 DEF At
<1>11. \A g \in Handlers : \A x \in req[g].videos : x[1] \in Videos
  BY DEF TypeOK, Requests
<1>12. \A x \in shown : x[2] \in Videos
  BY DEF TypeOK
<1>13. PushesKnown'
  <2>1. \A p \in Push : p[2] \in Videos
    BY DEF Push
  <2> QED
    BY <1>1, <1>2, <1>3, <1>10, <1>11, <1>12, <2>1 DEF PushesKnown, Fetching, history
<1>14. NamesOK'
  BY <1>1, <1>3, <1>10, <1>11, <1>12 DEF NamesOK, PublisherNamed, RightName, AskedNumber, Failed, history
<1>15. RemovalOK'
  BY <1>1, <1>4, <1>10 DEF RemovalOK, LostOnlyIfLate, Shown, SameFetches, Fetching, At, history
<1>16. InsertedThere'
  BY <1>1, <1>2 DEF InsertedThere, There, Asked, AskedNumber, Misled, Failed, At, history
<1>17. RowHasFile'
  <2>1. \A g \in Handlers : At(g, "drop") => req'[g] = req[g]
    BY <1>1, <1>2 DEF At
  <2>2. failed \subseteq failed' /\ deletions \subseteq deletions' /\ files' = files /\ Video' = Video
    BY <1>1 DEF history
  <2> QED
    BY <2>1, <2>2, HistoryGrows DEF RowHasFile, At
<1>18. AccountingOK'
  BY <1>1, <1>2, HistoryGrows DEF AccountingOK, Accounted, At, history
<1> QED
  BY <1>5, <1>6, <1>8, <1>9, <1>13, <1>14, <1>15, <1>16, <1>17, <1>18

\* The end of an upload, whose pushes are all inserted or were never selected.
LEMMA FinishUploadKeeps ==
  ASSUME VideoInv, NEW h \in Handlers, req[h].at \in {"followers", "push"}, Finish(h),
         At(h, "push") => \A f \in Followers : req[h].rows[f] = 0,
         UNCHANGED <<tables, owed, taken, shown, late, deletions, deleted>>,
         failed \subseteq failed', failed' \subseteq Statements \X (Videos \cup Followers)
  PROVE  VideoInv'
<1> USE DEF VideoInv
<1>1. /\ req' \in [Handlers -> Requests] /\ req'[h].at = "idle"
      /\ \A g \in Handlers : g # h => req'[g] = req[g]
  BY FinishStep
<1>2. SameUploads /\ SameDeletions /\ SameFetches
  BY <1>1 DEF SameUploads, SameDeletions, SameFetches, Uploading, Deleting, Fetching
<1>3. TypeOK'
  BY <1>1 DEF TypeOK, tables
<1>4. UploadsOK' /\ HiddenNotFound' /\ DeletionsOK' /\ DeletedForGood' /\ RowHasFile'
  BY <1>2, StorageKeeps DEF tables
<1>5. PushesKnown' /\ NamesOK' /\ RemovalOK'
  BY <1>2, FetchesKeep DEF tables
<1>6. InsertedThere'
  BY <1>1, HistoryGrows DEF InsertedThere, There, At, tables
<1>7. AccountingOK'
  <2> SUFFICES ASSUME NEW p \in Push PROVE Accounted(p)'
    BY DEF AccountingOK
  <2>1. Accounted(p) /\ VideoPush[p] \in Nat /\ taken[p] \in Nat /\ p[1] \in Followers
    BY DEF AccountingOK, TypeOK, Push
  <2>2. CASE At(h, "push") /\ req[h].video = p[2]
    <3>1. Balanced(owed[p], VideoPush[p] + taken[p], p[2])
      BY <2>1, <2>2 DEF Accounted
    <3>2. \A g \in Handlers : g # h /\ At(g, "push") => req[g].video # p[2]
      BY <2>2 DEF UploadsOK, Uploading, At
    <3> QED
      BY <1>1, <3>1, <3>2, HistoryGrows DEF Accounted, At, tables
  <2>3. CASE ~(At(h, "push") /\ req[h].video = p[2])
    BY <1>1, <2>1, <2>3, HistoryGrows DEF Accounted, At, tables
  <2> QED
    BY <2>2, <2>3
<1> QED
  BY <1>3, <1>4, <1>5, <1>6, <1>7

LEMMA UploadEndKeeps ==
  ASSUME VideoInv, NEW h \in Handlers, UploadEnd(h)
  PROVE  VideoInv'
<1>1. \A f \in Followers : req[h].rows[f] = 0
  BY DEF UploadEnd, NoRows
<1> QED
  BY <1>1, FinishUploadKeeps DEF UploadEnd, At, history, VideoInv, TypeOK

LEMMA SelectFollowersKeeps ==
  ASSUME VideoInv, NEW h \in Handlers, SelectFollowers(h)
  PROVE  VideoInv'
<1> USE DEF VideoInv
<1> DEFINE v == req[h].video
           u == req[h].user
<1>1. req[h].at = "followers" /\ u \in Publishers /\ v \in Videos
  BY DEF SelectFollowers, At, UploadsOK, Uploading
<1>2. CASE Fails("followers", v) /\ Finish(h) /\ UNCHANGED owed
  <2>1. failed \subseteq failed' /\ failed' \subseteq Statements \X (Videos \cup Followers)
    BY <1>1, <1>2 DEF Fails, Statements, TypeOK
  <2>2. UNCHANGED <<tables, owed, taken, shown, late, deletions, deleted>>
    BY <1>2 DEF SelectFollowers
  <2> QED
    BY <1>1, <1>2, <2>1, <2>2, FinishUploadKeeps DEF At
<1>3. CASE /\ req' = [req EXCEPT ![h].at = "push", ![h].rows = FollowerRows(u)]
           /\ owed' = [p \in Push |-> IF p[2] = v THEN owed[p] + Follow[<<u, p[1]>>] ELSE owed[p]]
           /\ UNCHANGED <<tables, taken, shown, late, deletions, deleted, failed>>
  <2>1. \A f \in Followers : Follow[<<u, f>>] \in Nat
    BY <1>1, VideoAssumption DEF TypeOK
  <2>2. /\ FollowerRows(u) \in [Followers \cup Videos -> Nat]
        /\ \A f \in Followers : FollowerRows(u)[f] = Follow[<<u, f>>]
    BY <2>1 DEF FollowerRows
  <2>3. /\ req' \in [Handlers -> Requests] /\ req'[h].at = "push" /\ req'[h].user = u
        /\ req'[h].video = v /\ req'[h].rows = FollowerRows(u)
        /\ \A g \in Handlers : g # h => req'[g] = req[g]
    <3>1. req \in [Handlers -> Requests] /\ req[h] \in Requests
      BY DEF TypeOK
    <3>2. req' = [req EXCEPT ![h] = [req[h] EXCEPT !.at = "push", !.rows = FollowerRows(u)]]
      BY <1>3, <3>1
    <3>3. [req[h] EXCEPT !.at = "push", !.rows = FollowerRows(u)] \in Requests
      BY <2>2, <3>1 DEF Requests, Steps
    <3> QED
      BY <3>1, <3>2, <3>3 DEF Requests
  <2>4. SameUploads /\ SameDeletions /\ SameFetches
    BY <1>1, <2>3 DEF SameUploads, SameDeletions, SameFetches, Uploading, Deleting, Fetching
  <2>5. \A p \in Push : p[1] \in Followers /\ owed[p] \in Nat
    BY DEF Push, TypeOK
  <2>6. TypeOK'
    <3>1. owed' \in [Push -> Nat]
      BY <1>3, <2>1, <2>5
    <3> QED
      BY <1>3, <2>3, <3>1 DEF TypeOK, tables
  <2>7. UploadsOK' /\ HiddenNotFound' /\ DeletionsOK' /\ DeletedForGood' /\ RowHasFile'
    BY <1>3, <2>4, StorageKeeps DEF tables
  <2>8. PushesKnown' /\ NamesOK' /\ RemovalOK'
    BY <1>3, <2>4, FetchesKeep DEF tables
  <2>9. InsertedThere'
    BY <1>1, <1>3, <2>3, HistoryGrows DEF InsertedThere, There, At, tables
  <2>10. AccountingOK'
    <3> SUFFICES ASSUME NEW p \in Push PROVE Accounted(p)'
      BY DEF AccountingOK
    <3>1. /\ Accounted(p) /\ p[1] \in Followers /\ owed[p] \in Nat
          /\ VideoPush[p] \in Nat /\ taken[p] \in Nat
          /\ VideoPush'[p] = VideoPush[p] /\ taken'[p] = taken[p]
      BY <1>3, <2>5 DEF AccountingOK, TypeOK, tables
    <3>2. CASE v = p[2]
      <4>1. \A g \in Handlers : ~(At(g, "push") /\ req[g].video = p[2])
        BY <1>1, <3>2 DEF UploadsOK, Uploading, At
      <4>2. Balanced(owed[p], VideoPush[p] + taken[p], p[2])
        BY <3>1, <4>1 DEF Accounted
      <4>3. owed'[p] = owed[p] + req'[h].rows[p[1]] /\ req'[h].rows[p[1]] \in Nat
        BY <1>3, <2>1, <2>2, <2>3, <3>1, <3>2
      <4>4. \A g \in Handlers : At(g, "push")' /\ req'[g].video = p[2] => g = h
        BY <2>3, <4>1 DEF At
      <4>5. LET have == req'[h].rows[p[1]] + VideoPush'[p] + taken'[p]
            IN  owed'[p] = have \/ (owed'[p] > have /\ <<"push", p[2]>> \in failed')
        BY <1>3, <3>1, <4>2, <4>3 DEF Balanced, Failed
      <4> QED
        BY <2>3, <3>2, <4>4, <4>5 DEF Accounted, Balanced, Failed, At
    <3>3. CASE v # p[2]
      <4>1. owed'[p] = owed[p]
        BY <1>3, <3>3
      <4> QED
        BY <1>1, <1>3, <2>3, <3>1, <3>3, <4>1 DEF Accounted, Balanced, Failed, At
    <3> QED
      BY <3>2, <3>3
  <2> QED
    BY <2>6, <2>7, <2>8, <2>9, <2>10
<1> QED
  <2>1. UNCHANGED <<tables, taken, shown, late, deletions, deleted>>
    BY DEF SelectFollowers
  <2> QED
    BY <1>2, <1>3, <2>1 DEF SelectFollowers
LEMMA InsertPushKeeps ==
  ASSUME VideoInv, NEW h \in Handlers, NEW f \in Followers, InsertPush(h, f)
  PROVE  VideoInv'
<1> USE DEF VideoInv
<1> DEFINE v == req[h].video
           q == <<f, v>>
<1>1. /\ req[h].at = "push" /\ req[h].rows[f] > 0 /\ v \in Videos /\ ~Fresh(v) /\ q \in Push
      /\ q[1] = f /\ q[2] = v
      /\ UNCHANGED <<publisher, files, Video, Follow, owed, taken, shown, deletions, deleted>>
  BY VideoAssumption DEF InsertPush, At, HasRow, UploadsOK, Uploading, Fresh, Push
<1>2. /\ req' \in [Handlers -> Requests] /\ req'[h].at = "push" /\ req'[h].user = req[h].user
      /\ req'[h].video = v /\ req'[h].rows = [req[h].rows EXCEPT ![f] = @ - 1]
      /\ \A g \in Handlers : g # h => req'[g] = req[g]
  <2> DEFINE r == [req[h].rows EXCEPT ![f] = @ - 1]
  <2>1. /\ req \in [Handlers -> Requests] /\ req[h] \in Requests
        /\ req[h].rows \in [Followers \cup Videos -> Nat]
    BY DEF TypeOK, Requests
  <2>2. r \in [Followers \cup Videos -> Nat]
    BY <1>1, <2>1
  <2>3. req' = [req EXCEPT ![h] = [req[h] EXCEPT !.rows = r]]
    BY <2>1 DEF InsertPush
  <2>4. [req[h] EXCEPT !.rows = r] \in Requests
    BY <2>1, <2>2 DEF Requests
  <2> HIDE DEF r
  <2>5. /\ req' \in [Handlers -> Requests] /\ req'[h].at = "push" /\ req'[h].user = req[h].user
        /\ req'[h].video = v /\ req'[h].rows = r
        /\ \A g \in Handlers : g # h => req'[g] = req[g]
    BY <1>1, <2>1, <2>3, <2>4 DEF Requests
  <2> QED
    BY <2>5 DEF r
<1>3. /\ req[h].rows \in [Followers \cup Videos -> Nat]
      /\ req'[h].rows[f] = req[h].rows[f] - 1
      /\ \A e \in Followers : e # f => req'[h].rows[e] = req[h].rows[e]
  <2>1. req[h] \in Requests
    BY DEF TypeOK
  <2>2. req[h].rows \in [Followers \cup Videos -> Nat]
    BY <2>1 DEF Requests
  <2> HIDE DEF VideoInv
  <2> QED
    BY <1>2, <2>2
<1>4. /\ VideoPush' \in [Push -> Nat] /\ late \subseteq late' /\ late' \subseteq Push
      /\ \A p \in Push : p # q => VideoPush'[p] = VideoPush[p]
      /\ VideoPush'[q] = VideoPush[q] + 1 \/ VideoPush'[q] = VideoPush[q]
      /\ failed \subseteq failed' /\ failed' \subseteq failed \cup {<<"push", v>>}
      /\ VideoPush'[q] = VideoPush[q] + 1 \/ <<"push", v>> \in failed'
      /\ VideoPush'[q] # VideoPush[q] /\ FetchRunning(f) => q \in late'
  <2>1. VideoPush \in [Push -> Nat] /\ late \subseteq Push
    BY DEF TypeOK
  <2>2. CASE /\ VideoPush' = [VideoPush EXCEPT ![q] = @ + 1]
             /\ late' = IF FetchRunning(f) THEN late \cup {q} ELSE late
             /\ UNCHANGED failed
    BY <1>1, <2>1, <2>2
  <2>3. CASE Fails("push", v) /\ UNCHANGED <<VideoPush, late>>
    BY <1>1, <2>1, <2>3 DEF Fails
  <2> QED
    BY <2>2, <2>3 DEF InsertPush
<1>5. SameUploads /\ SameDeletions /\ SameFetches
  BY <1>1, <1>2 DEF SameUploads, SameDeletions, SameFetches, Uploading, Deleting, Fetching
<1>6. TypeOK'
  BY <1>1, <1>2, <1>4 DEF TypeOK, Statements
<1>7. UploadsOK' /\ HiddenNotFound' /\ DeletionsOK' /\ DeletedForGood' /\ RowHasFile'
  BY <1>1, <1>4, <1>5, StorageKeeps
<1>8. \A g \in Handlers : Fetching(g)' => Fetching(g) /\ req'[g] = req[g]
  BY <1>5 DEF SameFetches, Fetching
<1>9. \A g \in Handlers : At(g, "lookup")' => At(g, "lookup") /\ req'[g] = req[g]
  BY <1>1, <1>2 DEF At
<1>10. \A p \in Push : VideoPush'[p] > 0 => VideoPush[p] > 0 \/ p = q
  BY <1>4
<1>11. PushesKnown' /\ NamesOK'
  <2>1. PushesKnown'
    BY <1>1, <1>8, <1>9, <1>10 DEF PushesKnown, Fresh
  <2>2. NamesOK'
    BY <1>1, <1>4, <1>9, HistoryGrows DEF NamesOK, PublisherNamed, RightName, Fresh
  <2> QED
    BY <2>1, <2>2
<1>12. InsertedThere'
  <2>1. There(v)
    BY <1>1 DEF InsertedThere
  <2> QED
    BY <1>1, <1>2, <1>4, <1>9, <1>10, <2>1, HistoryGrows DEF InsertedThere, There, At
<1>13. RemovalOK'
  <2>1. LostOnlyIfLate'
    BY <1>1, <1>4 DEF RemovalOK, LostOnlyIfLate, Shown
  <2>2. ASSUME NEW g \in Handlers, NEW p \in Push, Fetching(g)', req'[g].user = p[1], VideoPush'[p] > 0
        PROVE  \/ p \in late' \/ Shown(p)'
               \/ At(g, "lookup")' /\ (req'[g].rows[p[2]] > 0 \/ \E x \in req'[g].videos : x[1] = p[2])
    <3>1. Fetching(g) /\ req'[g] = req[g]
      BY <1>8, <2>2
    <3>2. CASE VideoPush'[p] = VideoPush[p]
      BY <1>1, <1>4, <2>2, <3>1, <3>2 DEF RemovalOK, Shown, At
    <3>3. CASE VideoPush'[p] # VideoPush[p]
      <4>1. p = q
        BY <1>4, <3>3
      <4>2. FetchRunning(f)
        BY <1>1, <2>2, <3>1, <4>1 DEF FetchRunning, Fetching
      <4> QED
        BY <1>4, <3>3, <4>1, <4>2
    <3> QED
      BY <3>2, <3>3
  <2> QED
    BY <2>1, <2>2 DEF RemovalOK
<1>14. AccountingOK'
  <2> SUFFICES ASSUME NEW p \in Push PROVE Accounted(p)'
    BY DEF AccountingOK
  <2>1. /\ Accounted(p) /\ p[1] \in Followers /\ p[2] \in Videos /\ p = <<p[1], p[2]>>
        /\ VideoPush[p] \in Nat /\ taken[p] \in Nat
    BY DEF AccountingOK, TypeOK, Push
  <2>2. \A g \in Handlers : At(g, "push") /\ req[g].video = v => g = h
    BY <1>1 DEF UploadsOK, Uploading, At
  <2>3. CASE p[2] = v
    <3>1. Balanced(owed[p], req[h].rows[p[1]] + VideoPush[p] + taken[p], p[2])
      BY <1>1, <2>1, <2>3 DEF Accounted, At
    <3>2. LET old == req[h].rows[p[1]] + VideoPush[p]
              new == req'[h].rows[p[1]] + VideoPush'[p]
          IN  /\ old \in Nat /\ new \in Nat
              /\ old = new \/ (old > new /\ <<"push", v>> \in failed')
      <4>1. CASE p = q
        BY <1>1, <1>3, <1>4, <2>1, <4>1
      <4>2. CASE p # q
        BY <1>3, <1>4, <2>1, <2>3, <4>2
      <4> QED
        BY <4>1, <4>2
    <3>3. LET have == req'[h].rows[p[1]] + VideoPush'[p] + taken'[p]
          IN  owed'[p] = have \/ (owed'[p] > have /\ <<"push", p[2]>> \in failed')
      <4>1. owed[p] \in Nat /\ owed'[p] = owed[p] /\ taken'[p] = taken[p]
        BY <1>1 DEF TypeOK
      <4>2. Failed("push", v) => <<"push", v>> \in failed'
        BY <1>4 DEF Failed
      <4> QED
        BY <2>1, <2>3, <3>1, <3>2, <4>1, <4>2 DEF Balanced
    <3>4. At(h, "push")' /\ req'[h].video = p[2]
      BY <1>2, <2>3 DEF At
    <3>5. \A g \in Handlers : At(g, "push")' /\ req'[g].video = p[2] => g = h
      BY <1>2, <2>2, <2>3 DEF At
    <3> QED
      BY <3>3, <3>4, <3>5 DEF Accounted, Balanced, Failed
  <2>4. CASE p[2] # v
    <3>1. VideoPush'[p] = VideoPush[p]
      BY <1>1, <1>4, <2>4
    <3> QED
      BY <1>1, <1>2, <1>4, <2>1, <2>4, <3>1, HistoryGrows DEF Accounted, At
  <2> QED
    BY <2>3, <2>4
<1> QED
  BY <1>6, <1>7, <1>11, <1>12, <1>13, <1>14

(***************************************************************************)
(* Deletion.                                                               *)
(***************************************************************************)
LEMMA DeleteKeeps ==
  ASSUME VideoInv, NEW h \in Handlers, NEW v \in Videos, Delete(h, v)
  PROVE  VideoInv'
<1> USE DEF VideoInv
<1>1. /\ req[h].at = "idle" /\ deletions \subseteq deletions'
      /\ UNCHANGED <<tables, owed, taken, shown, late, deleted>>
  BY DEF Delete, At
<1>2. /\ req' \in [Handlers -> Requests] /\ req'[h].at = "unlink" /\ req'[h].video = v
      /\ req'[h].row \in Video \cup {NoOne}
      /\ deletions' = deletions \cup {<<v, req'[h].row>>}
      /\ failed \subseteq failed' /\ failed' \subseteq failed \cup {<<"find", v>>}
      /\ \A g \in Handlers : g # h => req'[g] = req[g]
  <2>1. PICK row \in RowsOf(v) \cup {NoOne} :
          /\ UNCHANGED failed \/ Fails("find", v)
          /\ req' = [req EXCEPT ![h] = [Idle EXCEPT !.at = "unlink", !.video = v, !.row = row]]
          /\ deletions' = deletions \cup {<<v, row>>}
    BY DEF Delete
  <2> DEFINE q == [Idle EXCEPT !.at = "unlink", !.video = v, !.row = row]
  <2>2. q \in Requests /\ q.at = "unlink" /\ q.video = v /\ q.row = row /\ row \in Video \cup {NoOne}
    BY IdleRequest DEF Requests, Steps, RowsOf, TypeOK
  <2> HIDE DEF q
  <2>3. req' = [req EXCEPT ![h] = q]
    BY <2>1 DEF q
  <2> QED
    BY <2>1, <2>2, <2>3 DEF TypeOK, Fails
<1>3. SameUploads /\ SameFetches
  BY <1>1, <1>2 DEF SameUploads, SameFetches, Uploading, Fetching
<1>4. TypeOK'
  BY <1>1, <1>2 DEF TypeOK, tables, Statements
<1>5. UploadsOK' /\ \A w \in Videos : Hidden(w)' <=> Hidden(w)
  BY <1>1, <1>3, SameUploadsKeep DEF tables
<1>6. HiddenNotFound'
  BY <1>1, <1>2, <1>5, VideoAssumption DEF HiddenNotFound, Deleting, tables
<1>7. DeletionsOK' /\ DeletedForGood'
  BY <1>1, <1>2 DEF Failed, DeletionsOK, Deleting, At, DeletedForGood, tables
<1>8. PushesKnown' /\ NamesOK' /\ RemovalOK'
  BY <1>1, <1>2, <1>3, FetchesKeep DEF tables
<1>9. InsertedThere'
  BY <1>1, <1>2, HistoryGrows DEF InsertedThere, There, At, tables
<1>10. RowHasFile'
  BY <1>1, <1>2, HistoryGrows DEF RowHasFile, At, tables
<1>11. AccountingOK'
  BY <1>1, <1>2, HistoryGrows DEF AccountingOK, Accounted, At, tables
<1> QED
  BY <1>4, <1>5, <1>6, <1>7, <1>8, <1>9, <1>10, <1>11

LEMMA RemoveFileKeeps ==
  ASSUME VideoInv, NEW h \in Handlers, RemoveFile(h)
  PROVE  VideoInv'
<1> USE DEF VideoInv
<1> DEFINE v == req[h].video
<1>1. /\ req[h].at = "unlink" /\ req' \in [Handlers -> Requests]
      /\ req'[h].at = "drop" /\ req'[h].video = v /\ req'[h].row = req[h].row
      /\ \A g \in Handlers : g # h => req'[g] = req[g]
      /\ UNCHANGED <<publisher, Video, Follow, VideoPush, owed, taken, shown, late, deletions, deleted>>
  BY GotoStep DEF RemoveFile, At, Steps
<1>2. /\ files' \subseteq files /\ files \ {v} \subseteq files'
      /\ failed \subseteq failed' /\ failed' \subseteq failed \cup {<<"unlink", v>>}
      /\ req[h].row = v => v \notin files' \/ <<"unlink", v>> \in failed'
      /\ req[h].row = NoOne => files' = files
  <2>1. v \in Videos /\ v # NoOne
    BY <1>1, VideoAssumption DEF DeletionsOK, Deleting, TypeOK
  <2>2. CASE Fails("unlink", v) /\ UNCHANGED files
    BY <2>2 DEF Fails
  <2>3. CASE (\E gone \in Unlinked(h) : files' = files \ gone) /\ UNCHANGED failed
    BY <2>1, <2>3 DEF Unlinked
  <2> QED
    BY <2>2, <2>3 DEF RemoveFile
<1>3. /\ v \in Videos /\ Asked(v) /\ AskedNumber(v)
      /\ req[h].row \notin {v, NoOne} => Misled(v)
  <2> DEFINE d == <<v, req[h].row>>
  <2>1. d \in deletions /\ d[1] = v /\ d[2] = req[h].row /\ v \in Videos
    BY <1>1 DEF DeletionsOK, Deleting, TypeOK
  <2>2. SameNumber(d[1], v)
    BY <2>1 DEF SameNumber
  <2> HIDE DEF d
  <2> QED
    BY <2>1, <2>2 DEF Asked, AskedNumber, Misled
<1>4. SameUploads /\ SameFetches
  BY <1>1 DEF SameUploads, SameFetches, Uploading, Fetching
<1>5. TypeOK'
  BY <1>1, <1>2, <1>3 DEF TypeOK, Statements
<1>6. UploadsOK' /\ \A w \in Videos : Hidden(w)' <=> Hidden(w)
  BY <1>1, <1>4, SameUploadsKeep
<1>7. HiddenNotFound'
  BY <1>1, <1>6 DEF HiddenNotFound, Deleting
<1>8. DeletionsOK' /\ DeletedForGood'
  BY <1>1, <1>2, HistoryGrows DEF DeletionsOK, Deleting, At, DeletedForGood, Failed
<1>9. PushesKnown' /\ NamesOK' /\ RemovalOK'
  BY <1>1, <1>2, <1>4, FetchesKeep
<1>10. InsertedThere'
  <2>1. \A w : There(w) => There(w)'
    BY <1>1, <1>2, <1>3, HistoryGrows DEF There
  <2>2. \A g \in Handlers : At(g, "insert") /\ req[g].video = v => files' = files \/ Misled(v)
    <3>1. ASSUME NEW g \in Handlers, At(g, "insert"), req[g].video = v PROVE files' = files \/ Misled(v)
      <4>1. v \in Videos /\ Hidden(v)
        BY <3>1 DEF UploadsOK, Uploading, At, Hidden
      <4> QED
        BY <1>1, <1>2, <1>3, <4>1 DEF HiddenNotFound, Deleting
    <3> QED
      BY <3>1
  <2> QED
    BY <1>1, <1>2, <2>1, <2>2, HistoryGrows DEF InsertedThere, At
<1>11. RowHasFile'
  BY <1>1, <1>2, HistoryGrows DEF RowHasFile, At
<1>12. AccountingOK'
  BY <1>1, <1>2, HistoryGrows DEF AccountingOK, Accounted, At
<1> QED
  BY <1>5, <1>6, <1>7, <1>8, <1>9, <1>10, <1>11, <1>12

LEMMA DeleteVideoKeeps ==
  ASSUME VideoInv, NEW h \in Handlers, DeleteVideo(h)
  PROVE  VideoInv'
<1> USE DEF VideoInv
<1> DEFINE v == req[h].video
<1>1. /\ req[h].at = "drop" /\ req' \in [Handlers -> Requests] /\ req'[h].at = "idle"
      /\ \A g \in Handlers : g # h => req'[g] = req[g]
      /\ UNCHANGED <<publisher, files, Follow, VideoPush, owed, taken, shown, late, deletions>>
  BY FinishStep DEF DeleteVideo, At
<1>2. /\ Video' \subseteq Video /\ deleted \subseteq deleted'
      /\ \A w \in Video : w \in Video' \/ SameNumber(w, v)
      /\ failed \subseteq failed' /\ failed' \subseteq failed \cup {<<"drop", v>>}
      /\ v \notin Video' \/ <<"drop", v>> \in failed'
      /\ \A w \in deleted' : w \in deleted \/ (w = v /\ req[h].row = v /\ v \notin Video')
  <2>1. SameNumber(v, v)
    BY DEF SameNumber
  <2> QED
    BY <2>1 DEF DeleteVideo, Fails, RowsOf
<1>3. <<v, req[h].row>> \in deletions /\ (req[h].row = v => v \notin files \/ Failed("unlink", v))
  BY <1>1 DEF DeletionsOK, Deleting, At
<1>4. v \in Videos
  BY <1>3 DEF TypeOK
<1>5. SameUploads /\ SameFetches
  BY <1>1 DEF SameUploads, SameFetches, Uploading, Fetching
<1>6. TypeOK'
  BY <1>1, <1>2, <1>4 DEF TypeOK, Statements
<1>7. UploadsOK' /\ \A w \in Videos : Hidden(w)' <=> Hidden(w)
  BY <1>1, <1>5, SameUploadsKeep
<1>8. HiddenNotFound'
  BY <1>1, <1>2, <1>7 DEF HiddenNotFound, Deleting
<1>9. DeletionsOK'
  BY <1>1, <1>2, HistoryGrows DEF DeletionsOK, Deleting, At
<1>10. DeletedForGood'
  BY <1>1, <1>2, <1>3, HistoryGrows DEF DeletedForGood
<1>11. PushesKnown' /\ NamesOK' /\ RemovalOK'
  BY <1>1, <1>2, <1>5, FetchesKeep
<1>12. InsertedThere'
  <2>1. \A w : There(w) => There(w)'
    <3>1. \A w : w \in Video => w \in Video' \/ AskedNumber(w)'
      <4> SUFFICES ASSUME NEW w, w \in Video, w \notin Video' PROVE AskedNumber(w)'
        OBVIOUS
      <4> DEFINE d == <<v, req[h].row>>
      <4>1. d \in deletions' /\ d[1] = v
        BY <1>1, <1>3
      <4>2. SameNumber(d[1], w)
        BY <1>2, <4>1 DEF SameNumber
      <4> HIDE DEF d
      <4> QED
        BY <4>1, <4>2 DEF AskedNumber
    <3> QED
      BY <1>1, <1>2, <3>1, HistoryGrows DEF There
  <2> QED
    BY <1>1, <1>2, <2>1, HistoryGrows DEF Failed, InsertedThere, At
<1>13. RowHasFile'
  BY <1>1, <1>2, HistoryGrows DEF Failed, RowHasFile, At
<1>14. AccountingOK'
  BY <1>1, <1>2, HistoryGrows DEF AccountingOK, Accounted, At
<1> QED
  BY <1>6, <1>7, <1>8, <1>9, <1>10, <1>11, <1>12, <1>13, <1>14
(***************************************************************************)
(* Fetching the pushes.                                                    *)
(***************************************************************************)
LEMMA FetchKeeps ==
  ASSUME VideoInv, NEW h \in Handlers, NEW f \in Followers, Fetch(h, f)
  PROVE  VideoInv'
<1> USE DEF VideoInv
<1>1. /\ \A v \in Videos : <<f, v>> \in Push
      /\ PushRows(f) \in [Followers \cup Videos -> Nat]
      /\ \A v \in Videos : PushRows(f)[v] = VideoPush[<<f, v>>]
  BY DEF PushRows, TypeOK, Push
<1>2. /\ req[h].at = "idle" /\ req' \in [Handlers -> Requests] /\ req'[h].at = "lookup"
      /\ req'[h].user = f /\ req'[h].rows = PushRows(f) /\ req'[h].videos = {}
      /\ \A g \in Handlers : g # h => req'[g] = req[g]
      /\ UNCHANGED <<tables, history>>
  <2> DEFINE q == [Idle EXCEPT !.at = "lookup", !.user = f, !.rows = PushRows(f)]
  <2>1. q \in Requests /\ q.at = "lookup" /\ q.user = f /\ q.rows = PushRows(f) /\ q.videos = {}
    BY <1>1, IdleRequest DEF Requests, Steps
  <2>2. req' = [req EXCEPT ![h] = q]
    BY DEF Fetch
  <2> HIDE DEF q
  <2> QED
    BY <2>1, <2>2 DEF TypeOK, Fetch, At
<1>3. SameUploads /\ SameDeletions
  BY <1>2 DEF SameUploads, SameDeletions, Uploading, Deleting
<1>4. TypeOK'
  BY <1>2 DEF TypeOK, tables, history
<1>5. UploadsOK' /\ HiddenNotFound' /\ DeletionsOK' /\ DeletedForGood' /\ RowHasFile'
  BY <1>2, <1>3, StorageKeeps DEF tables, history
<1>6. \A v \in Videos : req'[h].rows[v] > 0 => ~Fresh(v) /\ There(v)
  <2> SUFFICES ASSUME NEW v \in Videos, req'[h].rows[v] > 0 PROVE ~Fresh(v) /\ There(v)
    OBVIOUS
  <2> DEFINE p == <<f, v>>
  <2>1. p \in Push /\ VideoPush[p] > 0 /\ p[2] = v
    BY <1>1, <1>2
  <2> QED
    BY <2>1 DEF PushesKnown, Fetching, InsertedThere
<1>7. PushesKnown' /\ NamesOK'
  BY <1>2, <1>6, HistoryGrows DEF PushesKnown, Fetching, NamesOK, PublisherNamed, RightName, Fresh, At, tables, history
<1>8. InsertedThere'
  BY <1>2, <1>6, HistoryGrows DEF InsertedThere, There, At, tables, history
<1>9. AccountingOK'
  BY <1>2, HistoryGrows DEF AccountingOK, Accounted, At, tables, history
<1>10. RemovalOK'
  <2>1. LostOnlyIfLate'
    BY <1>2 DEF RemovalOK, LostOnlyIfLate, Shown, history
  <2>2. ASSUME NEW p \in Push, f = p[1], VideoPush[p] > 0 PROVE req'[h].rows[p[2]] > 0
    BY <1>1, <1>2, <2>2 DEF Push
  <2> QED
    BY <1>2, <2>1, <2>2 DEF RemovalOK, Shown, Fetching, At, tables, history
<1> QED
  BY <1>4, <1>5, <1>7, <1>8, <1>9, <1>10

LEMMA LookupPublisherKeeps ==
  ASSUME VideoInv, NEW h \in Handlers, NEW v \in Videos, LookupPublisher(h, v)
  PROVE  VideoInv'
<1> USE DEF VideoInv
<1>1. PICK b \in Named :
        /\ \/ b \in LookedUp(h, v) /\ UNCHANGED failed
           \/ Fails("lookup", v)
        /\ req' = [req EXCEPT ![h].rows[v] = @ - 1, ![h].publisherId = b, ![h].videos = @ \cup {<<v, b>>}]
  BY DEF LookupPublisher
<1>2. /\ req[h].at = "lookup" /\ req[h].rows[v] > 0
      /\ UNCHANGED <<tables, owed, taken, shown, late, deletions, deleted>>
      /\ failed \subseteq failed' /\ failed' \subseteq failed \cup {<<"lookup", v>>}
  BY <1>1 DEF LookupPublisher, At, HasRow, Fails
<1>3. /\ req \in [Handlers -> Requests] /\ req[h] \in Requests
      /\ req[h].rows \in [Followers \cup Videos -> Nat] /\ req[h].videos \subseteq Videos \X Named
      /\ req[h].publisherId \in Named
  BY DEF TypeOK, Requests
<1>4. v \in Video => RightName(v, b)'
  <2> SUFFICES ASSUME v \in Video, ~Failed("lookup", v)' PROVE RightName(v, b)'
    BY DEF RightName
  <2>1. v \in RowsOf(v)
    BY DEF RowsOf, SameNumber
  <2>2. b \in LookedUp(h, v)
    BY <1>1 DEF Fails, Failed
  <2>3. PICK w \in RowsOf(v) : b = publisher[w]
    BY <2>1, <2>2 DEF LookedUp
  <2>4. w \in Videos /\ SameNumber(w, v) /\ ~Fresh(w)
    BY <2>3 DEF RowsOf, TypeOK, HiddenNotFound, Hidden
  <2> QED
    BY <1>2, <2>3, <2>4 DEF RightName, Fresh, tables
<1>5. /\ req' \in [Handlers -> Requests] /\ req'[h].at = "lookup" /\ req'[h].user = req[h].user
      /\ req'[h].rows = [req[h].rows EXCEPT ![v] = @ - 1]
      /\ req'[h].videos = req[h].videos \cup {<<v, b>>}
      /\ \A g \in Handlers : g # h => req'[g] = req[g]
  <2> DEFINE r == [req[h].rows EXCEPT ![v] = @ - 1]
             l == req[h].videos \cup {<<v, b>>}
  <2>1. r \in [Followers \cup Videos -> Nat] /\ l \subseteq Videos \X Named
    BY <1>2, <1>3, <1>4
  <2>2. req' = [req EXCEPT ![h] = [req[h] EXCEPT !.rows = r, !.publisherId = b, !.videos = l]]
    BY <1>1, <1>3
  <2> HIDE DEF r, l
  <2>3. [req[h] EXCEPT !.rows = r, !.publisherId = b, !.videos = l] \in Requests
    BY <1>3, <1>4, <2>1 DEF Requests
  <2>4. /\ req' \in [Handlers -> Requests] /\ req'[h].at = "lookup" /\ req'[h].user = req[h].user
        /\ req'[h].rows = r /\ req'[h].videos = l
        /\ \A g \in Handlers : g # h => req'[g] = req[g]
    BY <1>2, <1>3, <2>2, <2>3 DEF Requests
  <2> QED
    BY <2>4 DEF r, l
<1>6. \A w \in Videos : req'[h].rows[w] = IF w = v THEN req[h].rows[w] - 1 ELSE req[h].rows[w]
  BY <1>3, <1>5
<1>7. \A w \in Videos : req'[h].rows[w] > 0 => req[h].rows[w] > 0
  BY <1>2, <1>6
<1>8. SameUploads /\ SameDeletions
  BY <1>2, <1>5 DEF SameUploads, SameDeletions, Uploading, Deleting
<1>9. TypeOK'
  BY <1>2, <1>5 DEF TypeOK, tables, Statements
<1>10. UploadsOK' /\ HiddenNotFound' /\ DeletionsOK' /\ DeletedForGood' /\ RowHasFile'
  BY <1>2, <1>8, StorageKeeps DEF tables
<1>11. \A x \in req'[h].videos : x \in req[h].videos \/ (x[1] = v /\ x[2] = b)
  BY <1>5
<1>12. ~Fresh(v) /\ There(v)
  BY <1>2 DEF PushesKnown, Fetching, InsertedThere, At
<1>13. PushesKnown'
  BY <1>2, <1>5, <1>7, <1>11, <1>12 DEF PushesKnown, Fetching, Fresh, At, tables
<1>14. NamesOK'
  <2>1. RightName(v, b)'
    BY <1>2, <1>4, <1>12, HistoryGrows DEF There, RightName
  <2>2. \A w, c : RightName(w, c) => RightName(w, c)'
    BY <1>2, HistoryGrows DEF RightName, Fresh, tables
  <2> QED
    BY <1>2, <1>5, <1>11, <2>1, <2>2 DEF NamesOK, PublisherNamed, At
<1>15. InsertedThere'
  BY <1>2, <1>5, <1>7, HistoryGrows DEF InsertedThere, There, At, tables
<1>16. AccountingOK'
  BY <1>2, <1>5, HistoryGrows DEF AccountingOK, Accounted, At, tables
<1>17. RemovalOK'
  <2>1. LostOnlyIfLate'
    BY <1>2 DEF RemovalOK, LostOnlyIfLate, Shown
  <2>2. <<v, b>> \in req'[h].videos /\ <<v, b>>[1] = v
    BY <1>5
  <2>3. ASSUME NEW p \in Push, req[h].rows[p[2]] > 0 \/ \E x \in req[h].videos : x[1] = p[2]
        PROVE  req'[h].rows[p[2]] > 0 \/ \E x \in req'[h].videos : x[1] = p[2]
    <3>1. p[2] \in Videos
      BY DEF Push
    <3> QED
      BY <1>5, <1>6, <2>2, <2>3, <3>1
  <2>4. ASSUME NEW g \in Handlers, NEW p \in Push, Fetching(g)', req'[g].user = p[1], VideoPush'[p] > 0
        PROVE  \/ p \in late' \/ Shown(p)'
               \/ At(g, "lookup")' /\ (req'[g].rows[p[2]] > 0 \/ \E x \in req'[g].videos : x[1] = p[2])
    <3>1. Fetching(g) /\ req[g].user = p[1] /\ VideoPush[p] > 0
      BY <1>2, <1>5, <2>4 DEF Fetching, tables
    <3>2. \/ p \in late \/ Shown(p)
          \/ At(g, "lookup") /\ (req[g].rows[p[2]] > 0 \/ \E x \in req[g].videos : x[1] = p[2])
      BY <3>1 DEF RemovalOK
    <3>3. CASE p \in late \/ Shown(p)
      BY <1>2, <3>3 DEF Shown
    <3>4. CASE At(g, "lookup") /\ (req[g].rows[p[2]] > 0 \/ \E x \in req[g].videos : x[1] = p[2])
      BY <1>5, <2>3, <3>4 DEF At
    <3> QED
      BY <3>2, <3>3, <3>4
  <2> QED
    BY <2>1, <2>4 DEF RemovalOK
<1> QED
  BY <1>9, <1>10, <1>13, <1>14, <1>15, <1>16, <1>17

LEMMA SendPushesKeeps ==
  ASSUME VideoInv, NEW h \in Handlers, SendPushes(h)
  PROVE  VideoInv'
<1> USE DEF VideoInv
<1>1. /\ req[h].at = "lookup" /\ req[h].rows = NoRows
      /\ req' \in [Handlers -> Requests] /\ req'[h].at = "clear" /\ req'[h].user = req[h].user
      /\ \A g \in Handlers : g # h => req'[g] = req[g]
      /\ UNCHANGED <<tables, owed, taken, late, deletions, deleted, failed>>
  BY GotoStep DEF SendPushes, At, Steps
<1>2. shown' = shown \cup {<<req[h].user, x[1], x[2]>> : x \in req[h].videos}
  BY DEF SendPushes
<1>3. SameUploads /\ SameDeletions
  BY <1>1 DEF SameUploads, SameDeletions, Uploading, Deleting
<1>4. UploadsOK' /\ HiddenNotFound' /\ DeletionsOK' /\ DeletedForGood' /\ RowHasFile'
  BY <1>1, <1>3, StorageKeeps DEF tables
<1>5. req[h].videos \subseteq Videos \X Named
  BY DEF TypeOK, Requests
<1>6. \A y \in shown' : y \in shown \/ \E x \in req[h].videos : y[2] = x[1] /\ y[3] = x[2]
  BY <1>2
<1>7. PushesKnown'
  BY <1>1, <1>6 DEF PushesKnown, Fetching, Fresh, At, tables
<1>8. NamesOK'
  BY <1>1, <1>6 DEF NamesOK, PublisherNamed, RightName, Asked, AskedNumber, Misled, Failed, Fresh, At, tables
<1>9. InsertedThere'
  BY <1>1 DEF InsertedThere, There, Asked, AskedNumber, Misled, Failed, At, tables
<1>10. AccountingOK'
  BY <1>1 DEF AccountingOK, Accounted, Balanced, Failed, At, tables
<1>11. \A p \in Push : Shown(p) => Shown(p)'
  BY <1>2 DEF Shown
<1>12. RemovalOK'
  <2>1. LostOnlyIfLate'
    BY <1>1, <1>11 DEF RemovalOK, LostOnlyIfLate
  <2>2. ASSUME NEW p \in Push, req[h].user = p[1], \E x \in req[h].videos : x[1] = p[2]
        PROVE  Shown(p)'
    <3>1. PICK x \in req[h].videos : x[1] = p[2]
      BY <2>2
    <3> DEFINE y == <<req[h].user, x[1], x[2]>>
    <3>2. y \in shown' /\ y[1] = p[1] /\ y[2] = p[2]
      BY <1>2, <2>2, <3>1
    <3> QED
      BY <3>2 DEF Shown
  <2>3. \A p \in Push : ~(req[h].rows[p[2]] > 0)
    BY <1>1 DEF NoRows, Push
  <2> QED
    BY <1>1, <1>11, <2>1, <2>2, <2>3 DEF RemovalOK, Fetching, At, tables
<1>13. TypeOK'
  <2>1. shown' \subseteq Followers \X Videos \X Named
    <3>1. req[h].user \in Followers
      BY <1>1 DEF PushesKnown, Fetching, At
    <3>2. \A x \in req[h].videos : x[1] \in Videos /\ x[2] \in Named
      BY <1>5
    <3> QED
      BY <1>2, <3>1, <3>2 DEF TypeOK
  <2> QED
    BY <1>1, <2>1 DEF TypeOK, tables
<1> QED
  BY <1>4, <1>7, <1>8, <1>9, <1>10, <1>12, <1>13
LEMMA ClearPushesKeeps ==
  ASSUME VideoInv, NEW h \in Handlers, ClearPushes(h)
  PROVE  VideoInv'
<1> USE DEF VideoInv
<1> DEFINE u == req[h].user
<1>1. /\ req[h].at = "clear" /\ req' \in [Handlers -> Requests] /\ req'[h].at = "idle"
      /\ \A g \in Handlers : g # h => req'[g] = req[g]
      /\ UNCHANGED <<publisher, files, Video, Follow, owed, shown, late, deletions, deleted>>
  BY FinishStep DEF ClearPushes, At
<1>2. /\ VideoPush \in [Push -> Nat] /\ taken \in [Push -> Nat]
      /\ VideoPush' \in [Push -> Nat] /\ taken' \in [Push -> Nat]
      /\ \A p \in Push :
           \/ VideoPush'[p] = VideoPush[p] /\ taken'[p] = taken[p]
           \/ p[1] = u /\ VideoPush'[p] = 0 /\ taken'[p] = taken[p] + VideoPush[p]
      /\ failed \subseteq failed' /\ failed' \subseteq failed \cup {<<"clear", u>>}
  <2>1. VideoPush \in [Push -> Nat] /\ taken \in [Push -> Nat]
    BY DEF TypeOK
  <2>2. CASE Fails("clear", u) /\ UNCHANGED <<VideoPush, taken>>
    BY <2>1, <2>2 DEF Fails
  <2>3. CASE /\ VideoPush' = [p \in Push |-> IF Clears(h, p) THEN 0 ELSE VideoPush[p]]
             /\ taken' = [p \in Push |-> IF Clears(h, p) THEN taken[p] + VideoPush[p] ELSE taken[p]]
             /\ UNCHANGED failed
    BY <2>1, <2>3 DEF Clears
  <2> QED
    BY <2>2, <2>3 DEF ClearPushes
<1>3. SameUploads /\ SameDeletions
  BY <1>1 DEF SameUploads, SameDeletions, Uploading, Deleting
<1>4. TypeOK'
  <2>1. u \in Followers
    BY <1>1 DEF PushesKnown, Fetching
  <2> QED
    BY <1>1, <1>2, <2>1 DEF TypeOK, Statements
<1>5. UploadsOK' /\ HiddenNotFound' /\ DeletionsOK' /\ DeletedForGood' /\ RowHasFile'
  BY <1>1, <1>2, <1>3, StorageKeeps
<1>6. \A p \in Push : VideoPush'[p] > 0 => VideoPush[p] > 0
  BY <1>2
<1>7. PushesKnown' /\ NamesOK'
  BY <1>1, <1>2, <1>6, HistoryGrows DEF PushesKnown, Fetching, NamesOK, PublisherNamed, RightName, Fresh, At
<1>8. InsertedThere'
  BY <1>1, <1>2, <1>6, HistoryGrows DEF InsertedThere, There, At
<1>9. AccountingOK'
  <2> SUFFICES ASSUME NEW p \in Push PROVE Accounted(p)'
    BY DEF AccountingOK
  <2>1. Accounted(p) /\ VideoPush'[p] + taken'[p] = VideoPush[p] + taken[p]
    BY <1>2 DEF AccountingOK
  <2>2. \A g \in Handlers : At(g, "push")' <=> At(g, "push")
    BY <1>1 DEF At
  <2>3. \A g \in Handlers : At(g, "push") => req'[g] = req[g]
    BY <1>1 DEF At
  <2>4. ASSUME NEW g \in Handlers, At(g, "push"), req[g].video = p[2]
        PROVE  LET have == req'[g].rows[p[1]] + VideoPush'[p] + taken'[p]
               IN  owed'[p] = have \/ (owed'[p] > have /\ <<"push", p[2]>> \in failed')
    <3>1. /\ Balanced(owed[p], req[g].rows[p[1]] + VideoPush[p] + taken[p], p[2])
          /\ req[g].rows[p[1]] \in Nat
      BY <2>1, <2>4 DEF Accounted, TypeOK, Requests, Push
    <3>2. req[g].rows[p[1]] + VideoPush[p] + taken[p] = req'[g].rows[p[1]] + VideoPush'[p] + taken'[p]
      BY <1>2, <2>1, <2>3, <2>4, <3>1
    <3> QED
      BY <1>1, <1>2, <3>1, <3>2 DEF Balanced, Failed
  <2> QED
    BY <1>1, <1>2, <2>1, <2>2, <2>3, <2>4, HistoryGrows DEF Accounted, Balanced, Failed
<1>10. RemovalOK'
  <2>1. \A p \in Push : Shown(p)' <=> Shown(p)
    BY <1>1 DEF Shown
  <2>2. LostOnlyIfLate'
    <3> SUFFICES ASSUME NEW p \in Push, taken'[p] > 0, ~Shown(p) PROVE p \in late
      BY <1>1, <2>1 DEF LostOnlyIfLate
    <3>1. CASE taken[p] > 0
      BY <3>1 DEF RemovalOK, LostOnlyIfLate
    <3>2. CASE ~(taken[p] > 0)
      <4>1. p[1] = u /\ VideoPush[p] > 0
        BY <1>2, <3>2
      <4> QED
        BY <1>1, <4>1 DEF RemovalOK, Fetching, At
    <3> QED
      BY <3>1, <3>2
  <2>3. \A g \in Handlers : Fetching(g)' => Fetching(g) /\ req'[g] = req[g]
    BY <1>1 DEF Fetching
  <2> QED
    BY <1>1, <1>6, <2>1, <2>2, <2>3 DEF RemovalOK, At
<1> QED
  BY <1>4, <1>5, <1>7, <1>8, <1>9, <1>10

\* Following and unfollowing concern the next upload only.
LEMMA FollowKeeps ==
  ASSUME VideoInv, UNCHANGED <<publisher, files, Video, VideoPush, req, history>>,
         Follow' \in [Publishers \X Followers -> 0..MaxRows]
  PROVE  VideoInv'
<1> USE DEF VideoInv
<1>1. TypeOK'
  BY DEF TypeOK, history
<1>2. SameUploads /\ SameDeletions /\ SameFetches
  BY DEF SameUploads, SameDeletions, SameFetches, Uploading
<1>3. UploadsOK' /\ HiddenNotFound' /\ DeletionsOK' /\ DeletedForGood' /\ RowHasFile'
  BY <1>2, StorageKeeps DEF history
<1>4. PushesKnown' /\ NamesOK' /\ RemovalOK'
  BY <1>2, FetchesKeep DEF history
<1>5. InsertedThere' /\ AccountingOK'
  BY HistoryGrows DEF InsertedThere, There, AccountingOK, Accounted, At, history
<1> QED
  BY <1>1, <1>3, <1>4, <1>5

LEMMA VideoInvariance == Spec => []VideoInv
<1>1. ASSUME VideoInv, UNCHANGED vars PROVE VideoInv'
  BY <1>1, FollowKeeps DEF vars, tables, VideoInv, TypeOK
<1>2. ASSUME VideoInv, NEW u \in Publishers, NEW f \in Followers, FollowUser(u, f) \/ Unfollow(u, f)
      PROVE  VideoInv'
  <2>1. /\ Follow' \in [Publishers \X Followers -> 0..MaxRows]
        /\ UNCHANGED <<publisher, files, Video, VideoPush, req, history>>
    BY <1>2, VideoAssumption DEF FollowUser, Unfollow, VideoInv, TypeOK
  <2> QED
    BY <1>2, <2>1, FollowKeeps
<1>3. ASSUME VideoInv, Next PROVE VideoInv'
  BY <1>2, <1>3, UploadKeeps, WriteFileKeeps, InsertVideoKeeps, SelectFollowersKeeps, UploadEndKeeps,
     InsertPushKeeps, FetchKeeps, DeleteKeeps, LookupPublisherKeeps, RemoveFileKeeps,
     DeleteVideoKeeps, SendPushesKeeps, ClearPushesKeeps DEF Next
<1> QED
  BY <1>1, <1>3, VideoInit, PTL DEF Spec

\* The tables, the files and the requests keep their types, whatever fails.
THEOREM VideoTypeCorrect == Spec => []TypeOK
BY VideoInvariance, PTL DEF VideoInv

\* A row of Video leads to its file until a deletion is about to drop the row, unless
\* writing the file or dropping the row failed, or a deletion found a twin's row before
\* this one was there: receive_file writes the file first, and a deletion that has not
\* found a row removes nothing.
THEOREM VideoRowHasFile == Spec => []RowHasFile
BY VideoInvariance, PTL DEF VideoInv

\* A push leads to the file of a video that nobody deletes and to the row of one that
\* nobody deletes through its own id or a twin's, as far as file and row could be
\* written: receive_file pushes last.
THEOREM VideoPushedVideoThere == Spec => []PushedVideoThere
<1>1. VideoInv => PushedVideoThere
  BY DEF VideoInv, InsertedThere, There, PushedVideoThere
<1> QED
  BY <1>1, VideoInvariance, PTL

\* No push is invented between the query for the followers, the insertions and the
\* removal by fetches, and only a failing insertion loses one.
THEOREM VideoPushAccounting == Spec => []PushAccounting
<1>1. VideoInv => PushAccounting
  <2> SUFFICES ASSUME VideoInv, NEW p \in Push
               PROVE  Balanced(owed[p], Pending(p) + VideoPush[p] + taken[p], p[2])
    BY DEF PushAccounting
  <2> DEFINE Pushes(h) == At(h, "push") /\ req[h].video = p[2]
  <2>1. Accounted(p) /\ VideoPush[p] \in Nat /\ taken[p] \in Nat
    BY DEF VideoInv, AccountingOK, TypeOK
  <2>2. CASE \E h \in Handlers : Pushes(h)
    <3>1. /\ (CHOOSE h \in Handlers : Pushes(h)) \in Handlers
          /\ Pushes(CHOOSE h \in Handlers : Pushes(h))
      BY <2>2
    <3>2. Pending(p) = req[CHOOSE h \in Handlers : Pushes(h)].rows[p[1]]
      BY <2>2 DEF Pending
    <3> QED
      BY <2>1, <3>1, <3>2 DEF Accounted
  <2>3. CASE \A h \in Handlers : ~Pushes(h)
    <3>1. Pending(p) = 0
      BY <2>3 DEF Pending
    <3> QED
      BY <2>1, <2>3, <3>1 DEF Accounted
  <2> QED
    BY <2>2, <2>3
<1> QED
  BY <1>1, VideoInvariance, PTL

\* A fetch names the publisher of every video that nobody deletes, or that of a video
\* with the same number, though one json object serves for all of them.
THEOREM VideoPublisherNamed == Spec => []PublisherNamed
BY VideoInvariance, PTL DEF VideoInv, NamesOK

\* Neither row nor file of a video comes back once a deletion has found and dropped
\* the video's own row, whatever fails and whoever uploads at the same time.
THEOREM VideoDeletedForGood == Spec => []DeletedForGood
BY VideoInvariance, PTL DEF VideoInv

\* A push that is removed without having been sent was inserted during a fetch,
\* whatever fails.
THEOREM VideoLostOnlyIfLate == Spec => []LostOnlyIfLate
BY VideoInvariance, PTL DEF VideoInv, RemovalOK
===========================================================================
